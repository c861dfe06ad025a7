----------------------------- MODULE RtcProofs -----------------------------
(***************************************************************************)
(* Proofs about the two halves of the RTC driver.                          *)
(*                                                                         *)
(* GpioI2cRtc: while a call has the lock, nobody else touches the pins, so *)
(* what the bus looks like is determined by how many operations of the     *)
(* call are done.  At(c, k) says it for each k: which bits the chip has    *)
(* heard or put out, who holds SDA, whether the chip has served the call.  *)
(* BusInv adds the types and what the lock stands for; it is inductive     *)
(* (BusStep) because every operation takes At(c, k) to At(c, k + 1)        *)
(* (AtStep), which is shown for the driver's functions one by one, for any *)
(* address, register and byte.  Effect, which AtStep gives as well, is     *)
(* the step that the registers take in the abstract specification.         *)
(*                                                                         *)
(* RtcClock: IInv and RInv, below.                                         *)
(***************************************************************************)
EXTENDS MCRtc, TLAPS

(* The clock. *)
Fields == {"second", "minute", "hour", "date", "month", "year", "week"}

(* Packing a number below 100 into two decimal digits and back loses       *)
(* nothing: the macros BCD and IBCD of rtc.c.                              *)
THEOREM BcdRoundTrip ==
  \A a \in 0..99 : IBCD(BCD(a)) = a /\ BCD(a) \in 0..153
  BY SMT DEF BCD, IBCD

(* The masks of rtc.c leave a packed number alone that is small enough.    *)
LEMMA BcdMasked ==
  \A a \in 0..99 : /\ a < 80 => BCD(a) < 128 /\ BCD(a) % 128 = BCD(a)
                   /\ a < 40 => BCD(a) % 64 = BCD(a)
                   /\ a < 20 => BCD(a) % 32 = BCD(a)
                   /\ a < 10 => BCD(a) % 16 = BCD(a)
<1> SUFFICES ASSUME NEW a \in 0..99
             PROVE  /\ a < 80 => BCD(a) < 128 /\ BCD(a) % 128 = BCD(a)
                    /\ a < 40 => BCD(a) % 64 = BCD(a)
                    /\ a < 20 => BCD(a) % 32 = BCD(a)
                    /\ a < 10 => BCD(a) % 16 = BCD(a)
  OBVIOUS
<1>1. BCD(a) \in 0..153 BY BcdRoundTrip
<1>2. /\ a < 80 => BCD(a) < 128
      /\ a < 40 => BCD(a) < 64
      /\ a < 20 => BCD(a) < 32
      /\ a < 10 => BCD(a) < 16
  BY DEF BCD
<1> QED BY <1>1, <1>2

LEMMA CenturyYear == \A y \in 2000..2099 : y % 100 = y - 2000
OBVIOUS

(* What HI_RTC_SET_TIME writes in a register is what HI_RTC_RD_TIME reads  *)
(* in it, for every field of every time the chip can keep.                 *)
THEOREM SetThenRead ==
  ASSUME NEW t \in Clocks, NEW f \in Fields
  PROVE  Decode(f, Encode(f, t)) = t[f]
<1>3. CASE f \in {"second", "minute"}
  <2>1. t[f] \in 0..59 /\ t[f] % 60 = t[f] BY <1>3 DEF Clocks
  <2>2. BCD(t[f]) % 128 = BCD(t[f]) /\ IBCD(BCD(t[f])) = t[f]
    <3> DEFINE a == t[f]
    <3>1. a \in 0..99 /\ a < 80 BY <2>1
    <3> HIDE DEF a
    <3>2. BCD(a) % 128 = BCD(a) BY <3>1, BcdMasked
    <3>3. IBCD(BCD(a)) = a BY <3>1, BcdRoundTrip
    <3> QED BY <3>2, <3>3 DEF a
  <2>3. Encode(f, t) = BCD(t[f]) BY <1>3, <2>1, <2>2 DEF Encode
  <2>4. Decode(f, BCD(t[f])) = IBCD(BCD(t[f])) BY <1>3, <2>2 DEF Decode
  <2> QED BY <2>2, <2>3, <2>4
<1>4. CASE f = "hour"
  <2> DEFINE h == t.hour
  <2>1. h \in 0..99 /\ h < 40 /\ h < 80 /\ h \in 0..23 BY DEF Clocks
  <2>2. Encode(f, t) = BCD(h % 24) % 64 /\ t[f] = h BY <1>4 DEF Encode
  <2> HIDE DEF h
  <2>3. BCD(h) % 64 = BCD(h) /\ IBCD(BCD(h)) = h /\ BCD(h) < 128
        /\ BCD(h) \in 0..153
    <3>1. BCD(h) % 64 = BCD(h) /\ BCD(h) < 128 BY <2>1, BcdMasked
    <3>2. IBCD(BCD(h)) = h /\ BCD(h) \in 0..153 BY <2>1, BcdRoundTrip
    <3> QED BY <3>1, <3>2
  <2>4. h % 24 = h BY <2>1
  <2>5. Encode(f, t) = BCD(h) BY <2>2, <2>3, <2>4
  <2>6. Decode(f, BCD(h)) = IBCD(BCD(h)) BY <1>4, <2>3 DEF Decode, Hour
  <2> QED BY <2>2, <2>3, <2>5, <2>6
<1>5. CASE f = "date"
  <2>1. t.date \in 1..31 BY DEF Clocks
  <2>2. BCD(t.date) % 64 = BCD(t.date) /\ IBCD(BCD(t.date)) = t.date
    <3> DEFINE a == t.date
    <3>1. a \in 0..99 /\ a < 40 BY <2>1
    <3> HIDE DEF a
    <3>2. BCD(a) % 64 = BCD(a) BY <3>1, BcdMasked
    <3>3. IBCD(BCD(a)) = a BY <3>1, BcdRoundTrip
    <3> QED BY <3>2, <3>3 DEF a
  <2>3. Encode(f, t) = BCD(t.date) BY <1>5, <2>1, <2>2 DEF Encode
  <2>4. Decode(f, BCD(t.date)) = IBCD(BCD(t.date)) BY <1>5, <2>2 DEF Decode
  <2> QED BY <1>5, <2>2, <2>3, <2>4
<1>6. CASE f = "month"
  <2>1. t.month \in 1..12 BY DEF Clocks
  <2>2. BCD(t.month) % 32 = BCD(t.month) /\ IBCD(BCD(t.month)) = t.month
    <3> DEFINE a == t.month
    <3>1. a \in 0..99 /\ a < 20 BY <2>1
    <3> HIDE DEF a
    <3>2. BCD(a) % 32 = BCD(a) BY <3>1, BcdMasked
    <3>3. IBCD(BCD(a)) = a BY <3>1, BcdRoundTrip
    <3> QED BY <3>2, <3>3 DEF a
  <2>3. Encode(f, t) = BCD(t.month) BY <1>6, <2>1, <2>2 DEF Encode
  <2>4. Decode(f, BCD(t.month)) = IBCD(BCD(t.month)) BY <1>6, <2>2 DEF Decode
  <2> QED BY <1>6, <2>2, <2>3, <2>4
<1>7. CASE f = "year"
  <2>1. t.year \in 2000..2099 BY DEF Clocks
  <2>2. /\ t.year % 100 = t.year - 2000
        /\ IBCD(BCD(t.year - 2000)) = t.year - 2000
    <3> DEFINE a == t.year - 2000
    <3>1. a \in 0..99 BY <2>1
    <3>2. t.year % 100 = a BY <2>1, CenturyYear
    <3> HIDE DEF a
    <3>3. IBCD(BCD(a)) = a BY <3>1, BcdRoundTrip
    <3> QED BY <3>2, <3>3 DEF a
  <2>3. Encode(f, t) = BCD(t.year - 2000) BY <1>7, <2>2 DEF Encode
  <2>4. Decode(f, BCD(t.year - 2000)) = IBCD(BCD(t.year - 2000)) + 2000
    BY <1>7 DEF Decode
  <2> QED BY <1>7, <2>1, <2>2, <2>3, <2>4
<1>8. CASE f = "week"
  <2>1. t.week \in 0..9 BY DEF Clocks
  <2>2. BCD(t.week) % 16 = BCD(t.week) /\ IBCD(BCD(t.week)) = t.week
    <3> DEFINE a == t.week
    <3>1. a \in 0..99 /\ a < 10 BY <2>1
    <3> HIDE DEF a
    <3>2. BCD(a) % 16 = BCD(a) BY <3>1, BcdMasked
    <3>3. IBCD(BCD(a)) = a BY <3>1, BcdRoundTrip
    <3> QED BY <3>2, <3>3 DEF a
  <2>3. Encode(f, t) = BCD(t.week) BY <1>8, <2>1, <2>2 DEF Encode
  <2>4. Decode(f, BCD(t.week)) = IBCD(BCD(t.week)) BY <1>8, <2>2 DEF Decode
  <2> QED BY <1>8, <2>2, <2>3, <2>4
<1> QED BY <1>3, <1>4, <1>5, <1>6, <1>7, <1>8 DEF Fields
-----------------------------------------------------------------------------
(* The inductive invariant: besides the types, a read past the second      *)
(* register has found or made the chip counting; a caller that is alone is *)
(* the only one in an ioctl; and the registers a caller that is alone has  *)
(* set keep their values until the seconds carry.                          *)
Started == \A c \in Callers : call[c].op = "read" /\ call[c].at > 1 => ~halted

AloneInside == \A c, d \in Callers : alone[c] /\ Busy(c) /\ Busy(d) => c = d

Setting == \A c \in Callers : call[c].op = "set" => time[c] \in Clocks

Landed(c) ==
  /\ call[c].at > 1 => clock.second >= time[c].second
  /\ call[c].at > 2 => clock.minute = time[c].minute
  /\ call[c].at > 3 => clock.hour = time[c].hour /\ ~mode12
  /\ call[c].at > 4 => clock.date = time[c].date
  /\ call[c].at > 5 => clock.month = time[c].month
  /\ call[c].at > 6 => clock.year = time[c].year

SetSoFar == \A c \in Callers :
  call[c].op = "set" /\ alone[c] /\ ~ticked[c].minute => Landed(c)

Carries == [second: BOOLEAN, minute: BOOLEAN, century: BOOLEAN]

HistoryOK ==
  /\ alone \in [Callers -> BOOLEAN]
  /\ ticked \in [Callers -> Carries]
  /\ \A c \in Callers : call[c].at \in 1..8 \/ ~Busy(c)

IInv == ClockTypeOK /\ HistoryOK /\ Started /\ AloneInside /\ Setting /\ SetSoFar

LEMMA NotTickedTyped ==
  /\ NotTicked \in Carries
  /\ ~NotTicked.second /\ ~NotTicked.minute /\ ~NotTicked.century
  BY DEF NotTicked, Carries

LEMMA OrderIs ==
  /\ \A i \in 1..7 : Order[i] \in Fields
  /\ Order[1] = "second" /\ Order[2] = "minute" /\ Order[3] = "hour"
  /\ Order[4] = "date" /\ Order[5] = "month" /\ Order[6] = "year"
  /\ Order[7] = "week"
  BY DEF Order, Fields

LEMMA ZeroIs ==
  Zero = [second |-> 0, minute |-> 0, hour |-> 0, date |-> 0, month |-> 0,
          year |-> 0, week |-> 0]
  BY OrderIs DEF Zero

LEMMA ZeroTyped == Zero \in RtcTimes
  BY ZeroIs DEF RtcTimes

LEMMA ClocksAreTimes == Clocks \subseteq RtcTimes
  BY DEF Clocks, RtcTimes

(* A register the chip shows is read as a value of its field. *)
LEMMA DigitsRead ==
  ASSUME clock \in Clocks, NEW f \in {"minute", "date", "month", "week"}
  PROVE  Decode(f, Shown(f)) = clock[f]
<1> DEFINE a == clock[f]
<1>1. a \in 0..99 /\ a < 80 /\ (f = "date" => a < 40)
      /\ (f = "month" => a < 20) /\ (f = "week" => a < 10)
  BY DEF Clocks
<1>2. Shown(f) = BCD(a) BY DEF Shown
<1> HIDE DEF a
<1>3. /\ IBCD(BCD(a)) = a
      /\ BCD(a) % 128 = BCD(a)
      /\ f = "date" => BCD(a) % 64 = BCD(a)
      /\ f = "month" => BCD(a) % 32 = BCD(a)
      /\ f = "week" => BCD(a) % 16 = BCD(a)
  BY <1>1, BcdRoundTrip, BcdMasked
<1>4. Decode(f, BCD(a)) = IBCD(BCD(a)) BY <1>3 DEF Decode
<1> QED BY <1>2, <1>3, <1>4 DEF a

LEMMA SecondRead ==
  ASSUME clock \in Clocks, halted \in BOOLEAN
  PROVE  Decode("second", Shown("second")) = clock.second
<1> DEFINE a == clock.second
<1>1. a \in 0..99 /\ a < 80 BY DEF Clocks
<1>2. Shown("second") = BCD(a) + (IF halted THEN 128 ELSE 0) BY DEF Shown
<1> HIDE DEF a
<1>3. IBCD(BCD(a)) = a /\ BCD(a) < 128 /\ BCD(a) \in 0..153
  BY <1>1, BcdRoundTrip, BcdMasked
<1>4. Shown("second") % 128 = BCD(a) BY <1>2, <1>3
<1>5. Decode("second", Shown("second")) = IBCD(Shown("second") % 128) BY DEF Decode
<1> QED BY <1>3, <1>4, <1>5 DEF a

(* What the driver makes of an hour: in 12 hour mode noon and midnight are *)
(* read 12 hours late.                                                     *)
Late(h) == IF mode12 /\ h % 12 = 0 THEN h + 12 ELSE h

LEMMA HourRead ==
  ASSUME clock \in Clocks, mode12 \in BOOLEAN
  PROVE  /\ Decode("hour", Shown("hour")) = Late(clock.hour)
         /\ Late(clock.hour) \in 0..24
<1>1. Decode("hour", Shown("hour")) = Hour(Shown("hour")) BY DEF Decode
<1>2. CASE mode12
  <2> DEFINE a == IF clock.hour % 12 = 0 THEN 12 ELSE clock.hour % 12
             pm == IF clock.hour >= 12 THEN 32 ELSE 0
  <2>1. a \in 0..99 /\ a < 20 /\ a <= 12 BY DEF Clocks
  <2>2. pm \in {0, 32} OBVIOUS
  <2>3. Shown("hour") = 128 + pm + BCD(a) BY <1>2 DEF Shown
  <2> HIDE DEF a, pm
  <2>4. IBCD(BCD(a)) = a /\ BCD(a) % 32 = BCD(a) /\ BCD(a) \in 0..153
    BY <2>1, BcdRoundTrip, BcdMasked
  <2>5. Shown("hour") % 32 = BCD(a) /\ Shown("hour") >= 128
    BY <2>2, <2>3, <2>4
  <2>6. (Shown("hour") \div 32) % 2 = 1 <=> pm = 32
    <3>1. BCD(a) < 32 BY <2>1, BcdMasked, <2>4
    <3>2. CASE pm = 0
      <4>1. Shown("hour") \in 128..159 BY <2>3, <2>4, <3>1, <3>2
      <4>2. Shown("hour") \div 32 = 4 BY <4>1
      <4> QED BY <3>2, <4>2
    <3>3. CASE pm = 32
      <4>1. Shown("hour") \in 160..191 BY <2>3, <2>4, <3>1, <3>3
      <4>2. Shown("hour") \div 32 = 5 BY <4>1
      <4> QED BY <3>3, <4>2
    <3> QED BY <2>2, <3>2, <3>3
  <2>7. IBCD(Shown("hour") % 32) = a BY <2>4, <2>5
  <2>8. Hour(Shown("hour")) = a + (IF pm = 32 THEN 12 ELSE 0)
    BY <2>5, <2>6, <2>7 DEF Hour
  <2>9. clock.hour \in 0..23 BY DEF Clocks
  <2>10. a + (IF pm = 32 THEN 12 ELSE 0) = Late(clock.hour)
         /\ Late(clock.hour) \in 0..24
    BY <1>2, <2>9 DEF Late, a, pm
  <2> QED BY <1>1, <2>8, <2>10
<1>3. CASE ~mode12
  <2> DEFINE a == clock.hour
  <2>1. a \in 0..99 /\ a < 40 /\ a < 80 /\ a \in 0..24 BY DEF Clocks
  <2>2. Shown("hour") = BCD(a) /\ Late(clock.hour) = a BY <1>3 DEF Shown, Late
  <2> HIDE DEF a
  <2>3. IBCD(BCD(a)) = a /\ BCD(a) % 64 = BCD(a) /\ BCD(a) < 128
        /\ BCD(a) \in 0..153
    BY <2>1, BcdRoundTrip, BcdMasked
  <2>4. Hour(BCD(a)) = IBCD(BCD(a)) BY <2>3 DEF Hour
  <2> QED BY <1>1, <2>1, <2>2, <2>3, <2>4
<1> QED BY <1>2, <1>3

LEMMA YearRead ==
  ASSUME clock \in Clocks
  PROVE  Decode("year", Shown("year")) = clock.year
<1> DEFINE a == clock.year % 100
<1>0. a \in 0..99 BY DEF Clocks
<1>1. clock.year = a + 2000 BY DEF Clocks
<1>2. Shown("year") = BCD(a) BY DEF Shown
<1>3. Decode("year", BCD(a)) = IBCD(BCD(a)) + 2000 BY DEF Decode
<1> HIDE DEF a
<1>4. IBCD(BCD(a)) = a BY <1>0, BcdRoundTrip
<1> QED BY <1>0, <1>1, <1>2, <1>3, <1>4

LEMMA ReadTyped ==
  ASSUME clock \in Clocks, mode12 \in BOOLEAN, halted \in BOOLEAN,
         NEW r \in RtcTimes, NEW f \in Fields
  PROVE  [r EXCEPT ![f] = Decode(f, Shown(f))] \in RtcTimes
<1> DEFINE v == Decode(f, Shown(f))
<1>1. f \in {"minute", "date", "month", "week"} => v = clock[f] BY DigitsRead
<1>2. f = "second" => v = clock.second BY SecondRead
<1>3. f = "hour" => v \in 0..24 BY HourRead
<1>4. f = "year" => v = clock.year BY YearRead
<1> HIDE DEF v
<1>5. /\ f = "minute" => v \in 0..59
      /\ f = "second" => v \in 0..59
      /\ f = "date" => v \in 0..31
      /\ f = "month" => v \in 0..12
      /\ f = "week" => v \in 0..9
      /\ f = "year" => v \in 2000..2099
  BY <1>1, <1>2, <1>4 DEF Clocks
<1>6. [r EXCEPT ![f] = v] \in RtcTimes
  <2>1. CASE f = "second" BY <1>3, <1>5, <2>1 DEF RtcTimes
  <2>2. CASE f = "minute" BY <1>3, <1>5, <2>2 DEF RtcTimes
  <2>3. CASE f = "hour" BY <1>3, <1>5, <2>3 DEF RtcTimes
  <2>4. CASE f = "date" BY <1>3, <1>5, <2>4 DEF RtcTimes
  <2>5. CASE f = "month" BY <1>3, <1>5, <2>5 DEF RtcTimes
  <2>6. CASE f = "year" BY <1>3, <1>5, <2>6 DEF RtcTimes
  <2>7. CASE f = "week" BY <1>3, <1>5, <2>7 DEF RtcTimes
  <2> QED BY <2>1, <2>2, <2>3, <2>4, <2>5, <2>6, <2>7 DEF Fields
<1> QED BY <1>6 DEF v

LEMMA SecondShown ==
  ASSUME clock \in Clocks, halted \in BOOLEAN
  PROVE  Shown("second") >= 128 <=> halted
<1>1. clock.second \in 0..99 /\ clock.second < 80 BY DEF Clocks
<1>2. BCD(clock.second) \in 0..153 /\ BCD(clock.second) < 128
  BY <1>1, BcdRoundTrip, BcdMasked
<1>3. Shown("second") = BCD(clock.second) + (IF halted THEN 128 ELSE 0)
  BY DEF Shown
<1> QED BY <1>2, <1>3
-----------------------------------------------------------------------------
LEMMA Initially ==
  ASSUME ClockInit
  PROVE  IInv
<1>1. ClockTypeOK
  BY ClockAssumption, ZeroTyped DEF ClockInit, ClockTypeOK, Idle
<1> QED
  BY <1>1, NotTickedTyped DEF ClockInit, IInv, HistoryOK, Started, AloneInside, Setting, SetSoFar,
              Busy, Idle, NotTicked

LEMMA StepBegin ==
  ASSUME IInv, NEW c \in Callers, Begin(c)
  PROVE  IInv'
<1> USE ClockAssumption DEF IInv
<1>1. time'[c] \in RtcTimes /\ time' = [time EXCEPT ![c] = time'[c]]
      /\ (call'[c].op = "set" => time'[c] \in Clocks)
  BY ZeroTyped, ClocksAreTimes DEF Begin, ClockTypeOK
<1>2. /\ call' = [call EXCEPT ![c] = call'[c]]
      /\ call'[c] \in [op: {"read", "set"}, at: {1}]
  BY DEF Begin, ClockTypeOK
<1>3. /\ UNCHANGED <<clock, mode12, halted, ticks>>
      /\ calls[c] < MaxCalls /\ calls' = [calls EXCEPT ![c] = @ + 1]
      /\ ~Busy(c)
      /\ \A d \in Callers : alone'[d] => d = c /\ \A e \in Callers : ~Busy(e)
      /\ alone' \in [Callers -> BOOLEAN]
      /\ ticked' = [ticked EXCEPT ![c] = NotTicked]
  BY DEF Begin, chip, Busy
<1>4. ClockTypeOK'
  <2>1. calls' \in [Callers -> 0..MaxCalls]
    BY <1>3 DEF ClockTypeOK
  <2> QED BY <1>1, <1>2, <1>3, <2>1 DEF ClockTypeOK
<1>5. HistoryOK' BY <1>2, <1>3, NotTickedTyped DEF HistoryOK, Busy, ClockTypeOK
<1>6. Started' BY <1>2, <1>3 DEF Started, ClockTypeOK
<1>7. AloneInside' BY <1>2, <1>3 DEF AloneInside, Busy, ClockTypeOK
<1>8. Setting' BY <1>1, <1>2 DEF Setting, ClockTypeOK
<1>9. SetSoFar' BY <1>2, <1>3 DEF SetSoFar, Landed, ClockTypeOK, Busy
<1> QED BY <1>4, <1>5, <1>6, <1>7, <1>8, <1>9

LEMMA StepReadField ==
  ASSUME IInv, NEW c \in Callers, ReadField(c)
  PROVE  IInv'
<1> USE DEF IInv
<1>1. Field(c) \in Fields /\ call[c].op = "read" /\ call[c].at \in 1..7
  BY OrderIs DEF ReadField, Field
<1>2. time' \in [Callers -> RtcTimes]
  BY <1>1, ReadTyped DEF ReadField, ClockTypeOK
<1>3. /\ \A d \in Callers : d # c => time'[d] = time[d] /\ call'[d] = call[d]
      /\ UNCHANGED <<clock, mode12, halted, alone, ticked, ticks, calls>>
  BY DEF ReadField, Onward, chip, history, ClockTypeOK
<1>4. /\ call' \in [Callers -> [op: {"none", "read", "start", "set"}, at: 0..8]]
      /\ call'[c].op \in {"read", "start"} /\ call'[c].at \in 1..8
  <2>1. call' = [call EXCEPT ![c].op = "start"]
        \/ call' = [call EXCEPT ![c] = [op |-> "read", at |-> call[c].at + 1]]
    BY <1>1 DEF ReadField, Onward
  <2>2. call \in [Callers -> [op: {"none", "read", "start", "set"}, at: 0..8]]
    BY DEF ClockTypeOK
  <2>3. CASE call' = [call EXCEPT ![c].op = "start"]
    BY <1>1, <2>2, <2>3
  <2>4. CASE call' = [call EXCEPT ![c] = [op |-> "read", at |-> call[c].at + 1]]
    <3>1. call[c].at + 1 \in 1..8 BY <1>1
    <3> QED BY <1>1, <2>2, <2>4, <3>1
  <2> QED BY <2>1, <2>3, <2>4
<1>5. call'[c].op = "read" => ~halted
  <2>1. CASE call[c].at = 1
    <3>1. Field(c) = "second" BY <2>1, OrderIs DEF Field
    <3>2. halted => call'[c].op = "start"
      BY <1>1, <3>1, SecondShown DEF ReadField, ClockTypeOK
    <3> QED BY <3>2
  <2>2. CASE call[c].at # 1
    BY <1>1, <2>2 DEF Started
  <2> QED BY <2>1, <2>2
<1>6. ClockTypeOK' BY <1>2, <1>3, <1>4 DEF ClockTypeOK
<1>7. HistoryOK' BY <1>3, <1>4 DEF HistoryOK, Busy
<1>8. Started' BY <1>3, <1>5 DEF Started
<1>9. AloneInside' BY <1>1, <1>3 DEF AloneInside, Busy
<1>10. Setting' BY <1>3, <1>4 DEF Setting
<1>11. SetSoFar' BY <1>3, <1>4 DEF SetSoFar, Landed
<1> QED BY <1>6, <1>7, <1>8, <1>9, <1>10, <1>11

LEMMA StepStartChip ==
  ASSUME IInv, NEW c \in Callers, StartChip(c)
  PROVE  IInv'
<1> USE DEF IInv
<1>1. /\ call[c].op = "start" /\ halted' = FALSE
      /\ call' = [call EXCEPT ![c] = [op |-> "read", at |-> 2]]
      /\ UNCHANGED <<mode12, time, alone, ticked, ticks, calls>>
  BY DEF StartChip, history
<1>2. call \in [Callers -> [op: {"none", "read", "start", "set"}, at: 0..8]]
  BY DEF ClockTypeOK
<1>3. clock' \in Clocks
  <2>1. time[c].second \in 0..59 BY DEF ClockTypeOK, RtcTimes
  <2>2. clock \in Clocks BY DEF ClockTypeOK
  <2> QED BY <2>1, <2>2 DEF StartChip, Clocks
<1>4. ClockTypeOK'
  <2>1. call' \in [Callers -> [op: {"none", "read", "start", "set"}, at: 0..8]]
    BY <1>1, <1>2
  <2> QED BY <1>1, <1>3, <2>1 DEF ClockTypeOK
<1>5. HistoryOK' BY <1>1, <1>2 DEF HistoryOK, Busy
<1>6. Started' BY <1>1, <1>2 DEF Started
<1>7. AloneInside' BY <1>1, <1>2 DEF AloneInside, Busy
<1>8. Setting' BY <1>1, <1>2 DEF Setting
<1>9. SetSoFar'
  <2> SUFFICES ASSUME NEW d \in Callers, call'[d].op = "set", alone'[d]
               PROVE  FALSE
    BY DEF SetSoFar
  <2>1. d # c /\ call[d].op = "set" /\ alone[d] BY <1>1, <1>2
  <2> QED BY <1>1, <2>1 DEF AloneInside, Busy
<1> QED BY <1>4, <1>5, <1>6, <1>7, <1>8, <1>9

LEMMA StepWriteField ==
  ASSUME IInv, NEW c \in Callers, WriteField(c)
  PROVE  IInv'
<1> USE DEF IInv
<1> DEFINE f == Field(c)
           i == call[c].at
<1>1. /\ call[c].op = "set" /\ i \in 1..7 /\ f \in Fields /\ f = Order[i]
      /\ call' = [call EXCEPT ![c] = [op |-> "set", at |-> i + 1]]
      /\ UNCHANGED <<time, alone, ticked, ticks, calls>>
  BY OrderIs DEF WriteField, Onward, Field, history
<1>2. call \in [Callers -> [op: {"none", "read", "start", "set"}, at: 0..8]]
  BY DEF ClockTypeOK
<1>3. time[c] \in Clocks BY <1>1 DEF Setting
<1>4. clock' = [clock EXCEPT ![f] = time[c][f]]
  BY <1>1, <1>3, SetThenRead DEF WriteField
<1>5. /\ mode12' = IF f = "hour" THEN FALSE ELSE mode12
      /\ halted' = IF f = "second" THEN FALSE ELSE halted
  BY DEF WriteField
<1> HIDE DEF f, i
<1>6. i + 1 \in 1..8 BY <1>1
<1>7. clock' \in Clocks
  <2>1. clock \in Clocks BY DEF ClockTypeOK
  <2> QED BY <1>1, <1>3, <1>4, <2>1 DEF Clocks, Fields
<1>8. ClockTypeOK'
  <2>1. call' \in [Callers -> [op: {"none", "read", "start", "set"}, at: 0..8]]
    BY <1>1, <1>2, <1>6
  <2>2. mode12' \in BOOLEAN /\ halted' \in BOOLEAN BY <1>5 DEF ClockTypeOK
  <2> QED BY <1>1, <1>7, <2>1, <2>2 DEF ClockTypeOK
<1>9. HistoryOK' BY <1>1, <1>2, <1>6 DEF HistoryOK, Busy
<1>10. Started' BY <1>1, <1>2, <1>5 DEF Started
<1>11. AloneInside' BY <1>1, <1>2 DEF AloneInside, Busy
<1>12. Setting' BY <1>1, <1>2 DEF Setting
<1>13. SetSoFar'
  <2> SUFFICES ASSUME NEW d \in Callers, call'[d].op = "set", alone'[d],
                      ~ticked'[d].minute
               PROVE  Landed(d)'
    BY DEF SetSoFar
  <2>1. d = c
    <3>1. call[d].op = "set" /\ alone[d] BY <1>1, <1>2
    <3> QED BY <1>1, <3>1 DEF AloneInside, Busy
  <2>2. Landed(c) BY <1>1, <2>1 DEF SetSoFar
  <2>3. call'[c].at = i + 1 /\ time'[c] = time[c] BY <1>1, <1>2
  <2>4. /\ i = 1 => f = "second"
        /\ i = 2 => f = "minute"
        /\ i = 3 => f = "hour"
        /\ i = 4 => f = "date"
        /\ i = 5 => f = "month"
        /\ i = 6 => f = "year"
        /\ i = 7 => f = "week"
    BY <1>1, OrderIs
  <2> QED BY <1>1, <1>3, <1>4, <1>5, <2>1, <2>2, <2>3, <2>4 DEF Landed, Clocks, ClockTypeOK, i
<1> QED BY <1>8, <1>9, <1>10, <1>11, <1>12, <1>13

LEMMA StepEnd ==
  ASSUME IInv, NEW c \in Callers, End(c)
  PROVE  IInv'
<1> USE DEF IInv
<1>1. /\ call' = [call EXCEPT ![c] = [op |-> "none", at |-> 0]]
      /\ time' = [time EXCEPT ![c] = Zero] /\ alone' = [alone EXCEPT ![c] = FALSE]
      /\ ticked' = [ticked EXCEPT ![c] = NotTicked]
      /\ UNCHANGED <<clock, mode12, halted, ticks, calls>>
  BY DEF End, Idle, chip
<1>2. call \in [Callers -> [op: {"none", "read", "start", "set"}, at: 0..8]]
  BY DEF ClockTypeOK
<1>3. ClockTypeOK' BY <1>1, <1>2, ZeroTyped DEF ClockTypeOK
<1>4. HistoryOK' BY <1>1, <1>2, NotTickedTyped DEF HistoryOK, Busy
<1>5. Started' BY <1>1, <1>2 DEF Started
<1>6. AloneInside' BY <1>1, <1>2 DEF HistoryOK, AloneInside, Busy
<1>7. Setting' BY <1>1, <1>2 DEF Setting, ClockTypeOK
<1>8. SetSoFar' BY <1>1, <1>2 DEF SetSoFar, Landed, ClockTypeOK, HistoryOK
<1> QED BY <1>3, <1>4, <1>5, <1>6, <1>7, <1>8

LEMMA NextSecondTyped ==
  ASSUME NEW k \in Clocks
  PROVE  /\ NextSecond(k) \in Clocks
         /\ k.second # 59 => NextSecond(k) = [k EXCEPT !.second = @ + 1]
<1>1. DaysIn(k.month, k.year) \in 0..31 BY DEF DaysIn
<1>2. NextSecond(k).year \in 2000..2099 BY DEF NextSecond, Clocks
<1>3. NextSecond(k) \in Clocks BY <1>1, <1>2 DEF NextSecond, Clocks
<1>4. k.second # 59 => NextSecond(k) = [k EXCEPT !.second = @ + 1]
  BY DEF NextSecond, Clocks
<1> QED BY <1>3, <1>4

LEMMA StepTick ==
  ASSUME IInv, Tick
  PROVE  IInv'
<1> USE DEF IInv
<1>1. /\ UNCHANGED <<mode12, halted, call, time, alone, calls>>
      /\ ~halted /\ ticks < MaxTicks /\ ticks' = ticks + 1
      /\ clock' = NextSecond(clock)
  BY DEF Tick
<1>2. \A c \in Callers :
        ticked'[c] = [second |-> Busy(c),
                      minute |-> ticked[c].minute
                                   \/ (clock.second = 59 /\ call[c].at > 1),
                      century |-> ticked[c].century
                                   \/ (NextSecond(clock).year < clock.year /\ Busy(c))]
  BY DEF Tick
<1>3. clock \in Clocks BY DEF ClockTypeOK
<1>4. ClockTypeOK'
  <2>1. ticks' \in 0..MaxTicks BY <1>1, ClockAssumption DEF ClockTypeOK
  <2> QED BY <1>1, <1>3, <2>1, NextSecondTyped DEF ClockTypeOK
<1>5. HistoryOK'
  <2> SUFFICES ticked' \in [Callers -> Carries]
    BY <1>1 DEF HistoryOK, Busy
  <2>1. ASSUME NEW c \in Callers PROVE ticked'[c] \in Carries
    <3> DEFINE b == Busy(c)
               m == ticked[c].minute \/ (clock.second = 59 /\ call[c].at > 1)
               n == ticked[c].century \/ (NextSecond(clock).year < clock.year /\ b)
    <3>1. ticked[c].minute \in BOOLEAN /\ ticked[c].century \in BOOLEAN
      BY DEF HistoryOK, Carries
    <3>2. b \in BOOLEAN /\ m \in BOOLEAN /\ n \in BOOLEAN
      BY <3>1 DEF Busy
    <3>3. ticked'[c] = [second |-> b, minute |-> m, century |-> n]
      BY <1>2, Zenon
    <3> HIDE DEF b, m, n
    <3> QED BY <3>2, <3>3 DEF Carries
  <2> QED BY <2>1 DEF Tick
<1>6. Started' /\ AloneInside' /\ Setting'
  BY <1>1 DEF Started, AloneInside, Setting, Busy
<1>7. SetSoFar'
  <2> SUFFICES ASSUME NEW c \in Callers, call'[c].op = "set", alone'[c],
                      ~ticked'[c].minute
               PROVE  Landed(c)'
    BY DEF SetSoFar
  <2>1. ~ticked[c].minute /\ ~(clock.second = 59 /\ call[c].at > 1)
    <3> DEFINE m == ticked[c].minute \/ (clock.second = 59 /\ call[c].at > 1)
    <3>1. \E b, n : ticked'[c] = [second |-> b, minute |-> m, century |-> n]
      BY <1>2, Zenon
    <3> HIDE DEF m
    <3>2. ticked'[c].minute = m BY <3>1
    <3>3. ~m BY <3>2
    <3> QED BY <3>3, Zenon DEF m
  <2>2. Landed(c) BY <1>1, <2>1 DEF SetSoFar
  <2>3. CASE call[c].at > 1
    <3>1. clock' = [clock EXCEPT !.second = @ + 1]
      BY <1>1, <1>3, <2>1, <2>3, NextSecondTyped
    <3>2. time[c].second \in Nat BY DEF ClockTypeOK, RtcTimes
    <3> QED BY <1>1, <1>3, <2>2, <3>1, <3>2 DEF Landed, Clocks
  <2>4. CASE ~(call[c].at > 1)
    BY <1>1, <2>4 DEF Landed, ClockTypeOK
  <2> QED BY <2>3, <2>4
<1> QED BY <1>4, <1>5, <1>6, <1>7

LEMMA Inductive == ClockSpec => []IInv
<1>1. IInv /\ [ClockNext]_clockVars => IInv'
  <2> SUFFICES ASSUME IInv, [ClockNext]_clockVars PROVE IInv'
    OBVIOUS
  <2>1. ASSUME NEW c \in Callers, Begin(c) PROVE IInv' BY <2>1, StepBegin
  <2>2. ASSUME NEW c \in Callers, ReadField(c) PROVE IInv' BY <2>2, StepReadField
  <2>3. ASSUME NEW c \in Callers, StartChip(c) PROVE IInv' BY <2>3, StepStartChip
  <2>4. ASSUME NEW c \in Callers, WriteField(c) PROVE IInv' BY <2>4, StepWriteField
  <2>5. ASSUME NEW c \in Callers, End(c) PROVE IInv' BY <2>5, StepEnd
  <2>6. CASE Tick BY <2>6, StepTick
  <2>7. CASE UNCHANGED clockVars
    BY <2>7 DEF clockVars, chip, history, IInv, ClockTypeOK, HistoryOK, Started,
                AloneInside, Setting, SetSoFar, Landed, Busy
  <2> QED BY <2>1, <2>2, <2>3, <2>4, <2>5, <2>6, <2>7 DEF ClockNext
<1> QED BY <1>1, Initially, PTL DEF ClockSpec

(* The chip and every rtc_time hold values of their fields, whatever the   *)
(* interleaving of the ioctls and of the ticks.                            *)
THEOREM TypeCorrect == ClockSpec => []ClockTypeOK
  BY Inductive, PTL DEF IInv

(* HI_RTC_RD_TIME leaves the chip counting, however the ioctls of other    *)
(* callers come between its register accesses.                             *)
THEOREM ReadStarts == ClockSpec => []ReadStartsChip
<1>1. IInv => ReadStartsChip BY DEF IInv, Started, ReadStartsChip, Done
<1> QED BY <1>1, Inductive, PTL

(* An undisturbed HI_RTC_SET_TIME during which the seconds do not carry    *)
(* leaves the chip at the time set, in 24 hour mode.                       *)
THEOREM SettingLands == ClockSpec => []SetLands
<1>1. IInv => SetLands
  <2> SUFFICES ASSUME IInv, NEW c \in Callers, Done(c, "set"), alone[c],
                      ~ticked[c].minute
               PROVE  /\ ~mode12
                      /\ Count([clock EXCEPT !.second = time[c].second])
                           = Count(time[c])
                      /\ clock.second >= time[c].second
    BY DEF SetLands
  <2>1. call[c].op = "set" /\ call[c].at = 8 BY DEF Done
  <2>2. Landed(c) BY <2>1 DEF IInv, SetSoFar
  <2>3. clock \in Clocks BY DEF IInv, ClockTypeOK
  <2> QED BY <2>1, <2>2, <2>3 DEF Landed, Count, Clocks
<1> QED BY <1>1, Inductive, PTL
-----------------------------------------------------------------------------
(* How far an undisturbed HI_RTC_RD_TIME is.  A caller that found the chip *)
(* halted is about to write back the seconds it read.  While the chip does *)
(* not tick, what was read is the time of the start.  While it does, what  *)
(* was read and what is still to be read make up a time that is not behind *)
(* the start: a carry into a register not yet read moves it forward, one   *)
(* into a register already read does not touch it.                         *)
Reading(c) == call[c].op \in {"read", "start"} /\ alone[c]

Got(c) == IF call[c].op = "start" THEN 1 ELSE call[c].at - 1

Mix(n, t, k) ==
  [second |-> IF n > 0 THEN t.second ELSE k.second,
   minute |-> IF n > 1 THEN t.minute ELSE k.minute,
   hour   |-> IF n > 2 THEN t.hour ELSE k.hour,
   date   |-> IF n > 3 THEN t.date ELSE k.date,
   month  |-> IF n > 4 THEN t.month ELSE k.month,
   year   |-> IF n > 5 THEN t.year ELSE k.year]

(* NotBefore, written out. *)
Later(t, u) ==
  \/ t.year > u.year
  \/ t.year = u.year /\ t.month > u.month
  \/ t.year = u.year /\ t.month = u.month /\ t.date > u.date
  \/ t.year = u.year /\ t.month = u.month /\ t.date = u.date /\ t.hour > u.hour
  \/ /\ t.year = u.year /\ t.month = u.month /\ t.date = u.date /\ t.hour = u.hour
     /\ t.minute > u.minute \/ (t.minute = u.minute /\ t.second >= u.second)

Starting == \A c \in Callers :
  call[c].op = "start" =>
    /\ call[c].at = 1
    /\ alone[c] => halted /\ clock.second = time[c].second

Since ==
  /\ since = [c \in Callers |-> since[c]]
  /\ \A c \in Callers : Busy(c) => since[c] \in Clocks

Read(c) ==
  /\ clock = since[c]
  /\ Got(c) > 0 => time[c].second = clock.second
  /\ Got(c) > 1 => time[c].minute = clock.minute
  /\ Got(c) > 2 => time[c].hour = Late(clock.hour)
  /\ Got(c) > 3 => time[c].date = clock.date
  /\ Got(c) > 4 => time[c].month = clock.month
  /\ Got(c) > 5 => time[c].year = clock.year

ReadSoFar == \A c \in Callers :
  Reading(c) /\ ~ticked[c].second => Read(c)

Ahead == \A c \in Callers :
  Reading(c) /\ ~ticked[c].century =>
    Later(Mix(Got(c), time[c], clock), since[c])

RInv == Starting /\ Since /\ ReadSoFar /\ Ahead

(* A tick that does not end the century moves the mixed time forward or    *)
(* leaves it.                                                              *)
LEMMA TickAhead ==
  ASSUME NEW k \in Clocks, NEW u \in Clocks, NEW t \in RtcTimes, NEW n \in 0..7,
         NextSecond(k).year >= k.year,
         Later(Mix(n, t, k), u)
  PROVE  Later(Mix(n, t, NextSecond(k)), u)
<1>1. DaysIn(k.month, k.year) \in 28..31
  BY DEF DaysIn
<1> DEFINE d == DaysIn(k.month, k.year)
<1> HIDE DEF d
<1> DEFINE s == k.second = 59
           m == s /\ k.minute = 59
           h == m /\ k.hour = 23
           e == h /\ k.date >= d
           y == e /\ k.month = 12
           z == NextSecond(k)
<1>2. /\ z.second = IF s THEN 0 ELSE k.second + 1
      /\ z.minute = IF m THEN 0 ELSE IF s THEN k.minute + 1 ELSE k.minute
      /\ z.hour = IF h THEN 0 ELSE IF m THEN k.hour + 1 ELSE k.hour
      /\ z.date = IF e THEN 1 ELSE IF h THEN k.date + 1 ELSE k.date
      /\ z.month = IF y THEN 1 ELSE IF e THEN k.month + 1 ELSE k.month
      /\ z.year = IF y THEN 2000 + ((k.year + 1) % 100) ELSE k.year
  BY DEF NextSecond, d
<1>3. z.year = IF y THEN k.year + 1 ELSE k.year
  BY <1>2 DEF Clocks
<1> HIDE DEF z
<1>4. z.year \in Int /\ z.month \in Int /\ z.date \in Int
  BY <1>1, <1>2, <1>3 DEF Clocks
<1>5. /\ z.hour \in Int /\ z.minute \in Int /\ z.second \in Int
      /\ (m => s) /\ (h => m) /\ (e => h) /\ (y => e)
      /\ z.second = IF s THEN 0 ELSE k.second + 1
      /\ z.minute = IF m THEN 0 ELSE IF s THEN k.minute + 1 ELSE k.minute
      /\ z.hour = IF h THEN 0 ELSE IF m THEN k.hour + 1 ELSE k.hour
  BY <1>2 DEF Clocks
<1> HIDE DEF s, m, h, e, y
<1> DEFINE v == Mix(n, t, k)
           w == Mix(n, t, z)
<1>6. /\ v.second = IF n > 0 THEN t.second ELSE k.second
      /\ v.minute = IF n > 1 THEN t.minute ELSE k.minute
      /\ v.hour = IF n > 2 THEN t.hour ELSE k.hour
      /\ v.date = IF n > 3 THEN t.date ELSE k.date
      /\ v.month = IF n > 4 THEN t.month ELSE k.month
      /\ v.year = IF n > 5 THEN t.year ELSE k.year
      /\ w.second = IF n > 0 THEN t.second ELSE z.second
      /\ w.minute = IF n > 1 THEN t.minute ELSE z.minute
      /\ w.hour = IF n > 2 THEN t.hour ELSE z.hour
      /\ w.date = IF n > 3 THEN t.date ELSE z.date
      /\ w.month = IF n > 4 THEN t.month ELSE z.month
      /\ w.year = IF n > 5 THEN t.year ELSE z.year
  BY DEF Mix
<1>7. /\ k.second \in Int /\ k.minute \in Int /\ k.hour \in Int
      /\ k.date \in Int /\ k.month \in Int /\ k.year \in Int
      /\ t.second \in Int /\ t.minute \in Int /\ t.hour \in Int
      /\ t.date \in Int /\ t.month \in Int /\ t.year \in Int
      /\ u.second \in Int /\ u.minute \in Int /\ u.hour \in Int
      /\ u.date \in Int /\ u.month \in Int /\ u.year \in Int
  BY DEF Clocks, RtcTimes
<1>8. Later(v, u)
  OBVIOUS
<1> SUFFICES Later(w, u)
  BY DEF z
<1> HIDE DEF v, w
<1>9. CASE ~s
  BY <1>2, <1>3, <1>5, <1>6, <1>7, <1>8, <1>9 DEF Later
<1>10. CASE s /\ ~m
  BY <1>2, <1>3, <1>5, <1>6, <1>7, <1>8, <1>10 DEF Later
<1>11. CASE m /\ ~h
  BY <1>2, <1>3, <1>5, <1>6, <1>7, <1>8, <1>11 DEF Later
<1>12. CASE h /\ ~e
  BY <1>2, <1>3, <1>5, <1>6, <1>7, <1>8, <1>12 DEF Later
<1>13. CASE e /\ ~y
  BY <1>2, <1>3, <1>5, <1>6, <1>7, <1>8, <1>13 DEF Later
<1>14. CASE y
  BY <1>2, <1>3, <1>5, <1>6, <1>7, <1>8, <1>14 DEF Later
<1>15. QED
  BY <1>9, <1>10, <1>11, <1>12, <1>13, <1>14

(* What a register shows is read as the field, the hour as Late says. *)
LEMMA FieldRead ==
  ASSUME clock \in Clocks, mode12 \in BOOLEAN, halted \in BOOLEAN,
         NEW f \in Fields
  PROVE  Decode(f, Shown(f)) = IF f = "hour" THEN Late(clock.hour) ELSE clock[f]
<1>1. CASE f = "hour"
  BY <1>1, HourRead
<1>2. CASE f # "hour"
  BY <1>2, DigitsRead, SecondRead, YearRead DEF Fields
<1>3. QED
  BY <1>1, <1>2

Taken(t, i, x) == [t EXCEPT ![Order[i]] = x]

LEMMA FieldTaken ==
  ASSUME NEW t \in RtcTimes, NEW i \in 1..7, NEW x, NEW z, z = Taken(t, i, x)
  PROVE  /\ z.second = IF i = 1 THEN x ELSE t.second
         /\ z.minute = IF i = 2 THEN x ELSE t.minute
         /\ z.hour = IF i = 3 THEN x ELSE t.hour
         /\ z.date = IF i = 4 THEN x ELSE t.date
         /\ z.month = IF i = 5 THEN x ELSE t.month
         /\ z.year = IF i = 6 THEN x ELSE t.year
<1> DEFINE o == Order[i]
<1>1. /\ o = "second" <=> i = 1
      /\ o = "minute" <=> i = 2
      /\ o = "hour" <=> i = 3
      /\ o = "date" <=> i = 4
      /\ o = "month" <=> i = 5
      /\ o = "year" <=> i = 6
  BY OrderIs
<1> HIDE DEF o
<1>2. z = [t EXCEPT ![o] = x]
  BY DEF o, Taken
<1>3. QED
  BY <1>1, <1>2 DEF RtcTimes

LEMMA ShownTaken ==
  ASSUME clock \in Clocks, mode12 \in BOOLEAN, halted \in BOOLEAN, NEW i \in 1..7,
         NEW x, x = Decode(Order[i], Shown(Order[i]))
  PROVE  /\ i = 1 => x = clock.second
         /\ i = 2 => x = clock.minute
         /\ i = 3 => x = Late(clock.hour)
         /\ i = 4 => x = clock.date
         /\ i = 5 => x = clock.month
         /\ i = 6 => x = clock.year
<1> DEFINE f == Order[i]
<1>1. f \in Fields /\ (f = "hour" <=> i = 3)
  BY OrderIs
<1>2. x = IF f = "hour" THEN Late(clock.hour) ELSE clock[f]
  BY <1>1, FieldRead
<1>3. QED
  BY <1>1, <1>2, OrderIs

LEMMA ReadBegin ==
  ASSUME IInv, RInv, NEW c \in Callers, Begin(c)
  PROVE  RInv'
<1> USE DEF RInv
<1>1. /\ call' = [call EXCEPT ![c] = call'[c]]
      /\ call'[c] \in [op: {"read", "set"}, at: {1}]
      /\ UNCHANGED <<clock, mode12, halted>>
      /\ since' = [since EXCEPT ![c] = clock]
      /\ \A d \in Callers : alone'[d] => d = c
  BY DEF Begin, IInv, ClockTypeOK, chip
<1>2. call \in [Callers -> [op: {"none", "read", "start", "set"}, at: 0..8]]
      /\ clock \in Clocks
  BY DEF IInv, ClockTypeOK
<1>3. Starting'
  <2> SUFFICES ASSUME NEW d \in Callers, call'[d].op = "start"
               PROVE  call'[d].at = 1 /\ ~alone'[d]
    BY DEF Starting
  <2>1. d # c /\ call'[d] = call[d]
    BY <1>1, <1>2
  <2>2. QED
    BY <1>1, <2>1 DEF Starting
<1>4. Since'
  <2> SUFFICES ASSUME NEW d \in Callers, Busy(d)' PROVE since'[d] \in Clocks
    BY <1>1 DEF Since
  <2>1. CASE d = c
    BY <1>1, <1>2, <2>1 DEF Since
  <2>2. CASE d # c
    BY <1>1, <1>2, <2>2 DEF Since, Busy
  <2>3. QED
    BY <2>1, <2>2
<1>5. ASSUME NEW d \in Callers, Reading(d)'
      PROVE  clock' = since'[d] /\ Got(d)' = 0
  <2>1. d = c
    BY <1>1, <1>5 DEF Reading
  <2>2. QED
    BY <1>1, <1>2, <2>1 DEF Since, Got
<1>6. ReadSoFar'
  BY <1>5 DEF ReadSoFar, Read
<1>7. Ahead'
  <2> SUFFICES ASSUME NEW d \in Callers, Reading(d)'
               PROVE  Later(Mix(0, time'[d], clock'), clock')
    BY <1>5 DEF Ahead
  <2>1. clock' \in Clocks
    BY <1>1, <1>2
  <2>2. QED
    BY <2>1 DEF Later, Mix, Clocks
<1>8. QED
  BY <1>3, <1>4, <1>6, <1>7

(* Next to a caller that is alone nobody steps but it and the chip. *)
LEMMA OnlyAlone ==
  ASSUME IInv, NEW c \in Callers, NEW d \in Callers, Reading(d), Busy(c)
  PROVE  c = d
BY DEF IInv, AloneInside, Reading, Busy

LEMMA ReadReadField ==
  ASSUME IInv, RInv, NEW c \in Callers, ReadField(c)
  PROVE  RInv'
<1> USE DEF RInv
<1> DEFINE i == call[c].at
           x == Decode(Order[i], Shown(Order[i]))
<1>1. /\ call[c].op = "read" /\ i \in 1..7
      /\ time' = [time EXCEPT ![c] = [@ EXCEPT ![Order[i]] = x]]
      /\ UNCHANGED <<clock, mode12, halted, since, alone, ticked>>
  BY DEF ReadField, Field, chip, history
<1>2. /\ call \in [Callers -> [op: {"none", "read", "start", "set"}, at: 0..8]]
      /\ clock \in Clocks /\ time \in [Callers -> RtcTimes]
      /\ mode12 \in BOOLEAN /\ halted \in BOOLEAN
  BY DEF IInv, ClockTypeOK
<1>3. /\ time'[c] = [time[c] EXCEPT ![Order[i]] = x]
      /\ \A d \in Callers : d # c => time'[d] = time[d] /\ call'[d] = call[d]
  BY <1>1, <1>2 DEF ReadField, Onward
<1>4. \/ call'[c] = [op |-> "start", at |-> 1] /\ i = 1 /\ halted
      \/ call'[c] = [op |-> "read", at |-> i + 1]
  <2>1. Field(c) = "second" => i = 1
    BY <1>1, OrderIs DEF Field
  <2>2. Shown("second") >= 128 => halted
    BY <1>2, SecondShown
  <2>3. CASE Field(c) = "second" /\ Shown("second") >= 128
    <3>1. call' = [call EXCEPT ![c].op = "start"]
      BY <2>3 DEF ReadField
    <3>2. call'[c] = [op |-> "start", at |-> 1]
      BY <1>1, <1>2, <2>1, <2>3, <3>1
    <3>3. QED
      BY <2>1, <2>2, <2>3, <3>2
  <2>4. CASE ~(Field(c) = "second" /\ Shown("second") >= 128)
    <3>1. call' = [call EXCEPT ![c] = [op |-> @.op, at |-> @.at + 1]]
      BY <2>4 DEF ReadField, Onward
    <3>2. QED
      BY <1>1, <1>2, <3>1
  <2>5. QED
    BY <2>3, <2>4
<1>5. Got(c) = i - 1 /\ Got(c)' = i
  BY <1>1, <1>4 DEF Got
<1>6. /\ i = 1 => x = clock.second
      /\ i = 2 => x = clock.minute
      /\ i = 3 => x = Late(clock.hour) /\ x >= clock.hour
      /\ i = 4 => x = clock.date
      /\ i = 5 => x = clock.month
      /\ i = 6 => x = clock.year
  <2>1. i = 3 => x = Late(clock.hour)
    BY <1>1, <1>2, ShownTaken
  <2>2. Late(clock.hour) >= clock.hour
    BY <1>2 DEF Late, Clocks
  <2>3. QED
    BY <1>1, <1>2, <2>1, <2>2, ShownTaken
<1>7. /\ time'[c].second = IF i = 1 THEN x ELSE time[c].second
      /\ time'[c].minute = IF i = 2 THEN x ELSE time[c].minute
      /\ time'[c].hour = IF i = 3 THEN x ELSE time[c].hour
      /\ time'[c].date = IF i = 4 THEN x ELSE time[c].date
      /\ time'[c].month = IF i = 5 THEN x ELSE time[c].month
      /\ time'[c].year = IF i = 6 THEN x ELSE time[c].year
  <2> HIDE DEF i, x
  <2>1. time[c] \in RtcTimes /\ i \in 1..7
    BY <1>1, <1>2
  <2> DEFINE t == time[c]
             z == time'[c]
  <2>2. z = Taken(t, i, x)
    BY <1>3 DEF Taken
  <2> HIDE DEF z, t
  <2>3. QED
    <3>1. t \in RtcTimes
      BY <2>1 DEF t
    <3>2. /\ z.second = IF i = 1 THEN x ELSE t.second
          /\ z.minute = IF i = 2 THEN x ELSE t.minute
          /\ z.hour = IF i = 3 THEN x ELSE t.hour
          /\ z.date = IF i = 4 THEN x ELSE t.date
          /\ z.month = IF i = 5 THEN x ELSE t.month
          /\ z.year = IF i = 6 THEN x ELSE t.year
      BY <2>1, <2>2, <3>1, FieldTaken
    <3>3. QED
      BY <3>2 DEF t, z
<1> HIDE DEF i, x
<1>8. Starting'
  BY <1>1, <1>3, <1>4, <1>6, <1>7 DEF Starting
<1>9. Since'
  BY <1>1, <1>3 DEF Since, Busy
<1>10. ReadSoFar'
  <2> SUFFICES ASSUME NEW d \in Callers, Reading(d)', ~ticked[d].second
               PROVE  Read(d)'
    BY <1>1 DEF ReadSoFar
  <2>1. CASE d = c
    <3>1. Read(c)
      BY <1>1, <2>1 DEF ReadSoFar, Reading
    <3>2. Late(clock.hour)' = Late(clock.hour)
      BY <1>1 DEF Late
    <3>3. QED
      BY <1>1, <1>5, <1>6, <1>7, <2>1, <3>1, <3>2 DEF Read
  <2>2. CASE d # c
    <3>1. Reading(d) /\ Busy(c)
      BY <1>1, <1>3, <2>2 DEF Reading, Busy
    <3>2. QED
      BY <2>2, <3>1, OnlyAlone
  <2>3. QED
    BY <2>1, <2>2
<1>11. Ahead'
  <2> SUFFICES ASSUME NEW d \in Callers, Reading(d)', ~ticked[d].century
               PROVE  Later(Mix(Got(d), time[d], clock), since[d])'
    BY <1>1 DEF Ahead
  <2>1. CASE d = c
    <3> DEFINE v == Mix(i - 1, time[c], clock)
               w == Mix(i, time'[c], clock)
               u == since[c]
    <3>1. Later(v, u)
      BY <1>1, <1>5, <2>1 DEF Ahead, Reading
    <3>2. /\ w.second = v.second /\ w.minute = v.minute /\ w.hour >= v.hour
          /\ w.date = v.date /\ w.month = v.month /\ w.year = v.year
          /\ w.hour \in Int /\ v.hour \in Int
      BY <1>1, <1>2, <1>6, <1>7 DEF Mix, Late, Clocks, RtcTimes
    <3>3. u.hour \in Int
      BY <1>1 DEF Since, Busy, Clocks
    <3> HIDE DEF v, w, u
    <3>4. Later(w, u)
      BY <3>1, <3>2, <3>3 DEF Later
    <3>5. QED
      BY <1>1, <1>5, <2>1, <3>4 DEF w, u
  <2>2. CASE d # c
    <3>1. Reading(d) /\ Busy(c)
      BY <1>1, <1>3, <2>2 DEF Reading, Busy
    <3>2. QED
      BY <2>2, <3>1, OnlyAlone
  <2>3. QED
    BY <2>1, <2>2
<1>12. QED
  BY <1>8, <1>9, <1>10, <1>11

LEMMA ReadStartChip ==
  ASSUME IInv, RInv, NEW c \in Callers, StartChip(c)
  PROVE  RInv'
<1> USE DEF RInv
<1>1. /\ call[c].op = "start" /\ Busy(c)
      /\ call' = [call EXCEPT ![c] = [op |-> "read", at |-> 2]]
      /\ clock' = [clock EXCEPT !.second = time[c].second]
      /\ UNCHANGED <<mode12, time, since, alone, ticked>>
  BY DEF StartChip, history, Busy
<1>2. /\ call'[c] = [op |-> "read", at |-> 2]
      /\ \A d \in Callers : d # c => call'[d] = call[d]
      /\ clock \in Clocks
  BY <1>1 DEF IInv, ClockTypeOK
<1>3. ASSUME NEW d \in Callers, Reading(d)'
      PROVE  d = c /\ Reading(c) /\ clock' = clock /\ Got(c)' = 1 /\ Got(c) = 1
  <2>1. d = c
    <3>1. d # c => Reading(d)
      BY <1>1, <1>2, <1>3 DEF Reading
    <3>2. QED
      BY <1>1, <3>1, OnlyAlone
  <2>2. Reading(c) /\ alone[c]
    BY <1>1, <1>3, <2>1 DEF Reading
  <2>3. clock.second = time[c].second
    BY <1>1, <2>2 DEF Starting
  <2>4. clock' = clock
    BY <1>1, <1>2, <2>3 DEF Clocks
  <2>5. QED
    BY <1>1, <1>2, <2>1, <2>2, <2>4 DEF Got
<1>4. Starting'
  <2> SUFFICES ASSUME NEW d \in Callers, call'[d].op = "start"
               PROVE  call'[d].at = 1 /\ ~alone'[d]
    BY DEF Starting
  <2>1. d # c /\ call[d].op = "start" /\ call'[d].at = call[d].at
    BY <1>2
  <2>2. ~alone[d]
    BY <1>1, <2>1, OnlyAlone DEF Reading
  <2>3. QED
    BY <1>1, <2>1, <2>2 DEF Starting
<1>5. Since'
  BY <1>1, <1>2 DEF Since, Busy
<1>6. ReadSoFar'
  <2> SUFFICES ASSUME NEW d \in Callers, Reading(d)', ~ticked[d].second
               PROVE  Read(d)'
    BY <1>1 DEF ReadSoFar
  <2>1. d = c /\ Read(c) /\ clock' = clock /\ Got(c)' = Got(c)
    BY <1>3 DEF ReadSoFar
  <2>2. Late(clock.hour)' = Late(clock.hour)
    BY <1>1, <2>1 DEF Late
  <2>3. QED
    BY <1>1, <2>1, <2>2 DEF Read
<1>7. Ahead'
  BY <1>1, <1>3 DEF Ahead
<1>8. QED
  BY <1>4, <1>5, <1>6, <1>7

LEMMA ReadWriteField ==
  ASSUME IInv, RInv, NEW c \in Callers, WriteField(c)
  PROVE  RInv'
<1> USE DEF RInv
<1>1. /\ call[c].op = "set" /\ Busy(c)
      /\ call' = [call EXCEPT ![c] = [op |-> @.op, at |-> @.at + 1]]
      /\ UNCHANGED <<time, since, alone, ticked>>
  BY DEF WriteField, Onward, history, Busy
<1>2. /\ call'[c].op = "set"
      /\ \A d \in Callers : d # c => call'[d] = call[d]
  BY <1>1 DEF IInv, ClockTypeOK
<1>3. ASSUME NEW d \in Callers, Reading(d)'
      PROVE  FALSE
  <2>1. d # c
    BY <1>2, <1>3 DEF Reading
  <2>2. Reading(d)
    BY <1>1, <1>2, <1>3, <2>1 DEF Reading
  <2>3. QED
    BY <1>1, <2>1, <2>2, OnlyAlone
<1>4. Starting'
  <2> SUFFICES ASSUME NEW d \in Callers, call'[d].op = "start"
               PROVE  call'[d].at = 1 /\ ~alone'[d]
    BY DEF Starting
  <2>1. d # c /\ call[d].op = "start" /\ call'[d].at = call[d].at
    BY <1>2
  <2>2. QED
    BY <1>3, <2>1 DEF Starting, Reading
<1>5. Since'
  BY <1>1, <1>2 DEF Since, Busy
<1>6. ReadSoFar' /\ Ahead'
  BY <1>3 DEF ReadSoFar, Ahead
<1>7. QED
  BY <1>4, <1>5, <1>6

LEMMA ReadEnd ==
  ASSUME IInv, RInv, NEW c \in Callers, End(c)
  PROVE  RInv'
<1> USE DEF RInv
<1>1. /\ call'[c].op = "none"
      /\ \A d \in Callers : d # c =>
            /\ call'[d] = call[d] /\ time'[d] = time[d] /\ since'[d] = since[d]
            /\ alone'[d] = alone[d] /\ ticked'[d] = ticked[d]
      /\ since' = [d \in Callers |-> since'[d]]
      /\ UNCHANGED <<clock, mode12, halted>>
  BY DEF End, Idle, chip, IInv, ClockTypeOK, HistoryOK, Since
<1>2. ASSUME NEW d \in Callers, Reading(d)' PROVE d # c /\ Reading(d)
  BY <1>1, <1>2 DEF Reading
<1>3. Starting'
  BY <1>1 DEF Starting
<1>4. Since'
  BY <1>1 DEF Since, Busy
<1>5. ReadSoFar'
  <2> SUFFICES ASSUME NEW d \in Callers, Reading(d)', ~ticked'[d].second
               PROVE  Read(d)'
    BY DEF ReadSoFar
  <2>1. Read(d) /\ d # c
    BY <1>1, <1>2 DEF ReadSoFar
  <2>2. Late(clock.hour)' = Late(clock.hour)
    BY <1>1 DEF Late
  <2>3. QED
    BY <1>1, <2>1, <2>2 DEF Read, Got
<1>6. Ahead'
  <2> SUFFICES ASSUME NEW d \in Callers, Reading(d)', ~ticked'[d].century
               PROVE  Later(Mix(Got(d), time[d], clock), since[d])'
    BY DEF Ahead
  <2>1. d # c /\ Later(Mix(Got(d), time[d], clock), since[d])
    BY <1>1, <1>2 DEF Ahead
  <2>2. Got(d)' = Got(d)
    BY <1>1, <2>1 DEF Got
  <2>3. QED
    BY <1>1, <2>1, <2>2
<1>7. QED
  BY <1>3, <1>4, <1>5, <1>6

LEMMA ReadTick ==
  ASSUME IInv, RInv, Tick
  PROVE  RInv'
<1> USE DEF RInv
<1>1. /\ UNCHANGED <<mode12, halted, call, time, since, alone>>
      /\ ~halted /\ clock' = NextSecond(clock) /\ clock \in Clocks
      /\ time \in [Callers -> RtcTimes]
  BY DEF Tick, IInv, ClockTypeOK
<1>2. ASSUME NEW c \in Callers, Busy(c)
      PROVE  /\ ticked'[c].second
             /\ ~ticked'[c].century =>
                  ~ticked[c].century /\ ~(NextSecond(clock).year < clock.year)
  <2> DEFINE b == Busy(c)
             m == ticked[c].minute \/ (clock.second = 59 /\ call[c].at > 1)
             n == ticked[c].century \/ (NextSecond(clock).year < clock.year /\ Busy(c))
  <2>1. ticked'[c] = [second |-> b, minute |-> m, century |-> n]
    BY DEF Tick
  <2> HIDE DEF b, m, n
  <2>2. ticked'[c].second = b /\ ticked'[c].century = n
    BY <2>1
  <2>3. b /\ (~n => ~ticked[c].century /\ ~(NextSecond(clock).year < clock.year))
    BY <1>2, Zenon DEF b, n
  <2>4. QED
    BY <2>2, <2>3, Zenon
<1>3. Starting'
  BY <1>1 DEF Starting
<1>4. Since'
  BY <1>1 DEF Since, Busy
<1>5. ReadSoFar'
  BY <1>1, <1>2 DEF ReadSoFar, Reading, Busy
<1>6. Ahead'
  <2> SUFFICES ASSUME NEW c \in Callers, Reading(c), ~ticked'[c].century
               PROVE  Later(Mix(Got(c), time[c], clock'), since[c])
    BY <1>1 DEF Ahead, Reading, Got
  <2>1. Busy(c)
    BY DEF Reading, Busy
  <2>2. ~ticked[c].century /\ NextSecond(clock).year >= clock.year
    BY <1>1, <1>2, <2>1, NextSecondTyped DEF Clocks
  <2>3. Later(Mix(Got(c), time[c], clock), since[c])
    BY <2>2 DEF Ahead
  <2>4. Got(c) \in 0..7 /\ since[c] \in Clocks
    BY <2>1 DEF Got, IInv, HistoryOK, Since
  <2>5. QED
    BY <1>1, <2>2, <2>3, <2>4, TickAhead
<1>7. QED
  BY <1>3, <1>4, <1>5, <1>6

LEMMA ReadInductive == ClockSpec => []RInv
<1>1. ClockInit => RInv
  BY DEF ClockInit, RInv, Starting, Since, ReadSoFar, Ahead, Reading, Busy, Idle
<1>2. IInv /\ RInv /\ [ClockNext]_clockVars => RInv'
  <2> SUFFICES ASSUME IInv, RInv, [ClockNext]_clockVars PROVE RInv'
    OBVIOUS
  <2>1. ASSUME NEW c \in Callers, Begin(c) PROVE RInv' BY <2>1, ReadBegin
  <2>2. ASSUME NEW c \in Callers, ReadField(c) PROVE RInv' BY <2>2, ReadReadField
  <2>3. ASSUME NEW c \in Callers, StartChip(c) PROVE RInv' BY <2>3, ReadStartChip
  <2>4. ASSUME NEW c \in Callers, WriteField(c) PROVE RInv' BY <2>4, ReadWriteField
  <2>5. ASSUME NEW c \in Callers, End(c) PROVE RInv' BY <2>5, ReadEnd
  <2>6. CASE Tick BY <2>6, ReadTick
  <2>7. CASE UNCHANGED clockVars
    <3>1. UNCHANGED <<clock, mode12, halted, call, time, since, alone, ticked>>
      BY <2>7 DEF clockVars, chip, history
    <3>2. QED
      BY <3>1 DEF RInv, Starting, Since, ReadSoFar, Ahead, Read, Reading, Got,
                  Late, Mix, Later, Busy
  <2>8. QED
    BY <2>1, <2>2, <2>3, <2>4, <2>5, <2>6, <2>7 DEF ClockNext
<1>3. QED
  BY <1>1, <1>2, Inductive, PTL DEF ClockSpec

(* HI_RTC_RD_TIME returns the time at which it began, if nobody overlaps   *)
(* it and the chip does not tick: exactly so, but for the hour that the    *)
(* driver returns 12 hours late in 12 hour mode.                           *)
THEOREM ReadsExactly == ClockSpec => []ReadExact
<1>1. IInv /\ RInv => ReadExact
  <2> SUFFICES ASSUME IInv, RInv, NEW c \in Callers, Done(c, "read"), alone[c],
                      ~ticked[c].second
               PROVE  Count(time[c]) = Count([since[c] EXCEPT
                        !.hour = IF mode12 /\ since[c].hour % 12 = 0 THEN @ + 12 ELSE @])
    BY DEF ReadExact
  <2>1. call[c].op = "read" /\ Got(c) = 7
    BY DEF Done, Got
  <2>2. Read(c)
    BY <2>1 DEF RInv, ReadSoFar, Reading
  <2>3. since[c] \in Clocks
    BY <2>1 DEF RInv, Since, Busy
  <2>4. QED
    BY <2>1, <2>2, <2>3 DEF Read, Count, Late, Clocks
<1>2. QED
  BY <1>1, Inductive, ReadInductive, PTL

(* Later is what NotBefore says. *)
LEMMA LaterNotBefore ==
  ASSUME NEW t \in RtcTimes, NEW u \in RtcTimes, Later(t, u)
  PROVE  NotBefore(t, u)
<1> DEFINE a == Count(t)
           b == Count(u)
<1>1. /\ a[1] = t.year /\ a[2] = t.month /\ a[3] = t.date
      /\ a[4] = t.hour /\ a[5] = t.minute /\ a[6] = t.second
      /\ b[1] = u.year /\ b[2] = u.month /\ b[3] = u.date
      /\ b[4] = u.hour /\ b[5] = u.minute /\ b[6] = u.second
  BY DEF Count
<1>2. CASE \E i \in 1..6 : (\A j \in 1..(i - 1) : a[j] = b[j]) /\ a[i] > b[i]
  BY <1>2 DEF NotBefore
<1>3. CASE \A i \in 1..6 : (\A j \in 1..(i - 1) : a[j] = b[j]) => ~(a[i] > b[i])
  <2>1. /\ t.year = u.year /\ t.month = u.month /\ t.date = u.date
        /\ t.hour = u.hour /\ t.minute = u.minute /\ t.second = u.second
    <3> HIDE DEF a, b
    <3>1. QED
      BY <1>1, <1>3 DEF Later, RtcTimes
  <2>2. QED
    BY <2>1 DEF NotBefore, Count
<1>4. QED
  BY <1>2, <1>3

(* What HI_RTC_RD_TIME returns is never behind the time at which it began, *)
(* however often the chip ticks and carries between its register accesses, *)
(* up to the end of the century.                                           *)
THEOREM NeverBehind == ClockSpec => []ReadNotBehind
<1>1. IInv /\ RInv => ReadNotBehind
  <2> SUFFICES ASSUME IInv, RInv, NEW c \in Callers, Done(c, "read"), alone[c],
                      ~ticked[c].century
               PROVE  NotBefore(time[c], since[c])
    BY DEF ReadNotBehind
  <2>1. call[c].op = "read" /\ Got(c) = 7
    BY DEF Done, Got
  <2>2. Later(Mix(7, time[c], clock), since[c])
    BY <2>1 DEF RInv, Ahead, Reading
  <2>3. Later(time[c], since[c])
    BY <2>2 DEF Mix, Later
  <2>4. time[c] \in RtcTimes /\ since[c] \in RtcTimes
    BY <2>1, ClocksAreTimes DEF RInv, Since, Busy, IInv, ClockTypeOK
  <2>5. QED
    BY <2>3, <2>4, LaterNotBefore
<1>2. QED
  BY <1>1, Inductive, ReadInductive, PTL
-----------------------------------------------------------------------------
(* The bus. *)
(* The first i bits of a byte. *)
Top(b, i) == b \div 2^(8 - i)

(* The chip does not listen, and leaves SDA alone. *)
Deaf == slave.mode = "off" /\ ~slave.low

(* A step that the chip does not answer and rx does not notice. *)
Quiet == /\ mem' = mem /\ served' = served /\ rx' = rx
         /\ slave'.ptr = slave.ptr

(* A start condition after j of its operations. *)
Start(j) ==
  /\ ~slave.low
  /\ j >= 1 => scl = 1
  /\ j >= 2 => out
  /\ j >= 3 => latch = 1

(* The chip has heard n bits of the byte b in mode m, or nothing. *)
Hears(m, b, n) ==
  IF m = "off" THEN Deaf
  ELSE /\ slave.mode = m /\ slave.n = n
       /\ slave.byte = Top(b, n) /\ ~slave.low

(* i2c_send_byte(b) after i bits and j operations of the next. *)
Send(m, b, i, j) ==
  /\ Hears(m, b, IF j = 4 THEN i + 1 ELSE i)
  /\ j \in 1..3 => scl = 0
  /\ j = 4 => scl = 1
  /\ j = 0 /\ i > 0 => scl = 0
  /\ j >= 2 \/ i > 0 => out
  /\ j >= 3 => latch = Bit(b, i)

(* The chip pulls SDA down to acknowledge b. *)
Acks(m, b) ==
  IF m = "off" THEN Deaf
  ELSE slave.mode = m /\ slave.n = 9 /\ slave.byte = b /\ slave.low

(* i2c_receive_ack after j operations. *)
Ack(m, b, j) ==
  /\ Acks(m, b)
  /\ j >= 1 => ~out
  /\ scl = IF j \in 0..2 THEN 0 ELSE 1

(* The chip puts out the bits of x; a bus without it is all ones. *)
Shows(m, x, i) ==
  IF m = "off" THEN Deaf
  ELSE /\ slave.mode = m /\ slave.n = i + 1 /\ slave.byte = x
       /\ slave.low <=> i < 8 /\ Bit(x, i) = 0

(* i2c_receive_byte after i bits and j operations of the next. *)
Fetch(m, x, i, j) ==
  /\ Shows(m, x, i)
  /\ ~out
  /\ scl = IF j \in 0..1 THEN 0 ELSE 1
  /\ rx = Top(x, IF j = 4 THEN i + 1 ELSE i)

(* i2c_stop_bit after j operations: it ends a read ... *)
StopRead(m, x, j) ==
  /\ IF j = 0 THEN Shows(m, x, 8) ELSE Deaf
  /\ m # "off" => slave.byte = x
  /\ scl = IF j \in {1, 5, 6} THEN 1 ELSE 0
  /\ j < 3 => ~out
  /\ j >= 3 => out
  /\ j >= 4 => latch = 0
  /\ rx = x

(* ... or a write, whose last acknowledge it clocks. *)
StopWrite(m, b, j) ==
  /\ IF j <= 1 THEN Acks(m, b)
     ELSE IF m = "off" THEN Deaf
     ELSE /\ slave.mode = m /\ slave.byte = 0 /\ ~slave.low
          /\ slave.n = IF j <= 4 THEN 0 ELSE 1
  /\ scl = IF j \in {1, 5, 6} THEN 1 ELSE 0
  /\ out
  /\ j >= 4 => latch = 0

Free == scl = 1 /\ latch = 1 /\ out /\ Deaf

(* Does the chip answer the call?  What it hears, points to and returns. *)
Here(c) == c.dev = Chip
Heard(c, m) == IF Here(c) THEN m ELSE "off"
Fresh == rx = 0 /\ ~served
Pointed(c) == Here(c) => slave.ptr = c.addr
Result(c, x) == IF Here(c) THEN x \in Values ELSE x = 255

(* The function whose operations follow the first at ones of the call has  *)
(* the bus when k operations are done.                                     *)
StartIn(at, k) == \E j \in 0..4 : k = at + j /\ Start(j)

SendIn(at, m, b, k) ==
  \E i \in 0..7, j \in 0..4 : k = at + 5 * i + j /\ Send(m, b, i, j)

AckIn(at, m, b, k) == \E j \in 0..4 : k = at + j /\ Ack(m, b, j)

FetchIn(at, m, x, k) ==
  \E i \in 0..7, j \in 0..4 : k = at + 5 * i + j /\ Fetch(m, x, i, j)

StopReadIn(at, m, x, k) ==
  \E j \in 0..6 : k = at + j /\ StopRead(m, x, j)

StopWriteIn(at, m, b, k) ==
  \E j \in 0..6 : k = at + j /\ StopWrite(m, b, j)

(* Both calls address the device and one of its registers ... *)
Addressed(c, k) ==
  \/ StartIn(0, k)
  \/ SendIn(5, "address", c.dev, k)
  \/ AckIn(45, Heard(c, "address"), c.dev, k)
  \/ SendIn(50, Heard(c, "pointer"), c.addr, k)
  \/ AckIn(90, Heard(c, "pointer"), c.addr, k) /\ Pointed(c)

(* ... a read then addresses the device again, to fetch, and stops, *)
Asked(c, k) ==
  \/ StartIn(95, k)
  \/ SendIn(100, "address", c.dev + 1, k)
  \/ AckIn(140, Heard(c, "address"), c.dev + 1, k)

Fetched(c, x, k) ==
  \/ FetchIn(145, Heard(c, "send"), x, k)
  \/ StopReadIn(185, Heard(c, "send"), x, k)
  \/ k = 192 /\ Free /\ rx = x /\ (Here(c) => slave.byte = x)

(* ... and a write sends the byte and stops. *)
Stored(c, k) ==
  \/ StopWriteIn(135, Heard(c, "data"), c.val, k)
  \/ k = 142 /\ Free

(* What the first k operations of the call have made of chip and lines. *)
At(c, k) ==
  \/ Fresh /\ Addressed(c, k)
  \/ c.op = "read" /\ Fresh /\ Pointed(c) /\ Asked(c, k)
  \/ /\ c.op = "read" /\ (served <=> Here(c))
     /\ \E x \in Values \union {255} : Result(c, x) /\ Fetched(c, x, k)
  \/ c.op = "write" /\ Fresh /\ Pointed(c) /\ SendIn(95, Heard(c, "data"), c.val, k)
  \/ c.op = "write" /\ rx = 0 /\ (served <=> Here(c)) /\ Stored(c, k)

(* The bytes that callers write, and those that reads have returned. *)
ValuesInv == \A t \in Threads : io[t].at # "idle" =>
  IF io[t].at = "done" /\ io[t].op = "read" THEN Result(io[t], io[t].val)
  ELSE io[t].val \in Values

(* The inductive invariant. *)
BusInv ==
  /\ TypeOK
  /\ ValuesInv
  /\ \A t \in Threads : io[t].at = "bits" <=> lock = t
  /\ lock = NoThread => Free /\ pos = 0 /\ Fresh
  /\ \A t \in Threads : lock = t => At(io[t], pos)
-----------------------------------------------------------------------------
TopAt(b, i) == /\ Top(b, i) \in 0..255 /\ Top(b, i + 1) \in 0..255
               /\ Bit(b, i) \in {0, 1}
               /\ Top(b, i + 1) = (2 * Top(b, i) + Bit(b, i)) % 256

(* The first bits of a byte, one more at a time. *)
LEMMA Tops ==
  ASSUME NEW b \in 0..255
  PROVE  /\ TopAt(b, 0) /\ TopAt(b, 1) /\ TopAt(b, 2) /\ TopAt(b, 3)
         /\ TopAt(b, 4) /\ TopAt(b, 5) /\ TopAt(b, 6) /\ TopAt(b, 7)
         /\ Top(b, 0) = 0 /\ Top(b, 8) = b
<1>1. TopAt(b, 0)
  BY DEF Top, Bit, TopAt
<1>2. TopAt(b, 1)
  BY DEF Top, Bit, TopAt
<1>3. TopAt(b, 2)
  BY DEF Top, Bit, TopAt
<1>4. TopAt(b, 3)
  BY DEF Top, Bit, TopAt
<1>5. TopAt(b, 4)
  BY DEF Top, Bit, TopAt
<1>6. TopAt(b, 5)
  BY DEF Top, Bit, TopAt
<1>7. TopAt(b, 6)
  BY DEF Top, Bit, TopAt
<1>8. TopAt(b, 7)
  BY DEF Top, Bit, TopAt
<1>9. Top(b, 0) = 0 /\ Top(b, 8) = b
  BY DEF Top
<1> QED
  BY <1>1, <1>2, <1>3, <1>4, <1>5, <1>6, <1>7, <1>8, <1>9

LEMMA TopStep ==
  ASSUME NEW b \in 0..255
  PROVE  (\A i \in 0..7 : TopAt(b, i)) /\ Top(b, 0) = 0 /\ Top(b, 8) = b
<1>1. ASSUME NEW i \in 0..7 PROVE TopAt(b, i)
  <2>1. i \in {0, 1, 2, 3, 4, 5, 6, 7}
    OBVIOUS
  <2> QED
    BY <2>1, Tops, Zenon
<1> QED
  BY <1>1, Tops, Zenon

(* A byte of ones. *)
LEMMA Ones == \A i \in 0..7 : Bit(255, i) = 1
<1> TAKE i \in 0..7
<1>1. i \in {0, 1, 2, 3, 4, 5, 6, 7}
  OBVIOUS
<1>2. /\ Bit(255, 0) = 1 /\ Bit(255, 1) = 1 /\ Bit(255, 2) = 1 /\ Bit(255, 3) = 1
      /\ Bit(255, 4) = 1 /\ Bit(255, 5) = 1 /\ Bit(255, 6) = 1 /\ Bit(255, 7) = 1
  BY DEF Bit
<1> QED
  BY <1>1, <1>2
-----------------------------------------------------------------------------
PinOps == {"scl0", "scl1", "sdaOut", "sdaIn", "sda0", "sda1", "sample"}

IsOps(s, n) == s \in Seq(PinOps) /\ Len(s) = n

(* Operations at + 1 to at + n of s are those of p. *)
Part(s, at, p, n) == \A m \in 1..n : s[at + m] = p[m]

(* Appending operations to a list leaves its parts where they are. *)
LEMMA Joined ==
  ASSUME NEW s, NEW p, NEW n \in Nat, NEW k \in Nat, IsOps(s, n), IsOps(p, k)
  PROVE  /\ IsOps(s \o p, n + k)
         /\ Part(s \o p, n, p, k)
         /\ \A q, at, l : at \in Nat /\ l \in Nat /\ at + l <= n /\ Part(s, at, q, l)
                             => Part(s \o p, at, q, l)
<1>1. /\ s \o p \in Seq(PinOps) /\ Len(s \o p) = n + k
      /\ \A m \in 1..(n + k) :
            (s \o p)[m] = IF m <= n THEN s[m] ELSE p[m - n]
  BY DEF IsOps
<1>2. Part(s \o p, n, p, k)
  BY <1>1 DEF Part
<1>3. ASSUME NEW q, NEW at \in Nat, NEW l \in Nat, at + l <= n, Part(s, at, q, l)
      PROVE  Part(s \o p, at, q, l)
  BY <1>1, <1>3 DEF Part
<1> QED
  BY <1>1, <1>2, <1>3 DEF IsOps

(* The short functions of the driver, and how long they are. *)
LEMMA Pieces ==
  /\ IsOps(i2c_start_bit, 5)
  /\ IsOps(i2c_receive_ack, 5)
  /\ IsOps(i2c_stop_bit, 7)
  /\ IsOps(ReceiveBit, 5)
  /\ \A bit : IsOps(SendBit(bit), 5)
BY DEF i2c_start_bit, i2c_receive_ack, i2c_stop_bit, ReceiveBit, SendBit, Sda,
       PinOps, IsOps

(* Operation 5 * i + j + 1 of a byte is operation j + 1 of its bit i. *)
LEMMA ByteOps ==
  ASSUME NEW b
  PROVE  /\ IsOps(i2c_send_byte(b), 40)
         /\ \A i \in 0..7, j \in 0..4 :
              i2c_send_byte(b)[5 * i + j + 1] = SendBit(Bit(b, i))[j + 1]
<1>1. ASSUME NEW n \in 1..40
      PROVE  SendBit(Bit(b, (n - 1) \div 5))[((n - 1) % 5) + 1] \in PinOps
  <2>1. ((n - 1) % 5) + 1 \in 1..5
    OBVIOUS
  <2> QED
    BY <2>1, Pieces DEF IsOps
<1>2. IsOps(i2c_send_byte(b), 40)
  BY <1>1 DEF i2c_send_byte, IsOps
<1>3. ASSUME NEW i \in 0..7, NEW j \in 0..4
      PROVE  i2c_send_byte(b)[5 * i + j + 1] = SendBit(Bit(b, i))[j + 1]
  <2>1. /\ 5 * i + j + 1 \in 1..40
        /\ ((5 * i + j + 1) - 1) \div 5 = i
        /\ ((5 * i + j + 1) - 1) % 5 = j
    OBVIOUS
  <2> QED
    BY <2>1 DEF i2c_send_byte
<1> QED
  BY <1>2, <1>3

LEMMA FetchOps ==
  /\ IsOps(i2c_receive_byte, 40)
  /\ \A i \in 0..7, j \in 0..4 :
       i2c_receive_byte[5 * i + j + 1] = ReceiveBit[j + 1]
<1>1. ASSUME NEW n \in 1..40 PROVE ReceiveBit[((n - 1) % 5) + 1] \in PinOps
  <2>1. ((n - 1) % 5) + 1 \in 1..5
    OBVIOUS
  <2>2. ReceiveBit \in Seq(PinOps) /\ Len(ReceiveBit) = 5
    BY Pieces DEF IsOps
  <2>3. \A m \in 1..5 : ReceiveBit[m] \in PinOps
    BY <2>2
  <2> QED
    BY <2>1, <2>3
<1>2. IsOps(i2c_receive_byte, 40)
  BY <1>1 DEF i2c_receive_byte, IsOps
<1>3. ASSUME NEW i \in 0..7, NEW j \in 0..4
      PROVE  i2c_receive_byte[5 * i + j + 1] = ReceiveBit[j + 1]
  <2>1. /\ 5 * i + j + 1 \in 1..40
        /\ ((5 * i + j + 1) - 1) % 5 = j
    OBVIOUS
  <2> QED
    BY <2>1 DEF i2c_receive_byte
<1> QED
  BY <1>2, <1>3

(* The pin operations that address a register of a device. *)
Header(d, a) ==
  i2c_start_bit \o i2c_send_byte(d) \o i2c_receive_ack
  \o i2c_send_byte(a) \o i2c_receive_ack

HeaderIn(s, d, a) ==
  /\ Part(s, 0, i2c_start_bit, 5)
  /\ Part(s, 5, i2c_send_byte(d), 40)
  /\ Part(s, 45, i2c_receive_ack, 5)
  /\ Part(s, 50, i2c_send_byte(a), 40)
  /\ Part(s, 90, i2c_receive_ack, 5)

(* Where each function of the header starts. *)
LEMMA HeaderOps ==
  ASSUME NEW d, NEW a
  PROVE  IsOps(Header(d, a), 95) /\ HeaderIn(Header(d, a), d, a)
<1> DEFINE s1 == i2c_start_bit
           s2 == s1 \o i2c_send_byte(d)
           s3 == s2 \o i2c_receive_ack
           s4 == s3 \o i2c_send_byte(a)
           s5 == s4 \o i2c_receive_ack
<1>1. Header(d, a) = s5
  BY DEF Header
<1>2. IsOps(s1, 5) /\ Part(s1, 0, i2c_start_bit, 5)
  BY Pieces DEF Part
<1> HIDE DEF s1, s2, s3, s4, s5
<1>3. /\ IsOps(s2, 45)
      /\ Part(s2, 0, i2c_start_bit, 5)
      /\ Part(s2, 5, i2c_send_byte(d), 40)
  BY <1>2, Joined, Pieces, ByteOps, FetchOps DEF s2
<1>4. /\ IsOps(s3, 50)
      /\ Part(s3, 0, i2c_start_bit, 5)
      /\ Part(s3, 5, i2c_send_byte(d), 40)
      /\ Part(s3, 45, i2c_receive_ack, 5)
  BY <1>3, Joined, Pieces, ByteOps, FetchOps DEF s3
<1>5. /\ IsOps(s4, 90)
      /\ Part(s4, 0, i2c_start_bit, 5)
      /\ Part(s4, 5, i2c_send_byte(d), 40)
      /\ Part(s4, 45, i2c_receive_ack, 5)
      /\ Part(s4, 50, i2c_send_byte(a), 40)
  BY <1>4, Joined, Pieces, ByteOps, FetchOps DEF s4
<1>6. /\ IsOps(s5, 95)
      /\ Part(s5, 0, i2c_start_bit, 5)
      /\ Part(s5, 5, i2c_send_byte(d), 40)
      /\ Part(s5, 45, i2c_receive_ack, 5)
      /\ Part(s5, 50, i2c_send_byte(a), 40)
      /\ Part(s5, 90, i2c_receive_ack, 5)
  BY <1>5, Joined, Pieces, ByteOps, FetchOps DEF s5
<1> QED
  BY <1>1, <1>6 DEF HeaderIn

(* A read, piece by piece ... *)
LEMMA ReadOps ==
  ASSUME NEW d \in Devices, NEW a \in Addrs
  PROVE  /\ IsOps(gpio_i2c_rtc_read[d][a], 192)
         /\ HeaderIn(gpio_i2c_rtc_read[d][a], d, a)
         /\ Part(gpio_i2c_rtc_read[d][a], 95, i2c_start_bit, 5)
         /\ Part(gpio_i2c_rtc_read[d][a], 100, i2c_send_byte(d + 1), 40)
         /\ Part(gpio_i2c_rtc_read[d][a], 140, i2c_receive_ack, 5)
         /\ Part(gpio_i2c_rtc_read[d][a], 145, i2c_receive_byte, 40)
         /\ Part(gpio_i2c_rtc_read[d][a], 185, i2c_stop_bit, 7)
<1> DEFINE s1 == Header(d, a)
           s2 == s1 \o i2c_start_bit
           s3 == s2 \o i2c_send_byte(d + 1)
           s4 == s3 \o i2c_receive_ack
           s5 == s4 \o i2c_receive_byte
           s6 == s5 \o i2c_stop_bit
<1>1. gpio_i2c_rtc_read[d][a] = s6
  BY DEF gpio_i2c_rtc_read, Header
<1>2. IsOps(s1, 95) /\ HeaderIn(s1, d, a)
  BY HeaderOps
<1> HIDE DEF s1, s2, s3, s4, s5, s6
<1>3. /\ IsOps(s2, 100) /\ HeaderIn(s2, d, a)
      /\ Part(s2, 95, i2c_start_bit, 5)
  BY <1>2, Joined, Pieces, ByteOps, FetchOps DEF s2, HeaderIn
<1>4. /\ IsOps(s3, 140) /\ HeaderIn(s3, d, a)
      /\ Part(s3, 95, i2c_start_bit, 5)
      /\ Part(s3, 100, i2c_send_byte(d + 1), 40)
  BY <1>3, Joined, Pieces, ByteOps, FetchOps DEF s3, HeaderIn
<1>5. /\ IsOps(s4, 145) /\ HeaderIn(s4, d, a)
      /\ Part(s4, 95, i2c_start_bit, 5)
      /\ Part(s4, 100, i2c_send_byte(d + 1), 40)
      /\ Part(s4, 140, i2c_receive_ack, 5)
  BY <1>4, Joined, Pieces, ByteOps, FetchOps DEF s4, HeaderIn
<1>6. /\ IsOps(s5, 185) /\ HeaderIn(s5, d, a)
      /\ Part(s5, 95, i2c_start_bit, 5)
      /\ Part(s5, 100, i2c_send_byte(d + 1), 40)
      /\ Part(s5, 140, i2c_receive_ack, 5)
      /\ Part(s5, 145, i2c_receive_byte, 40)
  BY <1>5, Joined, Pieces, ByteOps, FetchOps DEF s5, HeaderIn
<1>7. /\ IsOps(s6, 192) /\ HeaderIn(s6, d, a)
      /\ Part(s6, 95, i2c_start_bit, 5)
      /\ Part(s6, 100, i2c_send_byte(d + 1), 40)
      /\ Part(s6, 140, i2c_receive_ack, 5)
      /\ Part(s6, 145, i2c_receive_byte, 40)
      /\ Part(s6, 185, i2c_stop_bit, 7)
  BY <1>6, Joined, Pieces, ByteOps, FetchOps DEF s6, HeaderIn
<1> QED
  BY <1>1, <1>7

(* ... and a write. *)
LEMMA WriteOps ==
  ASSUME NEW d \in Devices, NEW a \in Addrs, NEW v \in Values
  PROVE  /\ IsOps(gpio_i2c_rtc_write[d][a][v], 142)
         /\ HeaderIn(gpio_i2c_rtc_write[d][a][v], d, a)
         /\ Part(gpio_i2c_rtc_write[d][a][v], 95, i2c_send_byte(v), 40)
         /\ Part(gpio_i2c_rtc_write[d][a][v], 135, i2c_stop_bit, 7)
<1> DEFINE s1 == Header(d, a)
           s2 == s1 \o i2c_send_byte(v)
           s3 == s2 \o i2c_stop_bit
<1>1. gpio_i2c_rtc_write[d][a][v] = s3
  BY DEF gpio_i2c_rtc_write, Header
<1>2. IsOps(s1, 95) /\ HeaderIn(s1, d, a)
  BY HeaderOps
<1> HIDE DEF s1, s2, s3
<1>3. /\ IsOps(s2, 135) /\ HeaderIn(s2, d, a)
      /\ Part(s2, 95, i2c_send_byte(v), 40)
  BY <1>2, Joined, Pieces, ByteOps, FetchOps DEF s2, HeaderIn
<1>4. /\ IsOps(s3, 142) /\ HeaderIn(s3, d, a)
      /\ Part(s3, 95, i2c_send_byte(v), 40)
      /\ Part(s3, 135, i2c_stop_bit, 7)
  BY <1>3, Joined, Pieces, ByteOps, FetchOps DEF s3, HeaderIn
<1> QED
  BY <1>1, <1>4
-----------------------------------------------------------------------------
(* What one operation on the pins does. *)
Rises ==
  /\ scl' = 1
  /\ slave' = IF scl = 0 THEN Rise(slave) ELSE slave
  /\ UNCHANGED <<latch, out, rx, served, mem>>

Falls ==
  /\ scl' = 0
  /\ slave' = IF scl = 1 THEN Fall(slave) ELSE slave
  /\ mem' = IF scl = 1 /\ Stores(slave) THEN [mem EXCEPT ![slave.ptr] = slave.byte]
            ELSE mem
  /\ served' = (served \/ (scl = 1 /\ (Stores(slave) \/ Fetches(slave))))
  /\ UNCHANGED <<latch, out, rx>>

Drives(level, output) ==
  /\ latch' = level /\ out' = output
  /\ slave' = IF scl = 1 THEN Edge(slave, sda, Level(level, output, slave.low))
              ELSE slave
  /\ UNCHANGED <<scl, rx, served, mem>>

Samples ==
  /\ rx' = (2 * rx + sda) % 256
  /\ UNCHANGED <<pins, slave, served, mem>>

Moves(p) ==
  /\ p = "scl1" => Rises
  /\ p = "scl0" => Falls
  /\ p = "sdaOut" => Drives(latch, TRUE)
  /\ p = "sdaIn" => Drives(latch, FALSE)
  /\ p = "sda0" => Drives(0, out)
  /\ p = "sda1" => Drives(1, out)
  /\ p = "sample" => Samples

PinStep(t) == SclUp(t) \/ SclDown(t) \/ SdaPin(t) \/ Sample(t)

(* A step of a thread on the pins does the next operation of its call. *)
LEMMA StepMoves ==
  ASSUME NEW t \in Threads, PinStep(t)
  PROVE  /\ io[t].at = "bits" /\ lock = t
         /\ pos < Len(Ops(io[t])) /\ Moves(Ops(io[t])[pos + 1])
         /\ pos' = pos + 1 /\ UNCHANGED <<lock, io, winner>>
<1> DEFINE p == Ops(io[t])[pos + 1]
<1>1. \E pin : Doing(t, pin)
  BY DEF PinStep, SclUp, SclDown, SdaPin, Sample
<1>2. /\ io[t].at = "bits" /\ lock = t
      /\ pos < Len(Ops(io[t]))
      /\ pos' = pos + 1 /\ UNCHANGED <<lock, io, winner>>
  BY <1>1 DEF Doing
<1>3. Moves(p)
  <2>1. CASE SclUp(t)
    <3>1. p = "scl1" /\ Rises
      BY <2>1 DEF SclUp, Doing, Rises
    <3> HIDE DEF p
    <3> QED
      BY <3>1 DEF Moves
  <2>2. CASE SclDown(t)
    <3>1. p = "scl0" /\ Falls
      BY <2>2 DEF SclDown, Doing, Falls
    <3> HIDE DEF p
    <3> QED
      BY <3>1 DEF Moves
  <2>3. CASE SdaPin(t)
    <3>1. \/ p = "sdaOut" /\ Drives(latch, TRUE)
          \/ p = "sdaIn" /\ Drives(latch, FALSE)
          \/ p = "sda0" /\ Drives(0, out)
          \/ p = "sda1" /\ Drives(1, out)
      BY <2>3 DEF SdaPin, Doing, Drives
    <3> HIDE DEF p
    <3> QED
      BY <3>1 DEF Moves
  <2>4. CASE Sample(t)
    <3>1. p = "sample" /\ Samples
      BY <2>4 DEF Sample, Doing, Samples
    <3> HIDE DEF p
    <3> QED
      BY <3>1 DEF Moves
  <2> QED
    BY <2>1, <2>2, <2>3, <2>4 DEF PinStep
<1> QED
  BY <1>2, <1>3

Modes == {"off", "address", "pointer", "data", "send"}

SlaveType == [mode: Modes, n: 0..9, byte: 0..255, low: BOOLEAN, ptr: 0..255]

PinsOK ==
  /\ scl \in {0, 1} /\ latch \in {0, 1} /\ out \in BOOLEAN
  /\ rx \in 0..255 /\ winner \in {0, 1} /\ slave \in SlaveType

(* The addresses of a write and of a read differ, and are bytes. *)
LEMMA AddressFacts ==
  /\ Chip \in 0..254 /\ Chip + 1 \in 0..255
  /\ \A d \in Devices : d \in 0..254 /\ d + 1 \in 0..255 /\ d # Chip + 1
  /\ \A d \in Devices : d + 1 = Chip + 1 <=> d = Chip
  /\ \A d \in Devices : d + 1 # Chip
  /\ Addrs \subseteq 0..255 /\ Values \subseteq 0..255
BY I2cAssumption

-----------------------------------------------------------------------------
(* The reactions of the chip, field by field. *)
SlaveIs(s, m, n, b, l, q) ==
  s.mode = m /\ s.n = n /\ s.byte = b /\ (s.low <=> l) /\ s.ptr = q

LEMMA SetMode ==
  ASSUME NEW s \in SlaveType, NEW x \in Modes PROVE [s EXCEPT !.mode = x] \in SlaveType
BY DEF SlaveType, Modes

LEMMA SetN ==
  ASSUME NEW s \in SlaveType, NEW x \in 0..9 PROVE [s EXCEPT !.n = x] \in SlaveType
BY DEF SlaveType

LEMMA SetByte ==
  ASSUME NEW s \in SlaveType, NEW x \in 0..255 PROVE [s EXCEPT !.byte = x] \in SlaveType
BY DEF SlaveType

LEMMA SetLow ==
  ASSUME NEW s \in SlaveType, NEW x \in BOOLEAN PROVE [s EXCEPT !.low = x] \in SlaveType
BY DEF SlaveType

LEMMA SetPtr ==
  ASSUME NEW s \in SlaveType, NEW x \in 0..255 PROVE [s EXCEPT !.ptr = x] \in SlaveType
BY DEF SlaveType

LEMMA SetModeLow ==
  ASSUME NEW s \in SlaveType, NEW m \in Modes, NEW l \in BOOLEAN
  PROVE  [s EXCEPT !.mode = m, !.low = l] \in SlaveType
<1>1. [s EXCEPT !.mode = m] \in SlaveType
  BY SetMode
<1> QED
  BY <1>1, SetLow

LEMMA SetByteN ==
  ASSUME NEW s \in SlaveType, NEW b \in 0..255, NEW n \in 0..9
  PROVE  [s EXCEPT !.byte = b, !.n = n] \in SlaveType
<1>1. [s EXCEPT !.byte = b] \in SlaveType
  BY SetByte, Zenon
<1> QED
  BY <1>1, SetN, Zenon

LEMMA SetModeNByte ==
  ASSUME NEW s \in SlaveType, NEW m \in Modes, NEW n \in 0..9, NEW b \in 0..255
  PROVE  [s EXCEPT !.mode = m, !.n = n, !.byte = b] \in SlaveType
<1>1. [s EXCEPT !.mode = m] \in SlaveType
  BY SetMode
<1>2. [s EXCEPT !.mode = m, !.n = n] \in SlaveType
  BY <1>1, SetN
<1> QED
  BY <1>2, SetByte, Zenon

LEMMA SetLowN ==
  ASSUME NEW s \in SlaveType, NEW l \in BOOLEAN, NEW n \in 0..9
  PROVE  [s EXCEPT !.low = l, !.n = n] \in SlaveType
<1>1. [s EXCEPT !.low = l] \in SlaveType
  BY SetLow
<1> QED
  BY <1>1, SetN, Zenon

LEMMA SetLowNPtr ==
  ASSUME NEW s \in SlaveType, NEW l \in BOOLEAN, NEW n \in 0..9, NEW q \in 0..255
  PROVE  [s EXCEPT !.low = l, !.n = n, !.ptr = q] \in SlaveType
<1>1. [s EXCEPT !.low = l, !.n = n] \in SlaveType
  BY SetLowN, Zenon
<1> QED
  BY <1>1, SetPtr, Zenon

LEMMA SetModeNByteLow ==
  ASSUME NEW s \in SlaveType, NEW m \in Modes, NEW n \in 0..9, NEW b \in 0..255,
         NEW l \in BOOLEAN
  PROVE  [s EXCEPT !.mode = m, !.n = n, !.byte = b, !.low = l] \in SlaveType
<1>1. [s EXCEPT !.mode = m, !.n = n, !.byte = b] \in SlaveType
  BY SetModeNByte, Zenon
<1> QED
  BY <1>1, SetLow, Zenon

LEMMA QuitIs ==
  ASSUME NEW s \in SlaveType
  PROVE  SlaveIs(Quit(s), "off", s.n, s.byte, FALSE, s.ptr)
BY DEF SlaveType, Modes, SlaveIs, Quit

LEMMA RiseIs ==
  ASSUME NEW s \in SlaveType
  PROVE  /\ Receiving(s) /\ s.n < 8 =>
              SlaveIs(Rise(s), s.mode, s.n + 1, (2 * s.byte + sda) % 256, s.low, s.ptr)
         /\ s.mode = "send" /\ s.n = 9 /\ sda = 1 => Rise(s) = Quit(s)
         /\ ~(Receiving(s) /\ s.n < 8) /\ ~(s.mode = "send" /\ s.n = 9 /\ sda = 1)
              => Rise(s) = s
<1>1. ASSUME Receiving(s), s.n < 8
      PROVE  SlaveIs(Rise(s), s.mode, s.n + 1, (2 * s.byte + sda) % 256, s.low, s.ptr)
  <2>1. Rise(s) = [s EXCEPT !.byte = (2 * @ + sda) % 256, !.n = @ + 1]
    BY <1>1 DEF Rise, Receiving
  <2> QED
    BY <2>1 DEF SlaveType, Modes, SlaveIs
<1> QED
  BY <1>1 DEF Rise, Receiving

LEMMA FallIs ==
  ASSUME NEW s \in SlaveType, Fetches(s) => mem[s.ptr] \in 0..255
  PROVE  /\ Fetches(s) =>
              SlaveIs(Fall(s), "send", 1, mem[s.ptr], Bit(mem[s.ptr], 0) = 0, s.ptr)
         /\ Receiving(s) /\ s.n = 8 =>
              IF s.mode = "address" /\ s.byte \notin {Chip, Chip + 1}
              THEN Fall(s) = Quit(s)
              ELSE SlaveIs(Fall(s), s.mode, 9, s.byte, TRUE,
                           IF s.mode = "pointer" THEN s.byte ELSE s.ptr)
         /\ Receiving(s) /\ s.n = 9 /\ ~Fetches(s) =>
              SlaveIs(Fall(s), IF s.mode = "address" THEN "pointer" ELSE "data",
                      0, 0, FALSE, s.ptr)
         /\ s.mode = "send" /\ s.n < 8 =>
              SlaveIs(Fall(s), "send", s.n + 1, s.byte, Bit(s.byte, s.n) = 0, s.ptr)
         /\ s.mode = "send" /\ s.n = 8 =>
              SlaveIs(Fall(s), "send", 9, s.byte, FALSE, s.ptr)
         /\ s.mode = "off" \/ (Receiving(s) /\ s.n < 8) \/ (s.mode = "send" /\ s.n = 9)
              => Fall(s) = s
<1>1. ASSUME Fetches(s)
      PROVE  SlaveIs(Fall(s), "send", 1, mem[s.ptr], Bit(mem[s.ptr], 0) = 0, s.ptr)
  <2>1. Fall(s) = NextBit([s EXCEPT !.mode = "send", !.n = 0, !.byte = mem[s.ptr]])
    BY <1>1 DEF Fall, Fetches, Receiving
  <2> DEFINE r == [s EXCEPT !.mode = "send", !.n = 0, !.byte = mem[s.ptr]]
  <2>2. r \in SlaveType /\ SlaveIs(r, "send", 0, mem[s.ptr], s.low, s.ptr)
    <3>1. "send" \in Modes /\ 0 \in 0..9 /\ mem[s.ptr] \in 0..255
      BY <1>1 DEF Modes
    <3>2. r \in SlaveType
      BY <3>1, SetModeNByte, Zenon
    <3>3. SlaveIs(r, "send", 0, mem[s.ptr], s.low, s.ptr)
      BY DEF SlaveIs, SlaveType
    <3> QED
      BY <3>2, <3>3
  <2> HIDE DEF r
  <2>3. SlaveIs([r EXCEPT !.low = (Bit(r.byte, r.n) = 0), !.n = @ + 1],
                r.mode, r.n + 1, r.byte, Bit(r.byte, r.n) = 0, r.ptr)
    <3> DEFINE l == Bit(r.byte, r.n) = 0
    <3>1. l \in BOOLEAN
      OBVIOUS
    <3> HIDE DEF l
    <3>2. SlaveIs([r EXCEPT !.low = l, !.n = @ + 1], r.mode, r.n + 1, r.byte, l, r.ptr)
      BY <2>2, <3>1 DEF SlaveIs, SlaveType
    <3> QED
      BY <3>2 DEF l
  <2> QED
    BY <2>1, <2>2, <2>3 DEF NextBit, SlaveIs, r
<1>2. ASSUME Receiving(s), s.n = 8
      PROVE  IF s.mode = "address" /\ s.byte \notin {Chip, Chip + 1}
             THEN Fall(s) = Quit(s)
             ELSE SlaveIs(Fall(s), s.mode, 9, s.byte, TRUE,
                          IF s.mode = "pointer" THEN s.byte ELSE s.ptr)
  <2>1. Fall(s) =
          IF s.mode = "address" /\ s.byte \notin {Chip, Chip + 1} THEN Quit(s)
          ELSE [s EXCEPT !.low = TRUE, !.n = 9,
                         !.ptr = IF s.mode = "pointer" THEN s.byte ELSE @]
    BY <1>2 DEF Fall, Fetches, Receiving
  <2> QED
    BY <2>1 DEF SlaveType, Modes, SlaveIs
<1>3. ASSUME Receiving(s), s.n = 9, ~Fetches(s)
      PROVE  SlaveIs(Fall(s), IF s.mode = "address" THEN "pointer" ELSE "data",
                     0, 0, FALSE, s.ptr)
  <2>1. Fall(s) = [s EXCEPT !.mode = IF @ = "address" THEN "pointer" ELSE "data",
                            !.n = 0, !.byte = 0, !.low = FALSE]
    BY <1>3 DEF Fall, Receiving
  <2> QED
    BY <2>1 DEF SlaveType, Modes, SlaveIs
<1>4. ASSUME s.mode = "send", s.n < 8
      PROVE  SlaveIs(Fall(s), "send", s.n + 1, s.byte, Bit(s.byte, s.n) = 0, s.ptr)
  <2>1. Fall(s) = NextBit(s)
    BY <1>4 DEF Fall, Fetches, Receiving
  <2> QED
    BY <1>4, <2>1 DEF SlaveType, Modes, SlaveIs, NextBit
<1>5. ASSUME s.mode = "send", s.n = 8
      PROVE  SlaveIs(Fall(s), "send", 9, s.byte, FALSE, s.ptr)
  <2>1. Fall(s) = [s EXCEPT !.low = FALSE, !.n = 9]
    BY <1>5 DEF Fall, Fetches, Receiving
  <2> QED
    BY <1>5, <2>1 DEF SlaveType, Modes, SlaveIs
<1>6. s.mode = "off" \/ (Receiving(s) /\ s.n < 8) \/ (s.mode = "send" /\ s.n = 9)
        => Fall(s) = s
  BY DEF SlaveType, Modes, Fall, Fetches, Receiving
<1> QED
  BY <1>1, <1>2, <1>3, <1>4, <1>5, <1>6

LEMMA EdgeIs ==
  ASSUME NEW s \in SlaveType, NEW from \in {0, 1}, NEW to \in {0, 1}
  PROVE  /\ from = to => Edge(s, from, to) = s
         /\ from = 1 /\ to = 0 => SlaveIs(Edge(s, from, to), "address", 0, 0, FALSE, s.ptr)
         /\ from = 0 /\ to = 1 => Edge(s, from, to) = Quit(s)
BY DEF Edge, SlaveType, Modes, SlaveIs

(* The chip stays in its type. *)
LEMMA SlaveTypes ==
  ASSUME NEW s \in SlaveType
  PROVE  /\ Quit(s) \in SlaveType
         /\ sda \in {0, 1} => Rise(s) \in SlaveType
         /\ (Fetches(s) => mem[s.ptr] \in 0..255) => Fall(s) \in SlaveType
         /\ \A from, to : Edge(s, from, to) \in SlaveType
<1>1. /\ s.mode \in Modes /\ s.n \in 0..9 /\ s.byte \in 0..255 /\ s.low \in BOOLEAN
      /\ s.ptr \in 0..255
      /\ \A m \in {"off", "address", "pointer", "data", "send"} : m \in Modes
  BY DEF SlaveType, Modes
<1>2. ASSUME NEW r \in SlaveType, r.n < 9 PROVE NextBit(r) \in SlaveType
  <2>1. r.n + 1 \in 0..9
    BY <1>2 DEF SlaveType
  <2>2. [r EXCEPT !.low = (Bit(r.byte, r.n) = 0), !.n = r.n + 1] \in SlaveType
    <3> DEFINE l == Bit(r.byte, r.n) = 0
    <3>1. l \in BOOLEAN
      OBVIOUS
    <3> HIDE DEF l
    <3>2. [r EXCEPT !.low = l, !.n = r.n + 1] \in SlaveType
      BY <2>1, <3>1, SetLowN, Zenon
    <3> QED
      BY <3>2 DEF l
  <2> QED
    BY <2>2 DEF NextBit
<1>3. Quit(s) \in SlaveType
  <2>1. [s EXCEPT !.mode = "off", !.low = FALSE] \in SlaveType
    BY <1>1, SetModeLow, Zenon
  <2> QED
    BY <2>1 DEF Quit
<1>4. ASSUME sda \in {0, 1} PROVE Rise(s) \in SlaveType
  <2>1. CASE Receiving(s) /\ s.n < 8
    <3>1. Rise(s) = [s EXCEPT !.byte = (2 * s.byte + sda) % 256, !.n = s.n + 1]
      BY <2>1 DEF Rise
    <3>2. (2 * s.byte + sda) % 256 \in 0..255 /\ s.n + 1 \in 0..9
      BY <1>1, <1>4, <2>1
    <3>3. [s EXCEPT !.byte = (2 * s.byte + sda) % 256, !.n = s.n + 1] \in SlaveType
      BY <3>2, SetByteN, Zenon
    <3> QED
      BY <3>1, <3>3
  <2> QED
    BY <1>3, <2>1, RiseIs
<1>5. ASSUME Fetches(s) => mem[s.ptr] \in 0..255 PROVE Fall(s) \in SlaveType
  <2>1. CASE Fetches(s)
    <3> DEFINE r == [s EXCEPT !.mode = "send", !.n = 0, !.byte = mem[s.ptr]]
    <3>1. Fall(s) = NextBit(r)
      BY <2>1 DEF Fall, Fetches, Receiving
    <3>2. r.n = 0
      BY DEF SlaveType
    <3>3. "send" \in Modes /\ 0 \in 0..9 /\ mem[s.ptr] \in 0..255
      BY <1>5, <2>1 DEF Modes
    <3>4. r \in SlaveType
      BY <3>3, SetModeNByte, Zenon
    <3> HIDE DEF r
    <3> QED
      BY <1>2, <3>1, <3>2, <3>4
  <2>2. CASE Receiving(s) /\ s.n = 8
    <3> DEFINE q == IF s.mode = "pointer" THEN s.byte ELSE s.ptr
               r == [s EXCEPT !.low = TRUE, !.n = 9, !.ptr = q]
    <3>1. Fall(s) = Quit(s) \/ Fall(s) = r
      BY <2>2 DEF Fall, Fetches, Receiving
    <3>2. q \in 0..255 /\ 9 \in 0..9 /\ TRUE \in BOOLEAN
      BY <1>1
    <3> HIDE DEF q
    <3>3. r \in SlaveType
      BY <3>2, SetLowNPtr, Zenon
    <3> HIDE DEF r
    <3> QED
      BY <1>3, <3>1, <3>3
  <2>3. CASE Receiving(s) /\ s.n = 9 /\ ~Fetches(s)
    <3> DEFINE m == IF s.mode = "address" THEN "pointer" ELSE "data"
               r == [s EXCEPT !.mode = m, !.n = 0, !.byte = 0, !.low = FALSE]
    <3>1. Fall(s) = r
      BY <2>3 DEF Fall, Receiving
    <3>2. m \in Modes /\ 0 \in 0..9 /\ 0 \in 0..255 /\ FALSE \in BOOLEAN
      BY <1>1
    <3> HIDE DEF m
    <3>3. r \in SlaveType
      BY <3>2, SetModeNByteLow, Zenon
    <3> HIDE DEF r
    <3> QED
      BY <3>1, <3>3
  <2>4. CASE s.mode = "send" /\ s.n < 8
    <3>1. Fall(s) = NextBit(s)
      BY <2>4 DEF Fall, Fetches, Receiving
    <3> QED
      BY <1>1, <1>2, <2>4, <3>1
  <2>5. CASE s.mode = "send" /\ s.n = 8
    <3>1. Fall(s) = [s EXCEPT !.low = FALSE, !.n = 9]
      BY <2>5 DEF Fall, Fetches, Receiving
    <3>2. 9 \in 0..9 /\ FALSE \in BOOLEAN
      OBVIOUS
    <3>3. [s EXCEPT !.low = FALSE, !.n = 9] \in SlaveType
      BY <3>2, SetLowN, Zenon
    <3> QED
      BY <3>1, <3>3
  <2>6. CASE \/ s.mode = "off" \/ (Receiving(s) /\ s.n < 8)
             \/ (s.mode = "send" /\ s.n = 9)
    BY <1>5, <2>6, FallIs
  <2>7. /\ s.mode = "off" \/ s.mode = "send" \/ Receiving(s)
        /\ s.n < 8 \/ s.n = 8 \/ s.n = 9
    BY <1>1 DEF Modes, Receiving
  <2> QED
    BY <2>1, <2>2, <2>3, <2>4, <2>5, <2>6, <2>7
<1>6. ASSUME NEW from, NEW to PROVE Edge(s, from, to) \in SlaveType
  <2> DEFINE r == [s EXCEPT !.mode = "address", !.n = 0, !.byte = 0, !.low = FALSE]
  <2>1. Edge(s, from, to) = s \/ Edge(s, from, to) = Quit(s) \/ Edge(s, from, to) = r
    BY DEF Edge
  <2>2. "address" \in Modes /\ 0 \in 0..9 /\ 0 \in 0..255 /\ FALSE \in BOOLEAN
    BY <1>1
  <2>3. r \in SlaveType
    BY <2>2, SetModeNByteLow, Zenon
  <2> HIDE DEF r
  <2> QED
    BY <1>3, <2>1, <2>3
<1> QED
  BY <1>3, <1>4, <1>5, <1>6

(* No operation takes the pins, or the chip, out of their types. *)
LEMMA PinTypes ==
  ASSUME PinsOK, mem \in [Addrs -> Values], NEW p \in PinOps, Moves(p), winner' = winner
  PROVE  PinsOK'
<1>1. sda \in {0, 1} /\ slave \in SlaveType
  BY DEF PinsOK, SlaveType, sda, Level
<1>2. Fetches(slave) => mem[slave.ptr] \in 0..255
  <2>1. ASSUME NEW a \in Addrs PROVE mem[a] \in 0..255
    <3>1. mem[a] \in Values
      OBVIOUS
    <3>2. Values \subseteq 0..255
      BY AddressFacts
    <3> QED
      BY <3>1, <3>2
  <2> QED
    BY <2>1 DEF Fetches
<1>3. Rise(slave) \in SlaveType /\ Fall(slave) \in SlaveType
  BY <1>1, <1>2, SlaveTypes
<1>4. CASE p = "scl1"
  BY <1>3, <1>4 DEF PinsOK, Moves, Rises
<1>5. CASE p = "scl0"
  BY <1>3, <1>5 DEF PinsOK, Moves, Falls
<1>6. ASSUME NEW l \in {0, 1}, NEW o \in BOOLEAN, Drives(l, o)
      PROVE  PinsOK'
  <2>1. \A from, to : Edge(slave, from, to) \in SlaveType
    BY <1>1, SlaveTypes
  <2> QED
    BY <1>6, <2>1 DEF PinsOK, Drives
<1>7. CASE p = "sample"
  <2>1. (2 * rx + sda) % 256 \in 0..255
    BY <1>1 DEF PinsOK
  <2> QED
    BY <2>1, <1>7 DEF PinsOK, Moves, Samples, pins
<1> QED
  BY <1>4, <1>5, <1>6, <1>7 DEF PinOps, Moves, PinsOK
-----------------------------------------------------------------------------
(* The functions of the driver, operation by operation. *)
Good == PinsOK /\ served \in BOOLEAN /\ mem \in [Addrs -> Values]

LEMMA MoveIs ==
  ASSUME NEW p, Moves(p)
  PROVE  /\ p = "scl1" => Rises
         /\ p = "scl0" => Falls
         /\ p = "sdaOut" => Drives(latch, TRUE)
         /\ p = "sdaIn" => Drives(latch, FALSE)
         /\ p = "sda0" => Drives(0, out)
         /\ p = "sda1" => Drives(1, out)
         /\ p = "sample" => Samples
BY DEF Moves

LEMMA SendOps ==
  ASSUME NEW b, NEW i
  PROVE  /\ SendBit(Bit(b, i))[0 + 1] = "scl0" /\ SendBit(Bit(b, i))[1 + 1] = "sdaOut"
         /\ SendBit(Bit(b, i))[2 + 1] = Sda(Bit(b, i))
         /\ SendBit(Bit(b, i))[3 + 1] = "scl1" /\ SendBit(Bit(b, i))[4 + 1] = "scl0"
BY DEF SendBit

(* The chip reacts to nothing but its clock while it hears a byte. *)
LEMMA HearFalls ==
  ASSUME Good, NEW m \in {"off", "address", "pointer", "data"}, NEW b, NEW n \in 0..7,
         Hears(m, b, n), Falls
  PROVE  slave' = slave /\ mem' = mem /\ served' = served /\ Quiet
<1>1. slave \in SlaveType
  BY DEF Good, PinsOK
<1>2. slave.mode = "off" \/ (Receiving(slave) /\ slave.n < 8)
  BY DEF Hears, Deaf, Receiving
<1>3. ~Stores(slave) /\ ~Fetches(slave)
  BY <1>2 DEF Stores, Fetches, Receiving
<1>4. Fall(slave) = slave
  BY <1>1, <1>2, <1>3, FallIs, Zenon
<1> QED
  BY <1>3, <1>4 DEF Falls, Quiet, Good

LEMMA HearRises ==
  ASSUME Good, NEW m \in {"off", "address", "pointer", "data"}, NEW b \in 0..255,
         NEW i \in 0..7, Hears(m, b, i), scl = 0, out, latch = Bit(b, i), Rises
  PROVE  Hears(m, b, i + 1)' /\ Quiet
<1>1. slave \in SlaveType /\ TopAt(b, i)
  BY TopStep, Zenon DEF Good, PinsOK
<1>2. CASE m = "off"
  <2>1. Rise(slave) = slave
    BY <1>1, <1>2, RiseIs DEF Hears, Deaf, Receiving
  <2> QED
    BY <1>2, <2>1 DEF Hears, Deaf, Quiet, Rises
<1>3. CASE m # "off"
  <2>1. slave.mode = m /\ slave.n = i /\ slave.byte = Top(b, i) /\ ~slave.low
    BY <1>3 DEF Hears
  <2>2. sda = Bit(b, i)
    BY <2>1 DEF sda, Level
  <2>3. Receiving(slave) /\ slave.n < 8
    BY <1>3, <2>1 DEF Receiving
  <2>4. SlaveIs(Rise(slave), slave.mode, slave.n + 1, (2 * slave.byte + sda) % 256,
                slave.low, slave.ptr)
    BY <1>1, <2>3, RiseIs
  <2>5. SlaveIs(slave', m, i + 1, Top(b, i + 1), FALSE, slave.ptr)
    BY <1>1, <2>1, <2>2, <2>4 DEF Rises, SlaveIs, TopAt, SlaveType
  <2> QED
    BY <1>3, <2>5 DEF Hears, Quiet, Rises, SlaveIs
<1> QED
  BY <1>2, <1>3

(* What the last clock of a byte does: the chip acknowledges, unless it is *)
(* not addressed, and stores a byte for a register.                        *)
Sent(m, b) ==
  /\ Ack(IF m = "address" /\ b \notin {Chip, Chip + 1} THEN "off" ELSE m, b, 0)'
  /\ out' = out /\ rx' = rx
  /\ slave'.ptr = IF m = "pointer" THEN b ELSE slave.ptr
  /\ IF m = "data" /\ slave.ptr \in Addrs
     THEN mem' = [mem EXCEPT ![slave.ptr] = b] /\ served'
     ELSE mem' = mem /\ served' = served

LEMMA LastFall ==
  ASSUME Good, NEW m \in {"off", "address", "pointer", "data"}, NEW b \in 0..255,
         Hears(m, b, 8), scl = 1, Falls
  PROVE  Sent(m, b)
<1>1. slave \in SlaveType /\ Top(b, 8) = b
  BY TopStep, Zenon DEF Good, PinsOK
<1>2. scl' = 0 /\ out' = out /\ rx' = rx /\ slave' = Fall(slave)
  BY DEF Falls
<1>3. CASE m = "off"
  <2>1. ~Stores(slave) /\ ~Fetches(slave) /\ slave.mode = "off" /\ ~slave.low
    BY <1>3 DEF Hears, Deaf, Stores, Fetches
  <2>2. Fall(slave) = slave
    BY <1>1, <2>1, FallIs
  <2> QED
    BY <1>2, <1>3, <2>1, <2>2 DEF Sent, Ack, Acks, Deaf, Falls, Good
<1>4. CASE m # "off"
  <2>1. slave.mode = m /\ slave.n = 8 /\ slave.byte = b /\ ~slave.low
    BY <1>1, <1>4 DEF Hears
  <2>2. ~Fetches(slave) /\ Receiving(slave)
        /\ (Stores(slave) <=> m = "data" /\ slave.ptr \in Addrs)
    BY <1>4, <2>1 DEF Fetches, Receiving, Stores
  <2>3. IF m = "address" /\ b \notin {Chip, Chip + 1}
        THEN Fall(slave) = Quit(slave)
        ELSE SlaveIs(Fall(slave), m, 9, b, TRUE,
                     IF m = "pointer" THEN b ELSE slave.ptr)
    BY <1>1, <2>1, <2>2, FallIs
  <2>4. SlaveIs(Quit(slave), "off", slave.n, slave.byte, FALSE, slave.ptr)
    BY <1>1, QuitIs
  <2>5. /\ Ack(IF m = "address" /\ b \notin {Chip, Chip + 1} THEN "off" ELSE m, b, 0)'
        /\ slave'.ptr = IF m = "pointer" THEN b ELSE slave.ptr
    BY <1>2, <1>4, <2>3, <2>4 DEF Ack, Acks, Deaf, SlaveIs
  <2> QED
    BY <1>2, <2>1, <2>2, <2>5 DEF Sent, Falls, Good
<1> QED
  BY <1>3, <1>4

(* i2c_send_byte, one operation: the chip hears one bit more or nothing. *)
LEMMA SendStep ==
  ASSUME Good, NEW m \in {"off", "address", "pointer", "data"}, NEW b \in 0..255,
         NEW i \in 0..7, NEW j \in 0..4, Send(m, b, i, j),
         Moves(SendBit(Bit(b, i))[j + 1])
  PROVE  /\ j < 4 => Send(m, b, i, j + 1)' /\ Quiet
         /\ j = 4 /\ i < 7 => Send(m, b, i + 1, 0)' /\ Quiet
         /\ j = 4 /\ i = 7 => Sent(m, b) /\ out
<1>1. slave \in SlaveType /\ TopAt(b, i)
  BY TopStep, Zenon DEF Good, PinsOK
<1>2. CASE j = 0
  <2>1. Falls /\ Hears(m, b, i)
    BY <1>2, SendOps DEF Moves, Send
  <2>2. slave' = slave /\ Quiet
    BY <2>1, HearFalls
  <2>3. scl' = 0 /\ out' = out
    BY <2>1 DEF Falls
  <2>4. Hears(m, b, i)'
    BY <2>1, <2>2 DEF Hears, Deaf
  <2> QED
    BY <1>2, <2>2, <2>3, <2>4 DEF Send
<1>3. CASE j = 1
  <2>1. Drives(latch, TRUE) /\ Hears(m, b, i) /\ scl = 0
    <3>1. SendBit(Bit(b, i))[j + 1] = "sdaOut"
      BY <1>3, SendOps
    <3> QED
      <4>1. Drives(latch, TRUE)
        BY <3>1, MoveIs
      <4>2. Hears(m, b, i) /\ scl = 0
        BY <1>3 DEF Send
      <4> QED
        BY <4>1, <4>2
  <2>2. slave' = slave /\ Quiet /\ out' /\ scl' = 0
    BY <2>1 DEF Drives, Quiet
  <2>3. Hears(m, b, i)'
    BY <2>1, <2>2 DEF Hears, Deaf
  <2> QED
    BY <1>3, <2>2, <2>3 DEF Send
<1>4. CASE j = 2
  <2>1. Drives(Bit(b, i), out) /\ Hears(m, b, i) /\ scl = 0 /\ out
    <3>1. SendBit(Bit(b, i))[j + 1] = Sda(Bit(b, i))
      BY <1>4, SendOps
    <3>2. \/ Bit(b, i) = 0 /\ SendBit(Bit(b, i))[j + 1] = "sda0"
          \/ Bit(b, i) = 1 /\ SendBit(Bit(b, i))[j + 1] = "sda1"
      BY <1>1, <3>1 DEF TopAt, Sda
    <3>3. Drives(Bit(b, i), out)
      BY <3>2, MoveIs
    <3> QED
      BY <1>4, <3>3 DEF Send
  <2>2. slave' = slave /\ Quiet /\ out' /\ scl' = 0 /\ latch' = Bit(b, i)
    BY <2>1 DEF Drives, Quiet
  <2>3. Hears(m, b, i)'
    BY <2>1, <2>2 DEF Hears, Deaf
  <2> QED
    BY <1>4, <2>2, <2>3 DEF Send
<1>5. CASE j = 3
  <2>1. Rises /\ Hears(m, b, i) /\ scl = 0 /\ out /\ latch = Bit(b, i)
    BY <1>5, SendOps DEF Moves, Send
  <2>2. Hears(m, b, i + 1)' /\ Quiet
    BY <2>1, HearRises, Zenon
  <2>3. scl' = 1 /\ out' /\ latch' = Bit(b, i)
    BY <2>1 DEF Rises
  <2> QED
    BY <1>5, <2>2, <2>3 DEF Send
<1>6. CASE j = 4
  <2>1. Falls /\ Hears(m, b, i + 1) /\ scl = 1 /\ out
    BY <1>6, SendOps DEF Moves, Send
  <2>2. scl' = 0 /\ out'
    BY <2>1 DEF Falls
  <2>3. CASE i < 7
    <3>1. slave' = slave /\ Quiet
      BY <2>1, <2>3, HearFalls
    <3>2. Hears(m, b, i + 1)'
      BY <2>1, <3>1 DEF Hears, Deaf
    <3> QED
      BY <1>6, <2>2, <2>3, <3>1, <3>2 DEF Send
  <2>4. CASE i = 7
    <3>1. Hears(m, b, 8)
      BY <2>1, <2>4
    <3> QED
      BY <1>6, <2>1, <2>4, <3>1, LastFall
  <2> QED
    BY <2>3, <2>4
<1> QED
  BY <1>2, <1>3, <1>4, <1>5, <1>6
(* A change of the pin while SCL is low, or to the level it has, is not    *)
(* seen by the chip.                                                       *)
LEMMA Unseen ==
  ASSUME Good, NEW l \in {0, 1}, NEW o \in BOOLEAN, Drives(l, o),
         scl = 0 \/ sda = Level(l, o, slave.low)
  PROVE  slave' = slave /\ scl' = scl /\ latch' = l /\ out' = o /\ Quiet
BY DEF Drives, Edge, Quiet

LEMMA AckOps ==
  /\ i2c_receive_ack[0 + 1] = "sdaIn" /\ i2c_receive_ack[1 + 1] = "scl0"
  /\ i2c_receive_ack[2 + 1] = "scl1" /\ i2c_receive_ack[3 + 1] = "sdaIn"
  /\ i2c_receive_ack[4 + 1] = "scl0"
BY DEF i2c_receive_ack

(* What the end of the acknowledge bit does: the chip fetches the byte of  *)
(* its register, or goes on to the next byte it is to hear.                *)
Acked(m, b) ==
  /\ scl' = 0 /\ ~out' /\ rx' = rx /\ mem' = mem /\ slave'.ptr = slave.ptr
  /\ IF m = "address" /\ b = Chip + 1
     THEN Shows("send", mem[slave.ptr], 0)' /\ served'
     ELSE /\ served' = served
          /\ \A c \in 0..255 :
               Hears(CASE m = "off" -> "off" [] m = "address" -> "pointer"
                       [] m = "pointer" -> "data", c, 0)'

LEMMA AckEnd ==
  ASSUME Good, NEW m \in {"off", "address", "pointer"}, NEW b \in 0..255,
         m = "address" /\ b = Chip + 1 => slave.ptr \in Addrs,
         Acks(m, b), scl = 1, ~out, Falls
  PROVE  Acked(m, b)
<1>1. slave \in SlaveType /\ served \in BOOLEAN
  BY DEF Good, PinsOK
<1>2. scl' = 0 /\ ~out' /\ rx' = rx /\ slave' = Fall(slave)
  BY DEF Falls, Good, PinsOK
<1>3. \A c \in 0..255 : Top(c, 0) = 0
  BY TopStep, Zenon
<1>4. ~Stores(slave)
  BY DEF Acks, Deaf, Stores
<1>5. CASE m = "off"
  <2>1. slave.mode = "off" /\ ~slave.low /\ ~Fetches(slave)
    BY <1>5 DEF Acks, Deaf, Fetches
  <2>2. Fall(slave) = slave
    BY <1>1, <2>1, FallIs
  <2> QED
    BY <1>1, <1>2, <1>4, <1>5, <2>1, <2>2 DEF Acked, Falls, Hears, Deaf
<1>6. CASE m = "address" /\ b = Chip + 1
  <2>1. Fetches(slave) /\ slave.ptr \in Addrs
    BY <1>6 DEF Acks, Fetches
  <2>2. mem[slave.ptr] \in 0..255
    <3>1. mem[slave.ptr] \in Values
      BY <2>1 DEF Good
    <3>2. Values \subseteq 0..255
      BY AddressFacts
    <3> QED
      BY <3>1, <3>2
  <2>3. SlaveIs(Fall(slave), "send", 1, mem[slave.ptr], Bit(mem[slave.ptr], 0) = 0,
                slave.ptr)
    BY <1>1, <2>1, <2>2, FallIs
  <2>4. mem' = mem /\ served'
    BY <1>4, <2>1 DEF Falls
  <2> QED
    BY <1>2, <1>6, <2>3, <2>4 DEF Acked, Shows, SlaveIs
<1>7. CASE m \in {"address", "pointer"} /\ ~(m = "address" /\ b = Chip + 1)
  <2>1. /\ slave.mode = m /\ slave.n = 9 /\ slave.byte = b
        /\ Receiving(slave) /\ ~Fetches(slave)
    BY <1>7 DEF Acks, Fetches, Receiving
  <2>2. SlaveIs(Fall(slave), IF m = "address" THEN "pointer" ELSE "data",
                0, 0, FALSE, slave.ptr)
    BY <1>1, <2>1, FallIs
  <2>3. mem' = mem /\ served' = served
    BY <1>1, <1>4, <2>1 DEF Falls
  <2> QED
    BY <1>2, <1>3, <1>7, <2>2, <2>3 DEF Acked, Hears, SlaveIs
<1> QED
  BY <1>5, <1>6, <1>7

(* i2c_receive_ack, one operation. *)
LEMMA AckStep ==
  ASSUME Good, NEW m \in {"off", "address", "pointer"}, NEW b \in 0..255,
         m = "address" /\ b = Chip + 1 => slave.ptr \in Addrs,
         NEW j \in 0..4, Ack(m, b, j), Moves(i2c_receive_ack[j + 1])
  PROVE  /\ j < 4 => Ack(m, b, j + 1)' /\ Quiet
         /\ j = 4 => Acked(m, b)
<1>1. slave \in SlaveType /\ latch \in {0, 1} /\ out \in BOOLEAN /\ scl \in {0, 1}
  BY DEF Good, PinsOK
<1>2. Acks(m, b)
  BY DEF Ack
<1>3. slave' = slave => Acks(m, b)'
  BY <1>2 DEF Acks, Deaf
<1>4. CASE j = 0
  <2>1. Drives(latch, FALSE)
    BY <1>4, AckOps, MoveIs
  <2>2. scl = 0
    BY <1>4 DEF Ack
  <2>3. slave' = slave /\ scl' = 0 /\ out' = FALSE /\ Quiet
    BY <1>1, <2>1, <2>2, Unseen
  <2> QED
    BY <1>3, <1>4, <2>3 DEF Ack
<1>5. CASE j = 1
  <2>1. Falls
    BY <1>5, AckOps, MoveIs
  <2>2. scl = 0 /\ ~out
    BY <1>5 DEF Ack
  <2>3. slave' = slave /\ scl' = 0 /\ out' = out /\ Quiet
    BY <2>1, <2>2 DEF Falls, Quiet, Good
  <2> QED
    BY <1>3, <1>5, <2>2, <2>3 DEF Ack
<1>6. CASE j = 2
  <2>1. Rises
    BY <1>6, AckOps, MoveIs
  <2>2. scl = 0 /\ ~out
    BY <1>6 DEF Ack
  <2>3. Rise(slave) = slave
    BY <1>1, <1>2, RiseIs DEF Acks, Deaf, Receiving
  <2>4. slave' = slave /\ scl' = 1 /\ out' = out /\ Quiet
    BY <2>1, <2>2, <2>3 DEF Rises, Quiet
  <2> QED
    BY <1>3, <1>6, <2>2, <2>4 DEF Ack
<1>7. CASE j = 3
  <2>1. Drives(latch, FALSE)
    BY <1>7, AckOps, MoveIs
  <2>2. scl = 1 /\ ~out
    BY <1>7 DEF Ack
  <2>3. sda = Level(latch, FALSE, slave.low)
    BY <2>2 DEF sda, Level
  <2>4. slave' = slave /\ scl' = 1 /\ out' = FALSE /\ Quiet
    BY <1>1, <2>1, <2>2, <2>3, Unseen
  <2> QED
    BY <1>3, <1>7, <2>4 DEF Ack
<1>8. CASE j = 4
  <2>1. Falls
    BY <1>8, AckOps, MoveIs
  <2>2. scl = 1 /\ ~out
    BY <1>8 DEF Ack
  <2> QED
    BY <1>2, <1>8, <2>1, <2>2, AckEnd
<1> QED
  BY <1>4, <1>5, <1>6, <1>7, <1>8

LEMMA StartOps ==
  /\ i2c_start_bit[0 + 1] = "scl1" /\ i2c_start_bit[1 + 1] = "sdaOut"
  /\ i2c_start_bit[2 + 1] = "sda1" /\ i2c_start_bit[3 + 1] = "sdaOut"
  /\ i2c_start_bit[4 + 1] = "sda0"
BY DEF i2c_start_bit

(* A start condition, whatever the chip made of the lines before: at its   *)
(* end the chip waits for an address.                                      *)
LEMMA StartStep ==
  ASSUME Good, NEW j \in 0..4, Start(j), Moves(i2c_start_bit[j + 1])
  PROVE  /\ Quiet
         /\ j < 4 => Start(j + 1)'
         /\ j = 4 => scl' = 1 /\ out' /\ \A b \in 0..255 : Hears("address", b, 0)'
<1>1. slave \in SlaveType /\ latch \in {0, 1} /\ out \in BOOLEAN /\ scl \in {0, 1}
      /\ sda \in {0, 1} /\ slave.low = FALSE
  BY DEF Good, PinsOK, SlaveType, sda, Level, Start
<1>2. SlaveIs(Quit(slave), "off", slave.n, slave.byte, FALSE, slave.ptr)
  BY <1>1, QuitIs
<1>3. ASSUME NEW l \in {0, 1}, NEW o \in BOOLEAN, Drives(l, o)
      PROVE  Quiet /\ ~slave.low' /\ scl' = scl /\ latch' = l /\ out' = o
  <2>1. Level(l, o, slave.low) \in {0, 1}
    BY <1>1 DEF Level, Good, PinsOK
  <2>2. Edge(slave, sda, Level(l, o, slave.low)).low = FALSE
        /\ Edge(slave, sda, Level(l, o, slave.low)).ptr = slave.ptr
    <3> DEFINE to == Level(l, o, slave.low)
    <3>1. /\ sda = to => Edge(slave, sda, to) = slave
          /\ sda = 1 /\ to = 0 => SlaveIs(Edge(slave, sda, to), "address", 0, 0, FALSE, slave.ptr)
          /\ sda = 0 /\ to = 1 => Edge(slave, sda, to) = Quit(slave)
      BY <1>1, <2>1, EdgeIs
    <3> HIDE DEF to
    <3> QED
      BY <1>1, <1>2, <2>1, <3>1 DEF SlaveIs, to
  <2> QED
    BY <1>1, <1>3, <2>2 DEF Drives, Quiet
<1>4. CASE j = 0
  <2>1. Rises
    BY <1>4, StartOps, MoveIs
  <2>2. Rise(slave).low = FALSE /\ Rise(slave).ptr = slave.ptr
    BY <1>1, <1>2, RiseIs DEF SlaveIs
  <2>3. scl' = 1 /\ ~slave.low' /\ Quiet
    BY <1>1, <2>1, <2>2 DEF Rises, Quiet
  <2> QED
    BY <1>4, <2>3 DEF Start
<1>5. CASE j = 1
  <2>1. Drives(latch, TRUE)
    BY <1>5, StartOps, MoveIs
  <2>2. Quiet /\ ~slave.low' /\ scl' = scl /\ out' = TRUE
    BY <1>1, <1>3, <2>1
  <2> QED
    BY <1>5, <2>2 DEF Start
<1>6. CASE j = 2
  <2>1. Drives(1, out)
    BY <1>6, StartOps, MoveIs
  <2>2. Quiet /\ ~slave.low' /\ scl' = scl /\ out' = out /\ latch' = 1
    BY <1>1, <1>3, <2>1
  <2> QED
    BY <1>6, <2>2 DEF Start
<1>7. CASE j = 3
  <2>1. Drives(latch, TRUE)
    BY <1>7, StartOps, MoveIs
  <2>2. Quiet /\ ~slave.low' /\ scl' = scl /\ out' = TRUE /\ latch' = latch
    BY <1>1, <1>3, <2>1
  <2> QED
    BY <1>7, <2>2 DEF Start
<1>8. CASE j = 4
  <2>1. Drives(0, out)
    BY <1>8, StartOps, MoveIs
  <2>2. Quiet /\ scl' = scl /\ out' = out /\ scl = 1 /\ out /\ latch = 1
    <3>1. scl = 1 /\ out /\ latch = 1
      BY <1>8 DEF Start
    <3>2. 0 \in {0, 1}
      OBVIOUS
    <3>3. Quiet /\ scl' = scl /\ out' = out
      BY <1>1, <1>3, <2>1, <3>2
    <3> QED
      BY <3>1, <3>3
  <2>3. sda = 1 /\ Level(0, out, slave.low) = 0
    BY <1>1, <2>2 DEF sda, Level
  <2>4. SlaveIs(slave', "address", 0, 0, FALSE, slave.ptr)
    <3>1. slave' = Edge(slave, 1, 0)
      BY <2>1, <2>2, <2>3, Zenon DEF Drives
    <3> QED
      BY <1>1, <3>1, EdgeIs
  <2>5. \A b \in 0..255 : Hears("address", b, 0)'
    BY <2>4, TopStep, Zenon DEF Hears, SlaveIs
  <2> QED
    BY <1>8, <2>2, <2>5
<1> QED
  BY <1>4, <1>5, <1>6, <1>7, <1>8

LEMMA FetchBitOps ==
  /\ ReceiveBit[0 + 1] = "scl0" /\ ReceiveBit[1 + 1] = "scl1"
  /\ ReceiveBit[2 + 1] = "sdaIn" /\ ReceiveBit[3 + 1] = "sample"
  /\ ReceiveBit[4 + 1] = "scl0"
BY DEF ReceiveBit

(* Without the chip the byte is all ones. *)
AllOnes(m, x) == m = "off" => x = 255

(* A step of the second half of a read: nothing is stored any more. *)
Settled == mem' = mem /\ served' = served

(* What the chip puts out is what SDA carries. *)
LEMMA ShowsSda ==
  ASSUME Good, NEW m \in {"off", "send"}, NEW x \in 0..255, AllOnes(m, x),
         NEW i \in 0..7, Shows(m, x, i), ~out
  PROVE  sda = Bit(x, i)
<1>1. TopAt(x, i)
  BY TopStep, Zenon
<1>5. Bit(255, i) = 1
  BY Ones
<1>2. sda = IF slave.low THEN 0 ELSE 1
  BY DEF sda, Level
<1>3. CASE m = "send"
  BY <1>1, <1>2, <1>3 DEF Shows, TopAt
<1>4. CASE m = "off"
  BY <1>5, <1>2, <1>4 DEF Shows, Deaf, AllOnes
<1> QED
  BY <1>3, <1>4

(* The chip puts its next bit out when SCL falls. *)
LEMMA ShowsFalls ==
  ASSUME Good, NEW m \in {"off", "send"}, NEW x \in 0..255, NEW i \in 0..7,
         Shows(m, x, i), scl = 1, Falls
  PROVE  Shows(m, x, i + 1)' /\ Settled
<1>1. slave \in SlaveType /\ served \in BOOLEAN
  BY DEF Good, PinsOK
<1>2. ~Stores(slave) /\ ~Fetches(slave)
  BY DEF Shows, Deaf, Stores, Fetches
<1>3. slave' = Fall(slave) /\ Settled
  BY <1>1, <1>2 DEF Falls, Settled
<1>4. CASE m = "off"
  <2>1. slave.mode = "off" /\ ~slave.low
    BY <1>4 DEF Shows, Deaf
  <2>2. Fall(slave) = slave
    BY <1>1, <1>2, <2>1, FallIs
  <2> QED
    BY <1>3, <1>4, <2>1, <2>2 DEF Shows, Deaf
<1>5. CASE m = "send" /\ i < 7
  <2>1. slave.mode = "send" /\ slave.n = i + 1 /\ slave.byte = x
    BY <1>5 DEF Shows
  <2>2. SlaveIs(Fall(slave), "send", slave.n + 1, slave.byte,
                Bit(slave.byte, slave.n) = 0, slave.ptr)
    <3>1. slave.mode = "send" /\ slave.n < 8
      BY <1>5, <2>1
    <3> QED
      BY <1>1, <1>2, <3>1, FallIs
  <2> QED
    BY <1>3, <1>5, <2>1, <2>2 DEF Shows, SlaveIs
<1>6. CASE m = "send" /\ i = 7
  <2>1. slave.mode = "send" /\ slave.n = 8 /\ slave.byte = x
    BY <1>6 DEF Shows
  <2>2. SlaveIs(Fall(slave), "send", 9, slave.byte, FALSE, slave.ptr)
    BY <1>1, <1>2, <2>1, FallIs, Zenon
  <2> QED
    BY <1>3, <1>6, <2>1, <2>2 DEF Shows, SlaveIs
<1> QED
  BY <1>4, <1>5, <1>6

(* i2c_receive_byte, one operation: one bit more of the byte is in rx. *)
LEMMA FetchStep ==
  ASSUME Good, NEW m \in {"off", "send"}, NEW x \in 0..255, AllOnes(m, x),
         NEW i \in 0..7, NEW j \in 0..4, Fetch(m, x, i, j), Moves(ReceiveBit[j + 1])
  PROVE  /\ Settled
         /\ j < 4 => Fetch(m, x, i, j + 1)'
         /\ j = 4 /\ i < 7 => Fetch(m, x, i + 1, 0)'
         /\ j = 4 /\ i = 7 => StopRead(m, x, 0)'
<1>1. slave \in SlaveType /\ latch \in {0, 1} /\ out \in BOOLEAN /\ scl \in {0, 1}
      /\ served \in BOOLEAN
  BY DEF Good, PinsOK
<1>2. Shows(m, x, i) /\ ~out /\ TopAt(x, i) /\ Top(x, 8) = x
  BY TopStep, Zenon DEF Fetch
<1>3. slave' = slave => Shows(m, x, i)'
  BY <1>2 DEF Shows, Deaf
<1>4. CASE j = 0
  <2>1. Falls
    BY <1>4, FetchBitOps, MoveIs
  <2>2. scl = 0 /\ rx = Top(x, i)
    BY <1>4 DEF Fetch
  <2>3. slave' = slave /\ scl' = 0 /\ ~out' /\ rx' = Top(x, i) /\ Settled
    BY <1>1, <1>2, <2>1, <2>2 DEF Falls, Settled
  <2> QED
    BY <1>3, <1>4, <2>3 DEF Fetch
<1>5. CASE j = 1
  <2>1. Rises
    BY <1>5, FetchBitOps, MoveIs
  <2>2. scl = 0 /\ rx = Top(x, i)
    BY <1>5 DEF Fetch
  <2>3. ~Receiving(slave) /\ ~(slave.mode = "send" /\ slave.n = 9)
    BY <1>2 DEF Shows, Deaf, Receiving
  <2>4. Rise(slave) = slave
    BY <1>1, <2>3, RiseIs
  <2>5. slave' = slave /\ scl' = 1 /\ ~out' /\ rx' = Top(x, i) /\ Settled
    BY <1>2, <2>1, <2>2, <2>4 DEF Rises, Settled
  <2> QED
    BY <1>3, <1>5, <2>5 DEF Fetch
<1>6. CASE j = 2
  <2>1. Drives(latch, FALSE)
    BY <1>6, FetchBitOps, MoveIs
  <2>2. scl = 1 /\ rx = Top(x, i)
    BY <1>6 DEF Fetch
  <2>3. sda = Level(latch, FALSE, slave.low)
    BY <1>2 DEF sda, Level
  <2>4. slave' = slave /\ scl' = 1 /\ out' = FALSE /\ Quiet
    <3>1. FALSE \in BOOLEAN
      OBVIOUS
    <3>2. slave' = slave /\ scl' = scl /\ out' = FALSE /\ Quiet
      BY <1>1, <2>1, <2>3, <3>1, Unseen
    <3> QED
      BY <2>2, <3>2
  <2> QED
    BY <1>3, <1>6, <2>2, <2>4 DEF Fetch, Quiet, Settled
<1>7. CASE j = 3
  <2>1. Samples
    BY <1>7, FetchBitOps, MoveIs
  <2>2. scl = 1 /\ rx = Top(x, i)
    BY <1>7 DEF Fetch
  <2>3. sda = Bit(x, i)
    BY <1>2, ShowsSda
  <2>4. rx' = Top(x, i + 1)
    BY <1>2, <2>1, <2>2, <2>3 DEF Samples, TopAt
  <2>5. slave' = slave /\ scl' = 1 /\ ~out' /\ Settled
    BY <1>2, <2>1, <2>2 DEF Samples, Settled, pins
  <2> QED
    BY <1>3, <1>7, <2>4, <2>5 DEF Fetch
<1>8. CASE j = 4
  <2>1. Falls
    BY <1>8, FetchBitOps, MoveIs
  <2>2. scl = 1 /\ rx = Top(x, i + 1)
    BY <1>8 DEF Fetch
  <2>3. Shows(m, x, i + 1)' /\ Settled
    BY <1>2, <2>1, <2>2, ShowsFalls
  <2>4. scl' = 0 /\ out' = FALSE /\ rx' = Top(x, i + 1)
    BY <1>1, <1>2, <2>1, <2>2 DEF Falls
  <2>5. CASE i < 7
    BY <1>8, <2>3, <2>4, <2>5 DEF Fetch
  <2>6. CASE i = 7
    <3>1. Shows(m, x, 8)' /\ rx' = x
      BY <1>2, <2>3, <2>4, <2>6
    <3>2. m # "off" => slave'.byte = x
      BY <3>1 DEF Shows
    <3> QED
      BY <1>8, <2>3, <2>4, <2>6, <3>1, <3>2 DEF StopRead
  <2> QED
    BY <2>5, <2>6
<1> QED
  BY <1>4, <1>5, <1>6, <1>7, <1>8

LEMMA StopOps ==
  /\ i2c_stop_bit[0 + 1] = "scl1" /\ i2c_stop_bit[1 + 1] = "scl0"
  /\ i2c_stop_bit[2 + 1] = "sdaOut" /\ i2c_stop_bit[3 + 1] = "sda0"
  /\ i2c_stop_bit[4 + 1] = "scl1" /\ i2c_stop_bit[5 + 1] = "sdaOut"
  /\ i2c_stop_bit[6 + 1] = "sda1"
BY DEF i2c_stop_bit

(* The stop condition after a read: its first clock is the acknowledge     *)
(* that the master does not give, which ends the chip's transfer.          *)
LEMMA StopReadStep ==
  ASSUME Good, NEW m \in {"off", "send"}, NEW x \in 0..255, NEW j \in 0..6,
         StopRead(m, x, j), Moves(i2c_stop_bit[j + 1])
  PROVE  /\ Settled
         /\ j < 6 => StopRead(m, x, j + 1)'
         /\ j = 6 => Free' /\ rx' = x /\ (m # "off" => slave'.byte = x)
<1>1. slave \in SlaveType /\ latch \in {0, 1} /\ out \in BOOLEAN /\ served \in BOOLEAN
  BY DEF Good, PinsOK
<1>2. rx = x /\ (m # "off" => slave.byte = x)
  BY DEF StopRead
<1>3. SlaveIs(Quit(slave), "off", slave.n, slave.byte, FALSE, slave.ptr)
  BY <1>1, QuitIs
<1>4. CASE j = 0
  <2>1. Rises
    BY <1>4, StopOps, MoveIs
  <2>2. scl = 0 /\ ~out /\ Shows(m, x, 8)
    BY <1>4 DEF StopRead
  <2>3. sda = 1
    BY <2>2 DEF sda, Level, Shows, Deaf
  <2>4. CASE m = "send"
    <3>1. Rise(slave) = Quit(slave)
      BY <1>1, <2>2, <2>3, <2>4, RiseIs DEF Shows
    <3> QED
      BY <1>2, <1>3, <1>4, <2>1, <2>2, <2>4, <3>1
         DEF Rises, SlaveIs, StopRead, Deaf, Settled
  <2>5. CASE m = "off"
    <3>1. Rise(slave) = slave
      BY <1>1, <2>2, <2>5, RiseIs DEF Shows, Deaf, Receiving
    <3> QED
      BY <1>2, <1>4, <2>1, <2>2, <2>5, <3>1
         DEF Rises, Shows, StopRead, Deaf, Settled
  <2> QED
    BY <2>4, <2>5
<1>5. j > 0 => slave.mode = "off" /\ ~slave.low /\ Deaf
  BY DEF StopRead, Deaf
<1>6. CASE j = 1
  <2>1. Falls
    BY <1>6, StopOps, MoveIs
  <2>2. scl = 1 /\ ~out
    BY <1>6 DEF StopRead
  <2>3. Fall(slave) = slave /\ ~Stores(slave) /\ ~Fetches(slave)
    <3>1. ~Stores(slave) /\ ~Fetches(slave)
      BY <1>5, <1>6 DEF Stores, Fetches
    <3>2. slave.mode = "off"
      BY <1>5, <1>6
    <3> QED
      BY <1>1, <3>1, <3>2, FallIs
  <2> QED
    BY <1>1, <1>2, <1>5, <1>6, <2>1, <2>2, <2>3 DEF Falls, StopRead, Deaf, Settled
<1>7. CASE j = 2
  <2>1. Drives(latch, TRUE)
    BY <1>7, StopOps, MoveIs
  <2>2. scl = 0
    BY <1>7 DEF StopRead
  <2>3. slave' = slave /\ scl' = scl /\ out' = TRUE /\ Quiet
    BY <1>1, <2>1, <2>2, Unseen
  <2> QED
    BY <1>2, <1>5, <1>7, <2>2, <2>3 DEF StopRead, Deaf, Quiet, Settled
<1>8. CASE j = 3
  <2>1. Drives(0, out)
    BY <1>8, StopOps, MoveIs
  <2>2. scl = 0 /\ out /\ 0 \in {0, 1}
    BY <1>8 DEF StopRead
  <2>3. slave' = slave /\ scl' = scl /\ out' = out /\ latch' = 0 /\ Quiet
    BY <1>1, <2>1, <2>2, Unseen
  <2> QED
    BY <1>2, <1>5, <1>8, <2>2, <2>3 DEF StopRead, Deaf, Quiet, Settled
<1>9. CASE j = 4
  <2>1. Rises
    BY <1>9, StopOps, MoveIs
  <2>2. scl = 0 /\ out /\ latch = 0
    BY <1>9 DEF StopRead
  <2>3. Rise(slave) = slave
    BY <1>1, <1>5, <1>9, RiseIs DEF Receiving
  <2> QED
    BY <1>2, <1>5, <1>9, <2>1, <2>2, <2>3 DEF Rises, StopRead, Deaf, Settled
<1>10. CASE j = 5
  <2>1. Drives(latch, TRUE)
    BY <1>10, StopOps, MoveIs
  <2>2. scl = 1 /\ out /\ latch = 0
    BY <1>10 DEF StopRead
  <2>3. sda = Level(latch, TRUE, slave.low)
    BY <2>2 DEF sda
  <2>4. slave' = slave /\ scl' = scl /\ out' = TRUE /\ latch' = latch /\ Quiet
    BY <1>1, <2>1, <2>3, Unseen
  <2> QED
    BY <1>2, <1>5, <1>10, <2>2, <2>4 DEF StopRead, Deaf, Quiet, Settled
<1>11. CASE j = 6
  <2>1. Drives(1, out)
    BY <1>11, StopOps, MoveIs
  <2>2. scl = 1 /\ out /\ latch = 0
    BY <1>11 DEF StopRead
  <2>3. sda = 0 /\ Level(1, out, slave.low) = 1
    BY <1>5, <1>11, <2>2 DEF sda, Level
  <2>4. slave' = Quit(slave) /\ scl' = 1 /\ latch' = 1 /\ out' = TRUE
        /\ rx' = rx /\ Settled
    BY <1>1, <2>1, <2>2, <2>3, EdgeIs DEF Drives, Settled
  <2> QED
    BY <1>2, <1>3, <1>11, <2>4 DEF Free, Deaf, SlaveIs
<1> QED
  BY <1>4, <1>6, <1>7, <1>8, <1>9, <1>10, <1>11

(* The stop condition after a write: its first clock ends the acknowledge  *)
(* of the last byte, and the second one is the first bit of a byte that    *)
(* the stop condition breaks off.                                          *)
LEMMA StopWriteStep ==
  ASSUME Good, NEW m \in {"off", "data"}, NEW b \in 0..255, NEW j \in 0..6,
         StopWrite(m, b, j), Moves(i2c_stop_bit[j + 1])
  PROVE  /\ Settled /\ rx' = rx
         /\ j < 6 => StopWrite(m, b, j + 1)'
         /\ j = 6 => Free'
<1>1. slave \in SlaveType /\ latch \in {0, 1} /\ out \in BOOLEAN /\ scl \in {0, 1}
      /\ served \in BOOLEAN
  BY DEF Good, PinsOK
<1>2. out
  BY DEF StopWrite
<1>3. SlaveIs(Quit(slave), "off", slave.n, slave.byte, FALSE, slave.ptr)
  BY <1>1, QuitIs
<1>4. CASE j = 0
  <2>1. Rises
    BY <1>4, StopOps, MoveIs
  <2>2. scl = 0 /\ Acks(m, b)
    BY <1>4 DEF StopWrite
  <2>3. Rise(slave) = slave
    BY <1>1, <2>2, RiseIs DEF Acks, Deaf, Receiving
  <2>4. slave' = slave /\ scl' = 1 /\ out' /\ Settled /\ rx' = rx
    BY <1>2, <2>1, <2>2, <2>3 DEF Rises, Settled
  <2>5. Acks(m, b)'
    BY <2>2, <2>4 DEF Acks, Deaf
  <2> QED
    BY <1>4, <2>4, <2>5 DEF StopWrite
<1>5. CASE j = 1
  <2>1. Falls
    BY <1>5, StopOps, MoveIs
  <2>2. scl = 1 /\ Acks(m, b)
    BY <1>5 DEF StopWrite
  <2>3. ~Stores(slave) /\ ~Fetches(slave)
    BY <2>2 DEF Acks, Deaf, Stores, Fetches
  <2>4. slave' = Fall(slave) /\ scl' = 0 /\ out' /\ Settled /\ rx' = rx
    BY <1>1, <1>2, <2>1, <2>2, <2>3 DEF Falls, Settled
  <2>5. CASE m = "off"
    <3>1. Fall(slave) = slave
      BY <1>1, <2>2, <2>3, <2>5, FallIs DEF Acks, Deaf
    <3> QED
      BY <1>5, <2>2, <2>4, <2>5, <3>1 DEF Acks, Deaf, StopWrite
  <2>6. CASE m = "data"
    <3>1. slave.mode = "data" /\ Receiving(slave) /\ slave.n = 9
      BY <2>2, <2>6 DEF Acks, Receiving
    <3>2. SlaveIs(Fall(slave), "data", 0, 0, FALSE, slave.ptr)
      BY <1>1, <2>3, <3>1, FallIs
    <3> QED
      BY <1>5, <2>4, <2>6, <3>2 DEF StopWrite, SlaveIs
  <2> QED
    BY <2>5, <2>6
<1>6. CASE j = 2
  <2>1. Drives(latch, TRUE)
    BY <1>6, StopOps, MoveIs
  <2>2. scl = 0
    BY <1>6 DEF StopWrite
  <2>3. slave' = slave /\ scl' = scl /\ out' = TRUE /\ Quiet
    BY <1>1, <2>1, <2>2, Unseen
  <2> QED
    BY <1>6, <2>2, <2>3 DEF StopWrite, Deaf, Quiet, Settled
<1>7. CASE j = 3
  <2>1. Drives(0, out)
    BY <1>7, StopOps, MoveIs
  <2>2. scl = 0 /\ 0 \in {0, 1}
    BY <1>7 DEF StopWrite
  <2>3. slave' = slave /\ scl' = scl /\ out' = out /\ latch' = 0 /\ Quiet
    BY <1>1, <2>1, <2>2, Unseen
  <2> QED
    BY <1>2, <1>7, <2>2, <2>3 DEF StopWrite, Deaf, Quiet, Settled
<1>8. CASE j = 4
  <2>1. Rises
    BY <1>8, StopOps, MoveIs
  <2>2. scl = 0 /\ latch = 0
    BY <1>8 DEF StopWrite
  <2>3. CASE m = "off"
    <3>1. Rise(slave) = slave
      BY <1>1, <1>8, <2>3, RiseIs DEF StopWrite, Deaf, Receiving
    <3> QED
      BY <1>2, <1>8, <2>1, <2>2, <2>3, <3>1 DEF Rises, StopWrite, Deaf, Settled
  <2>4. CASE m = "data"
    <3>1. /\ slave.mode = "data" /\ slave.n = 0 /\ slave.byte = 0 /\ ~slave.low
          /\ Receiving(slave)
      BY <1>8, <2>4 DEF StopWrite, Receiving
    <3>2. sda = 0
      BY <1>2, <2>2, <3>1 DEF sda, Level
    <3>3. SlaveIs(Rise(slave), slave.mode, slave.n + 1, (2 * slave.byte + sda) % 256,
                  slave.low, slave.ptr)
      BY <1>1, <3>1, RiseIs
    <3>4. SlaveIs(slave', "data", 1, 0, FALSE, slave.ptr)
      BY <2>1, <2>2, <3>1, <3>2, <3>3 DEF Rises, SlaveIs
    <3> QED
      BY <1>2, <1>8, <2>1, <2>2, <2>4, <3>4 DEF Rises, StopWrite, SlaveIs, Settled
  <2> QED
    BY <2>3, <2>4
<1>9. CASE j = 5
  <2>1. Drives(latch, TRUE)
    BY <1>9, StopOps, MoveIs
  <2>2. scl = 1 /\ latch = 0
    BY <1>9 DEF StopWrite
  <2>3. sda = Level(latch, TRUE, slave.low)
    BY <1>2 DEF sda
  <2>4. slave' = slave /\ scl' = scl /\ out' = TRUE /\ latch' = latch /\ Quiet
    BY <1>1, <2>1, <2>3, Unseen
  <2> QED
    BY <1>9, <2>2, <2>4 DEF StopWrite, Deaf, Quiet, Settled
<1>10. CASE j = 6
  <2>1. Drives(1, out)
    BY <1>10, StopOps, MoveIs
  <2>2. scl = 1 /\ latch = 0 /\ ~slave.low
    BY <1>10 DEF StopWrite, Deaf
  <2>3. sda = 0 /\ Level(1, out, slave.low) = 1
    BY <1>2, <2>2 DEF sda, Level
  <2>4. slave' = Quit(slave) /\ scl' = 1 /\ latch' = 1 /\ out' /\ rx' = rx /\ Settled
    BY <1>1, <1>2, <2>1, <2>2, <2>3, EdgeIs DEF Drives, Settled
  <2> QED
    BY <1>3, <1>10, <2>4 DEF Free, Deaf, SlaveIs
<1> QED
  BY <1>4, <1>5, <1>6, <1>7, <1>8, <1>9, <1>10
-----------------------------------------------------------------------------
(* The same for the function of a list of operations that comes next. *)
ByteModes == {"off", "address", "pointer", "data"}
AckModes == {"off", "address", "pointer"}
FetchModes == {"off", "send"}
StoreModes == {"off", "data"}

(* An operation of a part is one of the whole. *)
LEMMA PartAt ==
  ASSUME NEW s, NEW p, NEW n \in Nat, NEW at \in Nat, Part(s, at, p, n)
  PROVE  \A j \in Nat : j < n => s[at + j + 1] = p[j + 1]
<1> TAKE j \in Nat
<1> HAVE j < n
<1>1. j + 1 \in 1..n
  OBVIOUS
<1>2. s[at + (j + 1)] = p[j + 1]
  BY <1>1 DEF Part
<1>3. at + (j + 1) = at + j + 1
  OBVIOUS
<1> QED
  BY <1>2, <1>3

(* The same for a part made of eight bits of five operations each. *)
LEMMA BitAt ==
  ASSUME NEW s, NEW p, NEW at \in Nat, Part(s, at, p, 40),
         NEW i \in 0..7, NEW j \in 0..4
  PROVE  s[at + 5 * i + j + 1] = p[5 * i + j + 1]
<1>1. 5 * i + j + 1 \in 1..40
  OBVIOUS
<1>2. s[at + (5 * i + j + 1)] = p[5 * i + j + 1]
  BY <1>1 DEF Part
<1>3. at + (5 * i + j + 1) = at + 5 * i + j + 1
  OBVIOUS
<1> QED
  BY <1>2, <1>3

LEMMA StartInStep ==
  ASSUME Good, NEW s, NEW at \in Nat, NEW k \in Nat, Part(s, at, i2c_start_bit, 5),
         StartIn(at, k), Moves(s[k + 1])
  PROVE  /\ Quiet
         /\ \/ StartIn(at, k + 1)'
            \/ /\ k + 1 = at + 5 /\ scl' = 1 /\ out'
               /\ \A b \in 0..255 : Hears("address", b, 0)'
<1>1. PICK j \in 0..4 : k = at + j /\ Start(j)
  BY DEF StartIn
<1>2. Moves(i2c_start_bit[j + 1])
  <2>1. \A l \in Nat : l < 5 => s[at + l + 1] = i2c_start_bit[l + 1]
    BY ONLY at \in Nat, 5 \in Nat, Part(s, at, i2c_start_bit, 5), PartAt
  <2>2. j \in Nat /\ j < 5
    OBVIOUS
  <2>3. s[at + j + 1] = i2c_start_bit[j + 1]
    BY ONLY <2>1, <2>2, Zenon
  <2> QED
    BY <1>1, <2>3
<1>3. /\ Quiet
      /\ j < 4 => Start(j + 1)'
      /\ j = 4 => scl' = 1 /\ out' /\ \A b \in 0..255 : Hears("address", b, 0)'
  BY <1>1, <1>2, StartStep
<1>4. CASE j < 4
  <2>1. j + 1 \in 0..4 /\ k + 1 = at + (j + 1)
    BY <1>1, <1>4
  <2> QED
    BY <1>3, <1>4, <2>1 DEF StartIn
<1>5. CASE j = 4
  BY <1>1, <1>3, <1>5
<1> QED
  BY <1>4, <1>5

SendGoes(s, at, m, b, k) ==
  /\ Good /\ at \in Nat /\ k \in Nat /\ m \in ByteModes /\ b \in 0..255
  /\ Part(s, at, i2c_send_byte(b), 40) /\ SendIn(at, m, b, k) /\ Moves(s[k + 1])
  => \/ SendIn(at, m, b, k + 1)' /\ Quiet
     \/ k + 1 = at + 40 /\ Sent(m, b) /\ out

LEMMA SendInStep ==
  ASSUME NEW s, NEW at, NEW m, NEW b, NEW k
  PROVE  SendGoes(s, at, m, b, k)
<1> SUFFICES ASSUME Good, at \in Nat, k \in Nat, m \in ByteModes, b \in 0..255,
                    Part(s, at, i2c_send_byte(b), 40), SendIn(at, m, b, k), Moves(s[k + 1])
             PROVE  \/ SendIn(at, m, b, k + 1)' /\ Quiet
                    \/ k + 1 = at + 40 /\ Sent(m, b) /\ out
  BY Zenon DEF SendGoes
<1>1. PICK i \in 0..7, j \in 0..4 : k = at + 5 * i + j /\ Send(m, b, i, j)
  BY DEF SendIn
<1>2. Moves(SendBit(Bit(b, i))[j + 1])
  <2>1. s[k + 1] = i2c_send_byte(b)[5 * i + j + 1]
    BY <1>1, BitAt
  <2> QED
    BY <2>1, ByteOps
<1>3. /\ j < 4 => Send(m, b, i, j + 1)' /\ Quiet
      /\ j = 4 /\ i < 7 => Send(m, b, i + 1, 0)' /\ Quiet
      /\ j = 4 /\ i = 7 => Sent(m, b) /\ out
  BY <1>1, <1>2, SendStep, Zenon DEF ByteModes
<1>4. CASE j < 4
  <2>1. j + 1 \in 0..4 /\ k + 1 = at + 5 * i + (j + 1)
    BY <1>1, <1>4
  <2> QED
    BY <1>3, <1>4, <2>1 DEF SendIn
<1>5. CASE j = 4 /\ i < 7
  <2>1. i + 1 \in 0..7 /\ 0 \in 0..4 /\ k + 1 = at + 5 * (i + 1) + 0
    BY <1>1, <1>5
  <2> QED
    BY <1>3, <1>5, <2>1 DEF SendIn
<1>6. CASE j = 4 /\ i = 7
  BY <1>1, <1>3, <1>6
<1> QED
  BY <1>4, <1>5, <1>6

AckGoes(s, at, m, b, k) ==
  /\ Good /\ at \in Nat /\ k \in Nat /\ m \in AckModes /\ b \in 0..255
  /\ m = "address" /\ b = Chip + 1 => slave.ptr \in Addrs
  /\ Part(s, at, i2c_receive_ack, 5) /\ AckIn(at, m, b, k) /\ Moves(s[k + 1])
  => \/ AckIn(at, m, b, k + 1)' /\ Quiet
     \/ k + 1 = at + 5 /\ Acked(m, b)

LEMMA AckInStep ==
  ASSUME NEW s, NEW at, NEW m, NEW b, NEW k
  PROVE  AckGoes(s, at, m, b, k)
<1> SUFFICES ASSUME Good, at \in Nat, k \in Nat, m \in AckModes, b \in 0..255,
                    m = "address" /\ b = Chip + 1 => slave.ptr \in Addrs,
                    Part(s, at, i2c_receive_ack, 5), AckIn(at, m, b, k), Moves(s[k + 1])
             PROVE  \/ AckIn(at, m, b, k + 1)' /\ Quiet
                    \/ k + 1 = at + 5 /\ Acked(m, b)
  BY Zenon DEF AckGoes
<1>1. PICK j \in 0..4 : k = at + j /\ Ack(m, b, j)
  BY DEF AckIn
<1>2. Moves(i2c_receive_ack[j + 1])
  <2>1. \A l \in Nat : l < 5 => s[at + l + 1] = i2c_receive_ack[l + 1]
    BY ONLY at \in Nat, 5 \in Nat, Part(s, at, i2c_receive_ack, 5), PartAt
  <2>2. j \in Nat /\ j < 5
    OBVIOUS
  <2>3. s[at + j + 1] = i2c_receive_ack[j + 1]
    BY ONLY <2>1, <2>2, Zenon
  <2> QED
    BY <1>1, <2>3
<1>3. /\ j < 4 => Ack(m, b, j + 1)' /\ Quiet
      /\ j = 4 => Acked(m, b)
  BY <1>1, <1>2, AckStep DEF AckModes
<1>4. CASE j < 4
  <2>1. j + 1 \in 0..4 /\ k + 1 = at + (j + 1)
    BY <1>1, <1>4
  <2> QED
    BY <1>3, <1>4, <2>1 DEF AckIn
<1>5. CASE j = 4
  BY <1>1, <1>3, <1>5
<1> QED
  BY <1>4, <1>5

FetchGoes(s, at, m, x, k) ==
  /\ Good /\ at \in Nat /\ k \in Nat /\ m \in FetchModes /\ x \in 0..255 /\ AllOnes(m, x)
  /\ Part(s, at, i2c_receive_byte, 40) /\ FetchIn(at, m, x, k) /\ Moves(s[k + 1])
  => /\ Settled
     /\ FetchIn(at, m, x, k + 1)' \/ (k + 1 = at + 40 /\ StopRead(m, x, 0)')

LEMMA FetchInStep ==
  ASSUME NEW s, NEW at, NEW m, NEW x, NEW k
  PROVE  FetchGoes(s, at, m, x, k)
<1> SUFFICES ASSUME Good, at \in Nat, k \in Nat, m \in FetchModes, x \in 0..255,
                    AllOnes(m, x), Part(s, at, i2c_receive_byte, 40),
                    FetchIn(at, m, x, k), Moves(s[k + 1])
             PROVE  /\ Settled
                    /\ \/ FetchIn(at, m, x, k + 1)'
                       \/ k + 1 = at + 40 /\ StopRead(m, x, 0)'
  BY Zenon DEF FetchGoes
<1>1. PICK i \in 0..7, j \in 0..4 : k = at + 5 * i + j /\ Fetch(m, x, i, j)
  BY DEF FetchIn
<1>2. Moves(ReceiveBit[j + 1])
  <2>1. s[k + 1] = i2c_receive_byte[5 * i + j + 1]
    BY <1>1, BitAt
  <2> QED
    BY <2>1, FetchOps
<1>3. /\ Settled
      /\ j < 4 => Fetch(m, x, i, j + 1)'
      /\ j = 4 /\ i < 7 => Fetch(m, x, i + 1, 0)'
      /\ j = 4 /\ i = 7 => StopRead(m, x, 0)'
  <2>1. Fetch(m, x, i, j)
    BY <1>1
  <2> QED
    BY <1>2, <2>1, FetchStep, Zenon DEF FetchModes
<1>4. CASE j < 4
  <2>1. j + 1 \in 0..4 /\ k + 1 = at + 5 * i + (j + 1)
    BY <1>1, <1>4
  <2> QED
    BY <1>3, <1>4, <2>1 DEF FetchIn
<1>5. CASE j = 4 /\ i < 7
  <2>1. i + 1 \in 0..7 /\ 0 \in 0..4 /\ k + 1 = at + 5 * (i + 1) + 0
    BY <1>1, <1>5
  <2> QED
    BY <1>3, <1>5, <2>1 DEF FetchIn
<1>6. CASE j = 4 /\ i = 7
  BY <1>1, <1>3, <1>6
<1> QED
  BY <1>4, <1>5, <1>6

Holds(m, x) == m # "off" => slave.byte = x

StopReadGoes(s, at, m, x, k) ==
  /\ Good /\ at \in Nat /\ k \in Nat /\ m \in FetchModes /\ x \in 0..255
  /\ Part(s, at, i2c_stop_bit, 7) /\ StopReadIn(at, m, x, k) /\ Moves(s[k + 1])
  => /\ Settled
     /\ \/ StopReadIn(at, m, x, k + 1)'
        \/ k + 1 = at + 7 /\ Free' /\ rx' = x /\ Holds(m, x)'

LEMMA StopReadInStep ==
  ASSUME NEW s, NEW at, NEW m, NEW x, NEW k
  PROVE  StopReadGoes(s, at, m, x, k)
<1> SUFFICES ASSUME Good, at \in Nat, k \in Nat, m \in FetchModes, x \in 0..255,
                    Part(s, at, i2c_stop_bit, 7), StopReadIn(at, m, x, k), Moves(s[k + 1])
             PROVE  /\ Settled
                    /\ \/ StopReadIn(at, m, x, k + 1)'
                       \/ k + 1 = at + 7 /\ Free' /\ rx' = x /\ Holds(m, x)'
  BY Zenon DEF StopReadGoes
<1>1. PICK j \in 0..6 : k = at + j /\ StopRead(m, x, j)
  BY DEF StopReadIn
<1>2. Moves(i2c_stop_bit[j + 1])
  <2>1. \A l \in Nat : l < 7 => s[at + l + 1] = i2c_stop_bit[l + 1]
    BY ONLY at \in Nat, 7 \in Nat, Part(s, at, i2c_stop_bit, 7), PartAt
  <2>2. j \in Nat /\ j < 7
    OBVIOUS
  <2>3. s[at + j + 1] = i2c_stop_bit[j + 1]
    BY ONLY <2>1, <2>2, Zenon
  <2> QED
    BY <1>1, <2>3
<1>3. /\ Settled
      /\ j < 6 => StopRead(m, x, j + 1)'
      /\ j = 6 => Free' /\ rx' = x /\ (m # "off" => slave'.byte = x)
  BY <1>1, <1>2, StopReadStep DEF FetchModes
<1>4. CASE j < 6
  <2>1. j + 1 \in 0..6 /\ k + 1 = at + (j + 1)
    BY <1>1, <1>4
  <2> QED
    BY <1>3, <1>4, <2>1 DEF StopReadIn
<1>5. CASE j = 6
  BY <1>1, <1>3, <1>5 DEF Holds
<1> QED
  BY <1>4, <1>5

StopWriteGoes(s, at, m, b, k) ==
  /\ Good /\ at \in Nat /\ k \in Nat /\ m \in StoreModes /\ b \in 0..255
  /\ Part(s, at, i2c_stop_bit, 7) /\ StopWriteIn(at, m, b, k) /\ Moves(s[k + 1])
  => /\ Settled /\ rx' = rx
     /\ StopWriteIn(at, m, b, k + 1)' \/ (k + 1 = at + 7 /\ Free')

LEMMA StopWriteInStep ==
  ASSUME NEW s, NEW at, NEW m, NEW b, NEW k
  PROVE  StopWriteGoes(s, at, m, b, k)
<1> SUFFICES ASSUME Good, at \in Nat, k \in Nat, m \in StoreModes, b \in 0..255,
                    Part(s, at, i2c_stop_bit, 7), StopWriteIn(at, m, b, k), Moves(s[k + 1])
             PROVE  /\ Settled /\ rx' = rx
                    /\ StopWriteIn(at, m, b, k + 1)' \/ (k + 1 = at + 7 /\ Free')
  BY Zenon DEF StopWriteGoes
<1>1. PICK j \in 0..6 : k = at + j /\ StopWrite(m, b, j)
  BY DEF StopWriteIn
<1>2. Moves(i2c_stop_bit[j + 1])
  <2>1. \A l \in Nat : l < 7 => s[at + l + 1] = i2c_stop_bit[l + 1]
    BY ONLY at \in Nat, 7 \in Nat, Part(s, at, i2c_stop_bit, 7), PartAt
  <2>2. j \in Nat /\ j < 7
    OBVIOUS
  <2>3. s[at + j + 1] = i2c_stop_bit[j + 1]
    BY ONLY <2>1, <2>2, Zenon
  <2> QED
    BY <1>1, <2>3
<1>3. /\ Settled /\ rx' = rx
      /\ j < 6 => StopWrite(m, b, j + 1)'
      /\ j = 6 => Free'
  BY <1>1, <1>2, StopWriteStep DEF StoreModes
<1>4. CASE j < 6
  <2>1. j + 1 \in 0..6 /\ k + 1 = at + (j + 1)
    BY <1>1, <1>4
  <2> QED
    BY <1>3, <1>4, <2>1 DEF StopWriteIn
<1>5. CASE j = 6
  BY <1>1, <1>3, <1>5
<1> QED
  BY <1>4, <1>5
-----------------------------------------------------------------------------
(* One operation of a call. *)
CallOK(c) == /\ c.op \in {"read", "write"} /\ c.dev \in Devices /\ c.addr \in Addrs
             /\ c.val \in Values

ReadParts(s, c) ==
  /\ Part(s, 95, i2c_start_bit, 5) /\ Part(s, 100, i2c_send_byte(c.dev + 1), 40)
  /\ Part(s, 140, i2c_receive_ack, 5) /\ Part(s, 145, i2c_receive_byte, 40)
  /\ Part(s, 185, i2c_stop_bit, 7)

WriteParts(s, c) ==
  Part(s, 95, i2c_send_byte(c.val), 40) /\ Part(s, 135, i2c_stop_bit, 7)

(* The functions that make up a call, whichever it is. *)
LEMMA CallOps ==
  ASSUME NEW c, CallOK(c)
  PROVE  /\ HeaderIn(Ops(c), c.dev, c.addr)
         /\ c.op = "read" => IsOps(Ops(c), 192) /\ ReadParts(Ops(c), c)
         /\ c.op = "write" => IsOps(Ops(c), 142) /\ WriteParts(Ops(c), c)
<1>1. CASE c.op = "read"
  <2>1. Ops(c) = gpio_i2c_rtc_read[c.dev][c.addr]
    BY <1>1 DEF Ops
  <2> QED
    BY <1>1, <2>1, ReadOps DEF CallOK, ReadParts
<1>2. CASE c.op = "write"
  <2>1. Ops(c) = gpio_i2c_rtc_write[c.dev][c.addr][c.val]
    BY <1>2 DEF Ops
  <2> QED
    BY <1>2, <2>1, WriteOps DEF CallOK, WriteParts
<1> QED
  BY <1>1, <1>2 DEF CallOK

(* The chip acknowledges its own address only, and fetches only for the    *)
(* address of a read.                                                      *)
LEMMA HeardAddress ==
  ASSUME NEW c, CallOK(c)
  PROVE  /\ c.dev \in 0..255 /\ c.dev + 1 \in 0..255 /\ c.addr \in 0..255
         /\ c.val \in 0..255
         /\ c.dev # Chip + 1
         /\ (IF c.dev \notin {Chip, Chip + 1} THEN "off" ELSE "address")
              = Heard(c, "address")
         /\ (IF c.dev + 1 \notin {Chip, Chip + 1} THEN "off" ELSE "address")
              = Heard(c, "address")
         /\ Heard(c, "address") = "address" => c.dev + 1 = Chip + 1
<1>1. c.dev \in Devices /\ c.addr \in Addrs /\ c.val \in Values
  BY DEF CallOK
<1> DEFINE d == c.dev
<1>2. /\ d \in 0..254 /\ d + 1 \in 0..255 /\ d # Chip + 1 /\ d + 1 # Chip
      /\ (d + 1 = Chip + 1 <=> d = Chip)
  BY <1>1, AddressFacts
<1>3. c.addr \in 0..255 /\ c.val \in 0..255
  <2>1. Addrs \subseteq 0..255 /\ Values \subseteq 0..255
    BY AddressFacts
  <2> QED
    BY <1>1, <2>1
<1>4. Here(c) <=> d = Chip
  BY DEF Here
<1> HIDE DEF d
<1>5. CASE d = Chip
  BY <1>2, <1>3, <1>4, <1>5 DEF Heard, d
<1>6. CASE d # Chip
  BY <1>2, <1>3, <1>4, <1>6 DEF Heard, d
<1> QED
  BY <1>5, <1>6

(* A step that the chip does not answer changes nothing the caller needs. *)
LEMMA Kept ==
  ASSUME NEW c, Quiet
  PROVE  /\ Fresh => Fresh'
         /\ Pointed(c) => Pointed(c)'
BY DEF Quiet, Fresh, Pointed

(* Where one function ends, the next one begins. *)
LEMMA AckBegins ==
  ASSUME NEW m, NEW b, NEW at \in Nat, NEW k, k + 1 = at, Ack(m, b, 0)'
  PROVE  AckIn(at, m, b, k + 1)'
BY DEF AckIn

LEMMA SendBegins ==
  ASSUME NEW m, NEW b, NEW at \in Nat, NEW k, k + 1 = at, Hears(m, b, 0)'
  PROVE  SendIn(at, m, b, k + 1)'
<1>1. Send(m, b, 0, 0)'
  BY DEF Send
<1>2. 0 \in 0..7 /\ 0 \in 0..4 /\ k + 1 = at + 5 * 0 + 0
  OBVIOUS
<1> QED
  BY <1>1, <1>2 DEF SendIn

(* The first part of a call: at its end the chip, if it is there, points   *)
(* to the register and expects a byte for it.                              *)
LEMMA AddressedStep ==
  ASSUME Good, NEW c, CallOK(c), NEW k \in Nat, Fresh, Addressed(c, k),
         Moves(Ops(c)[k + 1])
  PROVE  /\ Settled /\ Fresh'
         /\ \/ Addressed(c, k + 1)'
            \/ /\ k + 1 = 95 /\ Pointed(c)'
               /\ \A b \in 0..255 : Hears(Heard(c, "data"), b, 0)'
<1> DEFINE s == Ops(c)
<1>1. /\ Part(s, 0, i2c_start_bit, 5) /\ Part(s, 5, i2c_send_byte(c.dev), 40)
      /\ Part(s, 45, i2c_receive_ack, 5) /\ Part(s, 50, i2c_send_byte(c.addr), 40)
      /\ Part(s, 90, i2c_receive_ack, 5) /\ Moves(s[k + 1])
  BY CallOps DEF HeaderIn
<1>2. /\ c.dev \in 0..255 /\ c.addr \in 0..255 /\ c.dev # Chip + 1
      /\ Heard(c, "address") \in {"off", "address"}
      /\ Heard(c, "pointer") \in {"off", "pointer"}
  BY HeardAddress DEF Heard
<1> HIDE DEF s
<1>3. CASE StartIn(0, k)
  <2>1. /\ Quiet
        /\ \/ StartIn(0, k + 1)'
           \/ /\ k + 1 = 0 + 5 /\ scl' = 1 /\ out'
              /\ \A b \in 0..255 : Hears("address", b, 0)'
    BY <1>1, <1>3, StartInStep
  <2>2. Settled /\ Fresh'
    BY <2>1, Kept DEF Quiet, Settled
  <2>3. ASSUME k + 1 = 0 + 5, \A b \in 0..255 : Hears("address", b, 0)'
        PROVE  SendIn(5, "address", c.dev, k + 1)'
    <3>1. Hears("address", c.dev, 0)'
      BY <1>2, <2>3
    <3>2. 5 \in Nat /\ k + 1 = 5
      BY <2>3
    <3> QED
      BY <3>1, <3>2, SendBegins
  <2> QED
    BY <2>1, <2>2, <2>3 DEF Addressed
<1>4. CASE SendIn(5, "address", c.dev, k)
  <2>1. \/ SendIn(5, "address", c.dev, k + 1)' /\ Quiet
        \/ k + 1 = 5 + 40 /\ Sent("address", c.dev) /\ out
    <3>1. SendGoes(s, 5, "address", c.dev, k)
      BY SendInStep
    <3> QED
      BY <1>1, <1>2, <1>4, <3>1 DEF ByteModes, SendGoes
  <2>2. CASE SendIn(5, "address", c.dev, k + 1)' /\ Quiet
    BY <2>2, Kept DEF Addressed, Quiet, Settled
  <2>3. CASE k + 1 = 45 /\ Sent("address", c.dev)
    <3>1. Ack(Heard(c, "address"), c.dev, 0)'
      BY <2>3, HeardAddress DEF Sent
    <3>2. AckIn(45, Heard(c, "address"), c.dev, k + 1)'
      BY <2>3, <3>1, AckBegins
    <3> QED
      BY <2>3, <3>2 DEF Addressed, Sent, Settled, Fresh
  <2> QED
    BY <2>1, <2>2, <2>3
<1>5. CASE AckIn(45, Heard(c, "address"), c.dev, k)
  <2>1. \/ AckIn(45, Heard(c, "address"), c.dev, k + 1)' /\ Quiet
        \/ k + 1 = 45 + 5 /\ Acked(Heard(c, "address"), c.dev)
    <3>0. PICK m : m = Heard(c, "address")
      OBVIOUS
    <3>1. m \in AckModes
      BY <1>2, <3>0 DEF AckModes
    <3>2. m = "address" /\ c.dev = Chip + 1 => slave.ptr \in Addrs
      BY <1>2
    <3>3. AckIn(45, m, c.dev, k) /\ 45 \in Nat
      BY <1>5, <3>0
    <3>4. (AckIn(45, m, c.dev, k + 1)' /\ Quiet) \/ (k + 1 = 45 + 5 /\ Acked(m, c.dev))
      <4>1. AckGoes(s, 45, m, c.dev, k)
        BY AckInStep
      <4> QED
        BY <1>1, <1>2, <3>1, <3>2, <3>3, <4>1 DEF AckGoes
    <3> QED
      BY <3>0, <3>4
  <2>2. CASE AckIn(45, Heard(c, "address"), c.dev, k + 1)' /\ Quiet
    BY <2>2, Kept DEF Addressed, Quiet, Settled
  <2>3. CASE k + 1 = 50 /\ Acked(Heard(c, "address"), c.dev)
    <3>1. /\ Settled /\ rx' = rx
          /\ Hears(Heard(c, "pointer"), c.addr, 0)'
      BY <1>2, <2>3, Zenon DEF Acked, Heard, Settled
    <3>2. SendIn(50, Heard(c, "pointer"), c.addr, k + 1)'
      BY <2>3, <3>1, SendBegins
    <3> QED
      BY <3>1, <3>2 DEF Addressed, Settled, Fresh
  <2> QED
    BY <2>1, <2>2, <2>3
<1>6. CASE SendIn(50, Heard(c, "pointer"), c.addr, k)
  <2>1. \/ SendIn(50, Heard(c, "pointer"), c.addr, k + 1)' /\ Quiet
        \/ k + 1 = 50 + 40 /\ Sent(Heard(c, "pointer"), c.addr) /\ out
    <3>0. PICK m : m = Heard(c, "pointer")
      OBVIOUS
    <3>1. m \in ByteModes
      BY <1>2, <3>0 DEF ByteModes
    <3>2. SendIn(50, m, c.addr, k) /\ 50 \in Nat
      BY <1>6, <3>0
    <3>3. \/ SendIn(50, m, c.addr, k + 1)' /\ Quiet
          \/ (k + 1 = 50 + 40 /\ Sent(m, c.addr) /\ out)
      <4>1. SendGoes(s, 50, m, c.addr, k)
        BY SendInStep
      <4> QED
        BY <1>1, <1>2, <3>1, <3>2, <4>1 DEF SendGoes
    <3> QED
      BY <3>0, <3>3
  <2>2. CASE SendIn(50, Heard(c, "pointer"), c.addr, k + 1)' /\ Quiet
    BY <2>2, Kept DEF Addressed, Quiet, Settled
  <2>3. CASE k + 1 = 90 /\ Sent(Heard(c, "pointer"), c.addr)
    <3>1. Ack(Heard(c, "pointer"), c.addr, 0)' /\ Pointed(c)'
          /\ Settled /\ rx' = rx
      BY <1>2, <2>3 DEF Sent, Heard, Pointed, Settled
    <3>2. AckIn(90, Heard(c, "pointer"), c.addr, k + 1)'
      BY <2>3, <3>1, AckBegins
    <3> QED
      BY <3>1, <3>2 DEF Addressed, Settled, Fresh
  <2> QED
    BY <2>1, <2>2, <2>3
<1>7. CASE AckIn(90, Heard(c, "pointer"), c.addr, k) /\ Pointed(c)
  <2>1. \/ AckIn(90, Heard(c, "pointer"), c.addr, k + 1)' /\ Quiet
        \/ k + 1 = 90 + 5 /\ Acked(Heard(c, "pointer"), c.addr)
    <3>0. PICK m : m = Heard(c, "pointer")
      OBVIOUS
    <3>1. m \in AckModes /\ m # "address"
      BY <1>2, <3>0 DEF AckModes
    <3>2. AckIn(90, m, c.addr, k) /\ 90 \in Nat
      BY <1>7, <3>0
    <3>3. \/ AckIn(90, m, c.addr, k + 1)' /\ Quiet
          \/ (k + 1 = 90 + 5 /\ Acked(m, c.addr))
      <4>1. AckGoes(s, 90, m, c.addr, k)
        BY AckInStep
      <4> QED
        BY <1>1, <1>2, <3>1, <3>2, <4>1 DEF AckGoes
    <3> QED
      BY <3>0, <3>3
  <2>2. CASE AckIn(90, Heard(c, "pointer"), c.addr, k + 1)' /\ Quiet
    BY <1>7, <2>2, Kept DEF Addressed, Quiet, Settled
  <2>3. CASE k + 1 = 95 /\ Acked(Heard(c, "pointer"), c.addr)
    <3>1. /\ Settled /\ rx' = rx /\ slave'.ptr = slave.ptr
          /\ \A b \in 0..255 : Hears(Heard(c, "data"), b, 0)'
      BY <1>2, <2>3, Zenon DEF Acked, Heard, Settled
    <3> QED
      BY <1>7, <2>3, <3>1 DEF Settled, Fresh, Pointed
  <2> QED
    BY <2>1, <2>2, <2>3
<1> QED
  BY <1>3, <1>4, <1>5, <1>6, <1>7 DEF Addressed

LEMMA FetchBegins ==
  ASSUME NEW m, NEW x \in 0..255, NEW at \in Nat, NEW k, k + 1 = at, Fetch(m, x, 0, 0)'
  PROVE  FetchIn(at, m, x, k + 1)'
<1>1. 0 \in 0..7 /\ 0 \in 0..4 /\ k + 1 = at + 5 * 0 + 0
  OBVIOUS
<1> QED
  BY <1>1 DEF FetchIn

(* The chip has fetched the byte for the read: what it will put out. *)
Fetching(c, k) ==
  /\ k + 1 = 145 /\ (served' <=> Here(c)) /\ (~Here(c) => served' = served)
  /\ \E x \in Values \union {255} :
       /\ Result(c, x) /\ FetchIn(145, Heard(c, "send"), x, k + 1)'
       /\ Here(c) => x = mem[c.addr] /\ slave'.byte = x

(* The chip has acknowledged its read address: it fetches the byte. *)
LEMMA AskEnd ==
  ASSUME Good, NEW c, CallOK(c), Fresh, Pointed(c), NEW k, k + 1 = 145,
         Acked(Heard(c, "address"), c.dev + 1)
  PROVE  Fetching(c, k) /\ mem' = mem
<1>1. CASE Here(c)
  <2>1. Acked("address", Chip + 1) /\ slave.ptr = c.addr /\ c.addr \in Addrs
    BY <1>1 DEF Heard, Here, CallOK, Pointed
  <2>2. /\ scl' = 0 /\ ~out' /\ rx' = rx /\ mem' = mem /\ slave'.ptr = slave.ptr
        /\ Shows("send", mem[slave.ptr], 0)' /\ served'
    BY <2>1 DEF Acked
  <2>3. PICK x \in Values : x = mem[c.addr]
    BY <2>1 DEF Good
  <2>4. x \in 0..255
    BY <2>3, AddressFacts
  <2>5. Shows("send", x, 0)'
    BY <2>1, <2>2, <2>3 DEF Shows
  <2>6. Fetch("send", x, 0, 0)'
    <3>1. Top(x, 0) = 0 /\ rx' = 0
      BY <2>2, <2>4, TopStep, Zenon DEF Fresh
    <3> QED
      BY <2>2, <2>5, <3>1 DEF Fetch
  <2>7. FetchIn(145, "send", x, k + 1)'
    BY <2>4, <2>6, FetchBegins
  <2>8. slave'.byte = x
    BY <2>5 DEF Shows
  <2> QED
    BY <1>1, <2>2, <2>3, <2>7, <2>8 DEF Fetching, Result, Heard
<1>2. CASE ~Here(c)
  <2>1. Acked("off", c.dev + 1)
    <3>1. Heard(c, "address") = "off"
      BY <1>2 DEF Heard
    <3> QED
      BY <3>1
  <2>2. /\ scl' = 0 /\ ~out' /\ rx' = rx /\ mem' = mem /\ served' = served
        /\ \A e \in 0..255 : Hears("off", e, 0)'
    BY <2>1 DEF Acked
  <2>3. Deaf' /\ 255 \in 0..255
    BY <2>2 DEF Hears
  <2>4. Fetch("off", 255, 0, 0)'
    <3>1. Top(255, 0) = 0 /\ rx' = 0
      BY <2>2 DEF Fresh, Top
    <3> QED
      BY <2>2, <2>3, <3>1 DEF Fetch, Shows
  <2>5. FetchIn(145, "off", 255, k + 1)'
    BY <2>3, <2>4, FetchBegins
  <2> QED
    BY <1>2, <2>2, <2>5 DEF Fetching, Result, Heard, Fresh
<1> QED
  BY <1>1, <1>2

(* The second part of a read: the chip is addressed again, to send. *)
LEMMA AskedStep ==
  ASSUME Good, NEW c, CallOK(c), c.op = "read", NEW k \in Nat, Fresh, Pointed(c),
         Asked(c, k), Moves(Ops(c)[k + 1])
  PROVE  /\ mem' = mem
         /\ \/ Settled /\ Fresh' /\ Pointed(c)' /\ Asked(c, k + 1)'
            \/ Fetching(c, k)
<1> DEFINE s == Ops(c)
<1>1. /\ Part(s, 95, i2c_start_bit, 5) /\ Part(s, 100, i2c_send_byte(c.dev + 1), 40)
      /\ Part(s, 140, i2c_receive_ack, 5) /\ Moves(s[k + 1])
  BY CallOps DEF ReadParts
<1>2. PICK b \in 0..255 : b = c.dev + 1
  BY HeardAddress
<1>3. PICK m \in AckModes : m = Heard(c, "address")
  BY HeardAddress DEF Heard, AckModes
<1> HIDE DEF s
<1>4. CASE StartIn(95, k)
  <2>1. /\ Quiet
        /\ \/ StartIn(95, k + 1)'
           \/ /\ k + 1 = 95 + 5 /\ scl' = 1 /\ out'
              /\ \A e \in 0..255 : Hears("address", e, 0)'
    BY <1>1, <1>4, StartInStep
  <2>2. Settled /\ Fresh' /\ Pointed(c)'
    BY <2>1, Kept DEF Quiet, Settled
  <2>3. ASSUME k + 1 = 95 + 5, \A e \in 0..255 : Hears("address", e, 0)'
        PROVE  SendIn(100, "address", c.dev + 1, k + 1)'
    <3>1. Hears("address", b, 0)' /\ 100 \in Nat /\ k + 1 = 100
      BY <1>2, <2>3
    <3>2. SendIn(100, "address", b, k + 1)'
      BY <3>1, SendBegins
    <3> QED
      BY <1>2, <3>2
  <2> QED
    BY <2>1, <2>2, <2>3 DEF Asked, Settled
<1>5. CASE SendIn(100, "address", c.dev + 1, k)
  <2>1. \/ SendIn(100, "address", b, k + 1)' /\ Quiet
        \/ k + 1 = 100 + 40 /\ Sent("address", b) /\ out
    <3>1. /\ "address" \in ByteModes /\ 100 \in Nat
          /\ Part(s, 100, i2c_send_byte(b), 40) /\ SendIn(100, "address", b, k)
      BY <1>1, <1>2, <1>5 DEF ByteModes
    <3>2. SendGoes(s, 100, "address", b, k)
      BY SendInStep
    <3> QED
      BY <1>1, <3>1, <3>2 DEF SendGoes
  <2>2. CASE SendIn(100, "address", b, k + 1)' /\ Quiet
    BY <1>2, <2>2, Kept DEF Asked, Quiet, Settled
  <2>3. CASE k + 1 = 140 /\ Sent("address", b)
    <3>1. Ack(m, b, 0)' /\ Settled /\ rx' = rx /\ slave'.ptr = slave.ptr
      BY <1>2, <1>3, <2>3, HeardAddress DEF Sent, Settled
    <3>2. AckIn(140, m, b, k + 1)'
      <4>1. 0 \in 0..4 /\ k + 1 = 140 + 0
        BY <2>3
      <4> QED
        BY <3>1, <4>1 DEF AckIn
    <3> QED
      BY <1>2, <1>3, <3>1, <3>2 DEF Asked, Settled, Fresh, Pointed
  <2> QED
    BY <2>1, <2>2, <2>3
<1>6. CASE AckIn(140, Heard(c, "address"), c.dev + 1, k)
  <2>1. \/ AckIn(140, m, b, k + 1)' /\ Quiet
        \/ k + 1 = 140 + 5 /\ Acked(m, b)
    <3>1. m \in AckModes /\ b \in 0..255 /\ 140 \in Nat
      BY <1>2, <1>3
    <3>2. m = "address" /\ b = Chip + 1 => slave.ptr \in Addrs
      BY <1>2, <1>3 DEF Pointed, Heard, CallOK
    <3>3. Part(s, 140, i2c_receive_ack, 5) /\ Moves(s[k + 1]) /\ AckIn(140, m, b, k)
      BY <1>1, <1>2, <1>3, <1>6
    <3>4. AckGoes(s, 140, m, b, k)
      BY AckInStep
    <3> QED
      BY <3>1, <3>2, <3>3, <3>4 DEF AckGoes
  <2>2. CASE AckIn(140, m, b, k + 1)' /\ Quiet
    BY <1>2, <1>3, <2>2, Kept DEF Asked, Quiet, Settled
  <2>3. CASE k + 1 = 145 /\ Acked(m, b)
    BY <1>2, <1>3, <2>3, AskEnd
  <2> QED
    BY <2>1, <2>2, <2>3
<1> QED
  BY <1>4, <1>5, <1>6 DEF Asked

(* The byte that the chip has fetched stays. *)
Undisturbed(c) == served /\ Here(c) /\ c.op = "read" => slave'.byte = slave.byte

(* The last part of a read: the byte comes in and the chip is let go. *)
LEMMA FetchedStep ==
  ASSUME Good, NEW c, CallOK(c), c.op = "read", NEW k \in Nat, k < 192,
         NEW x \in 0..255, Result(c, x), Fetched(c, x, k),
         Moves(Ops(c)[k + 1])
  PROVE  Settled /\ Fetched(c, x, k + 1)' /\ Undisturbed(c)
<1> DEFINE s == Ops(c)
<1>1. /\ Part(s, 145, i2c_receive_byte, 40) /\ Part(s, 185, i2c_stop_bit, 7)
      /\ Moves(s[k + 1])
  BY CallOps DEF ReadParts
<1>2. PICK m \in FetchModes : m = Heard(c, "send")
  BY DEF Heard, FetchModes
<1>3. AllOnes(m, x)
  BY <1>2 DEF AllOnes, Heard, Result
<1> HIDE DEF s
<1>4. CASE FetchIn(145, m, x, k)
  <2>1. /\ Settled
        /\ FetchIn(145, m, x, k + 1)' \/ (k + 1 = 145 + 40 /\ StopRead(m, x, 0)')
    <3>1. 145 \in Nat /\ m \in FetchModes
      BY <1>2
    <3>2. Part(s, 145, i2c_receive_byte, 40) /\ Moves(s[k + 1])
      BY <1>1
    <3>3. FetchGoes(s, 145, m, x, k)
      BY FetchInStep
    <3> QED
      BY <1>3, <1>4, <3>1, <3>2, <3>3 DEF FetchGoes
  <2>2. k + 1 = 145 + 40 /\ StopRead(m, x, 0)' => StopReadIn(185, m, x, k + 1)'
    BY DEF StopReadIn
  <2>3. FetchIn(145, m, x, k) /\ m = "send" => slave.byte = x
    BY DEF FetchIn, Fetch, Shows
  <2>4. /\ FetchIn(145, m, x, k + 1)' /\ m = "send" => slave'.byte = x
        /\ StopReadIn(185, m, x, k + 1)' /\ m = "send" => slave'.byte = x
    BY DEF FetchIn, Fetch, Shows, StopReadIn, StopRead
  <2> QED
    BY <1>2, <1>4, <2>1, <2>2, <2>3, <2>4 DEF Fetched, Heard, Undisturbed
<1>5. CASE StopReadIn(185, m, x, k)
  <2>1. /\ Settled
        /\ \/ StopReadIn(185, m, x, k + 1)'
           \/ k + 1 = 185 + 7 /\ Free' /\ rx' = x /\ Holds(m, x)'
    <3>1. 185 \in Nat /\ m \in FetchModes
      BY <1>2
    <3>2. Part(s, 185, i2c_stop_bit, 7) /\ Moves(s[k + 1]) /\ x \in 0..255
      BY <1>1, <1>3
    <3>3. StopReadGoes(s, 185, m, x, k)
      BY StopReadInStep
    <3> QED
      BY <1>5, <3>1, <3>2, <3>3 DEF StopReadGoes
  <2>2. StopReadIn(185, m, x, k) /\ m = "send" => slave.byte = x
    BY DEF StopReadIn, StopRead
  <2>3. StopReadIn(185, m, x, k + 1)' /\ m = "send" => slave'.byte = x
    BY DEF StopReadIn, StopRead
  <2> QED
    BY <1>2, <1>5, <2>1, <2>2, <2>3 DEF Fetched, Heard, Holds, Undisturbed
<1> QED
  BY <1>2, <1>4, <1>5 DEF Fetched

(* The chip has stored the byte of the write, if it is there. *)
Storing(c, k) ==
  /\ k + 1 = 135 /\ (served' <=> Here(c)) /\ Stored(c, k + 1)'
  /\ Here(c) => mem' = [mem EXCEPT ![c.addr] = c.val]
  /\ ~Here(c) => Settled

(* The second part of a write: the byte goes out ... *)
LEMMA StoringStep ==
  ASSUME Good, NEW c, CallOK(c), c.op = "write", NEW k \in Nat, Fresh, Pointed(c),
         SendIn(95, Heard(c, "data"), c.val, k), Moves(Ops(c)[k + 1])
  PROVE  /\ rx' = rx
         /\ \/ Settled /\ Pointed(c)' /\ SendIn(95, Heard(c, "data"), c.val, k + 1)'
            \/ Storing(c, k)
<1> DEFINE s == Ops(c)
<1>1. Part(s, 95, i2c_send_byte(c.val), 40) /\ Moves(s[k + 1])
  BY CallOps DEF WriteParts
<1>2. PICK b \in 0..255 : b = c.val
  BY HeardAddress
<1>3. PICK m \in ByteModes : m = Heard(c, "data")
  BY DEF Heard, ByteModes
<1> HIDE DEF s
<1>4. \/ SendIn(95, m, b, k + 1)' /\ Quiet
      \/ k + 1 = 95 + 40 /\ Sent(m, b) /\ out
  <2>1. 95 \in Nat /\ Part(s, 95, i2c_send_byte(b), 40) /\ SendIn(95, m, b, k)
    BY <1>1, <1>2, <1>3
  <2>2. SendGoes(s, 95, m, b, k)
    BY SendInStep
  <2> QED
    BY <1>1, <2>1, <2>2 DEF SendGoes
<1>5. CASE SendIn(95, m, b, k + 1)' /\ Quiet
  BY <1>2, <1>3, <1>5, Kept DEF Quiet, Settled
<1>6. CASE k + 1 = 135 /\ Sent(m, b) /\ out
  <2>1. Ack(m, b, 0)' /\ out' /\ rx' = rx
    BY <1>3, <1>6 DEF Sent, Heard
  <2>2. StopWrite(m, b, 0)'
    BY <2>1 DEF Ack, StopWrite
  <2>3. StopWriteIn(135, m, b, k + 1)'
    <3>1. 0 \in 0..6 /\ k + 1 = 135 + 0
      BY <1>6
    <3> QED
      BY <2>2, <3>1 DEF StopWriteIn
  <2>4. Stored(c, k + 1)'
    BY <1>2, <1>3, <2>3 DEF Stored
  <2>5. CASE Here(c)
    <3>1. m = "data" /\ slave.ptr \in Addrs /\ slave.ptr = c.addr
      BY <1>3, <2>5 DEF Heard, Pointed, CallOK
    <3>2. mem' = [mem EXCEPT ![slave.ptr] = b] /\ served'
      BY <1>6, <3>1 DEF Sent
    <3> QED
      BY <1>2, <1>6, <2>1, <2>4, <2>5, <3>1, <3>2 DEF Storing
  <2>6. CASE ~Here(c)
    <3>1. m = "off"
      BY <1>3, <2>6 DEF Heard
    <3>2. mem' = mem /\ served' = served
      BY <1>6, <3>1 DEF Sent
    <3> QED
      BY <1>6, <2>1, <2>4, <2>6, <3>2 DEF Storing, Fresh, Settled
  <2> QED
    BY <2>5, <2>6
<1> QED
  BY <1>4, <1>5, <1>6

(* ... and the stop condition that follows it. *)
LEMMA StoredStep ==
  ASSUME Good, NEW c, CallOK(c), c.op = "write", NEW k \in Nat, k < 142,
         Stored(c, k), Moves(Ops(c)[k + 1])
  PROVE  Settled /\ rx' = rx /\ Stored(c, k + 1)'
<1> DEFINE s == Ops(c)
<1>1. Part(s, 135, i2c_stop_bit, 7) /\ Moves(s[k + 1])
  BY CallOps DEF WriteParts
<1>2. PICK b \in 0..255 : b = c.val
  BY HeardAddress
<1>3. PICK m \in StoreModes : m = Heard(c, "data")
  BY DEF Heard, StoreModes
<1>4. PICK at \in Nat : at = 135
  OBVIOUS
<1> HIDE DEF s
<1>5. /\ Settled /\ rx' = rx
      /\ StopWriteIn(at, m, b, k + 1)' \/ (k + 1 = at + 7 /\ Free')
  <2>1. Part(s, at, i2c_stop_bit, 7) /\ StopWriteIn(at, m, b, k)
    BY <1>1, <1>2, <1>3, <1>4 DEF Stored
  <2>2. Moves(s[k + 1])
    BY <1>1
  <2>3. StopWriteGoes(s, at, m, b, k)
    BY StopWriteInStep
  <2> QED
    BY <2>1, <2>2, <2>3 DEF StopWriteGoes
<1> QED
  BY <1>2, <1>3, <1>4, <1>5 DEF Stored

(* What an operation does to the chip's registers, seen from the caller. *)
Effect(c) ==
  \/ Settled /\ Undisturbed(c)
  \/ /\ Here(c) /\ ~served /\ served' /\ c.op = "write"
     /\ mem' = [mem EXCEPT ![c.addr] = c.val]
  \/ /\ Here(c) /\ ~served /\ served' /\ c.op = "read"
     /\ mem' = mem /\ slave'.byte = mem[c.addr]

(* The holder of the lock goes on from At(c, k) to At(c, k + 1). *)
LEMMA AtStep ==
  ASSUME Good, NEW c, CallOK(c), NEW k \in Nat, k < Len(Ops(c)), At(c, k),
         Moves(Ops(c)[k + 1])
  PROVE  At(c, k + 1)' /\ Effect(c)
<1>1. CASE Fresh /\ Addressed(c, k)
  <2>1. /\ Settled /\ Fresh'
        /\ \/ Addressed(c, k + 1)'
           \/ /\ k + 1 = 95 /\ Pointed(c)'
              /\ \A b \in 0..255 : Hears(Heard(c, "data"), b, 0)'
    BY <1>1, AddressedStep
  <2>2. Effect(c)
    BY <1>1, <2>1 DEF Effect, Fresh, Undisturbed
  <2>3. CASE Addressed(c, k + 1)'
    BY <2>1, <2>2, <2>3 DEF At
  <2>4. CASE k + 1 = 95 /\ Pointed(c)' /\ \A b \in 0..255 : Hears(Heard(c, "data"), b, 0)'
    <3>1. PICK b \in 0..255 : b = c.val
      BY HeardAddress
    <3>2. Hears(Heard(c, "data"), b, 0)'
      BY <2>4
    <3>3. CASE c.op = "read"
      <4>1. Start(0)'
        BY <3>2 DEF Hears, Deaf, Start
      <4>2. 0 \in 0..4 /\ k + 1 = 95 + 0
        BY <2>4
      <4>3. StartIn(95, k + 1)'
        BY <4>1, <4>2 DEF StartIn
      <4> QED
        BY <2>1, <2>2, <2>4, <3>3, <4>3 DEF At, Asked
    <3>4. CASE c.op = "write"
      <4>1. 95 \in Nat /\ k + 1 = 95
        BY <2>4
      <4>2. SendIn(95, Heard(c, "data"), b, k + 1)'
        BY <3>2, <4>1, SendBegins
      <4> QED
        BY <2>1, <2>2, <2>4, <3>1, <3>4, <4>2 DEF At
    <3> QED
      BY <3>3, <3>4 DEF CallOK
  <2> QED
    BY <2>1, <2>3, <2>4
<1>2. CASE c.op = "read" /\ Fresh /\ Pointed(c) /\ Asked(c, k)
  <2>1. /\ mem' = mem
        /\ \/ Settled /\ Fresh' /\ Pointed(c)' /\ Asked(c, k + 1)'
           \/ Fetching(c, k)
    BY <1>2, AskedStep
  <2>2. CASE Settled /\ Fresh' /\ Pointed(c)' /\ Asked(c, k + 1)'
    BY <1>2, <2>2 DEF At, Effect, Fresh, Undisturbed
  <2>3. CASE Fetching(c, k)
    <3>1. At(c, k + 1)'
      BY <1>2, <2>3 DEF Fetching, At, Fetched
    <3>2. CASE Here(c)
      BY <1>2, <2>1, <2>3, <3>1, <3>2 DEF Fetching, Effect, Fresh
    <3>3. CASE ~Here(c)
      <4>1. served' = served
        BY <2>3, <3>3 DEF Fetching
      <4> QED
        BY <2>1, <3>1, <3>3, <4>1 DEF Effect, Settled, Undisturbed
    <3> QED
      BY <3>2, <3>3
  <2> QED
    BY <2>1, <2>2, <2>3
<1>3. CASE /\ c.op = "read" /\ (served <=> Here(c))
           /\ \E x \in Values \union {255} : Result(c, x) /\ Fetched(c, x, k)
  <2>1. PICK x : x \in Values \union {255} /\ Result(c, x) /\ Fetched(c, x, k)
    BY <1>3
  <2>2. x \in 0..255
    BY <2>1, AddressFacts
  <2>3. k < 192
    <3>1. c.op = "read"
      BY <1>3
    <3>2. IsOps(Ops(c), 192)
      BY <3>1, CallOps
    <3> QED
      BY <3>2 DEF IsOps
  <2>4. Settled /\ Fetched(c, x, k + 1)' /\ Undisturbed(c)
    <3>1. c.op = "read" /\ Result(c, x) /\ Fetched(c, x, k)
      BY <1>3, <2>1
    <3> QED
      BY <2>2, <2>3, <3>1, FetchedStep
  <2> QED
    BY <1>3, <2>1, <2>4 DEF At, Effect, Settled, Undisturbed
<1>4. CASE /\ c.op = "write" /\ Fresh /\ Pointed(c)
           /\ SendIn(95, Heard(c, "data"), c.val, k)
  <2>1. /\ rx' = rx
        /\ \/ Settled /\ Pointed(c)' /\ SendIn(95, Heard(c, "data"), c.val, k + 1)'
           \/ Storing(c, k)
    BY <1>4, StoringStep
  <2>2. CASE Settled /\ Pointed(c)' /\ SendIn(95, Heard(c, "data"), c.val, k + 1)'
    BY <1>4, <2>1, <2>2 DEF At, Effect, Fresh, Settled, Undisturbed
  <2>3. CASE Storing(c, k)
    <3>1. At(c, k + 1)'
      BY <1>4, <2>1, <2>3 DEF Storing, At, Fresh
    <3>2. CASE Here(c)
      BY <1>4, <2>3, <3>1, <3>2 DEF Storing, Effect, Fresh
    <3>3. CASE ~Here(c)
      BY <2>3, <3>1, <3>3 DEF Effect, Storing, Undisturbed
    <3> QED
      BY <3>2, <3>3
  <2> QED
    BY <2>1, <2>2, <2>3
<1>5. CASE c.op = "write" /\ rx = 0 /\ (served <=> Here(c)) /\ Stored(c, k)
  <2>1. k < 142
    BY <1>5, CallOps DEF IsOps
  <2>2. Settled /\ rx' = rx /\ Stored(c, k + 1)'
    BY <1>5, <2>1, StoredStep
  <2> QED
    BY <1>5, <2>2 DEF At, Effect, Settled, Undisturbed
<1> QED
  BY <1>1, <1>2, <1>3, <1>4, <1>5 DEF At
-----------------------------------------------------------------------------
(* Where a call is depends on the pins and on the chip's side of the bus.  *)
LEMMA AtSame ==
  ASSUME UNCHANGED <<pins, rx, slave, served>>, NEW c, NEW k, At(c, k)
  PROVE  At(c, k)'
<1>1. /\ scl' = scl /\ latch' = latch /\ out' = out /\ rx' = rx /\ slave' = slave
      /\ served' = served
  BY DEF pins
<1>2. Deaf => Deaf'
  BY <1>1 DEF Deaf
<1>3. \A m, b, n : Hears(m, b, n) => Hears(m, b, n)'
  BY <1>1, <1>2 DEF Hears
<1>4. \A m, b : Acks(m, b) => Acks(m, b)'
  BY <1>1, <1>2 DEF Acks
<1>5. \A m, x, i : Shows(m, x, i) => Shows(m, x, i)'
  BY <1>1, <1>2 DEF Shows
<1>6. \A at, j : StartIn(at, j) => StartIn(at, j)'
  <2>1. \A j : Start(j) => Start(j)'
    BY <1>1 DEF Start
  <2> QED
    BY <2>1 DEF StartIn
<1>7. \A at, m, b, j : SendIn(at, m, b, j) => SendIn(at, m, b, j)'
  <2>1. \A m, b, i, j : Send(m, b, i, j) => Send(m, b, i, j)'
    BY <1>1, <1>3 DEF Send
  <2> QED
    BY <2>1 DEF SendIn
<1>8. \A at, m, b, j : AckIn(at, m, b, j) => AckIn(at, m, b, j)'
  <2>1. \A m, b, j : Ack(m, b, j) => Ack(m, b, j)'
    BY <1>1, <1>4 DEF Ack
  <2> QED
    BY <2>1 DEF AckIn
<1>9. \A at, m, x, j : FetchIn(at, m, x, j) => FetchIn(at, m, x, j)'
  <2>1. \A m, x, i, j : Fetch(m, x, i, j) => Fetch(m, x, i, j)'
    BY <1>1, <1>5 DEF Fetch
  <2> QED
    BY <2>1 DEF FetchIn
<1>10. \A at, m, x, j : StopReadIn(at, m, x, j) => StopReadIn(at, m, x, j)'
  <2>1. \A m, x, j : StopRead(m, x, j) => StopRead(m, x, j)'
    BY <1>1, <1>2, <1>5 DEF StopRead
  <2> QED
    BY <2>1 DEF StopReadIn
<1>11. \A at, m, b, j : StopWriteIn(at, m, b, j) => StopWriteIn(at, m, b, j)'
  <2>1. \A m, b, j : StopWrite(m, b, j) => StopWrite(m, b, j)'
    BY <1>1, <1>2, <1>4 DEF StopWrite
  <2> QED
    BY <2>1 DEF StopWriteIn
<1>12. (Free => Free') /\ (Fresh => Fresh') /\ (Pointed(c) => Pointed(c)')
  BY <1>1, <1>2 DEF Free, Fresh, Pointed
<1>13. Addressed(c, k) => Addressed(c, k)'
  BY <1>6, <1>7, <1>8, <1>12 DEF Addressed
<1>14. Asked(c, k) => Asked(c, k)'
  BY <1>6, <1>7, <1>8 DEF Asked
<1>15. \A x : Fetched(c, x, k) => Fetched(c, x, k)'
  BY <1>1, <1>9, <1>10, <1>12 DEF Fetched
<1>16. Stored(c, k) => Stored(c, k)'
  BY <1>11, <1>12 DEF Stored
<1> QED
  BY <1>1, <1>7, <1>12, <1>13, <1>14, <1>15, <1>16 DEF At

(* When its operations are done, a call has left the bus idle, the chip    *)
(* has served it, and a read has its byte.                                 *)
LEMMA AtEnd ==
  ASSUME NEW c, CallOK(c), At(c, Len(Ops(c)))
  PROVE  /\ Free /\ (served <=> Here(c))
         /\ c.op = "read" => Result(c, rx) /\ rx \in Values \union {255}
                             /\ (Here(c) => slave.byte = rx)
<1>1. PICK k \in Nat : k = Len(Ops(c))
  BY CallOps DEF IsOps, CallOK
<1>2. (c.op = "read" => k = 192) /\ (c.op = "write" => k = 142)
  BY <1>1, CallOps, Zenon DEF IsOps
<1>3. /\ \A at \in Nat : StartIn(at, k) => k <= at + 4
      /\ \A m, b : \A at \in Nat : SendIn(at, m, b, k) => k <= at + 39
      /\ \A m, b : \A at \in Nat : AckIn(at, m, b, k) => k <= at + 4
      /\ \A m, x : \A at \in Nat : FetchIn(at, m, x, k) => k <= at + 39
      /\ \A m, x : \A at \in Nat : StopReadIn(at, m, x, k) => k <= at + 6
      /\ \A m, b : \A at \in Nat : StopWriteIn(at, m, b, k) => k <= at + 6
  BY DEF StartIn, SendIn, AckIn, FetchIn, StopReadIn, StopWriteIn
<1>4. /\ Addressed(c, k) => k <= 94
      /\ Asked(c, k) => k <= 144
      /\ SendIn(95, Heard(c, "data"), c.val, k) => k <= 134
      /\ \A x : Fetched(c, x, k) => k <= 191 \/ (Free /\ rx = x /\ (Here(c) => slave.byte = x))
      /\ Stored(c, k) => k <= 141 \/ Free
  BY <1>3 DEF Addressed, Asked, Fetched, Stored
<1>5. CASE c.op = "read"
  <2>1. k = 192
    BY <1>2, <1>5
  <2>2. (served <=> Here(c)) /\ \E x \in Values \union {255} : Result(c, x) /\ Fetched(c, x, k)
    BY <1>1, <1>4, <1>5, <2>1 DEF At
  <2> QED
    BY <1>4, <1>5, <2>1, <2>2
<1>6. CASE c.op = "write"
  <2>1. k = 142
    BY <1>2, <1>6
  <2>2. (served <=> Here(c)) /\ Stored(c, k)
    BY <1>1, <1>4, <1>6, <2>1 DEF At
  <2> QED
    BY <1>4, <1>6, <2>1, <2>2
<1> QED
  BY <1>5, <1>6 DEF CallOK

(* The calls the threads are in. *)
LEMMA CallTypes ==
  ASSUME io \in [Threads -> Calls \union {NoCall}], NEW t \in Threads
  PROVE  /\ io[t].at \in {"idle", "lock", "bits", "done"}
         /\ io[t].at = "idle" <=> io[t] = NoCall
         /\ io[t].at # "idle" =>
              /\ io[t] \in Calls /\ io[t].op \in {"read", "write"}
              /\ io[t].dev \in Devices /\ io[t].addr \in Addrs
              /\ io[t].val \in Values \union {255}
<1>1. io[t] \in Calls \/ io[t] = NoCall
  OBVIOUS
<1>2. NoCall.at = "idle"
  BY DEF NoCall
<1>3. \A c \in Calls : /\ c.at \in {"lock", "bits", "done"} /\ c.op \in {"read", "write"}
                       /\ c.dev \in Devices /\ c.addr \in Addrs
                       /\ c.val \in Values \union {255}
  BY DEF Calls
<1> QED
  BY <1>1, <1>2, <1>3

(* A call keeps its operands when it goes on. *)
LEMMA SetAt ==
  ASSUME NEW c \in Calls, NEW x \in {"lock", "bits", "done"}
  PROVE  /\ [c EXCEPT !.at = x] \in Calls
         /\ [c EXCEPT !.at = x].at = x /\ [c EXCEPT !.at = x].op = c.op
         /\ [c EXCEPT !.at = x].dev = c.dev /\ [c EXCEPT !.at = x].addr = c.addr
         /\ [c EXCEPT !.at = x].val = c.val
BY DEF Calls

Over(c, x) == [c EXCEPT !.at = "done", !.val = x]

LEMMA Finished ==
  ASSUME NEW c \in Calls, NEW x, x \in Values \/ x = 255
  PROVE  /\ Over(c, x) \in Calls
         /\ Over(c, x).at = "done" /\ Over(c, x).op = c.op /\ Over(c, x).dev = c.dev
         /\ Over(c, x).addr = c.addr /\ Over(c, x).val = x
BY DEF Calls, Over
-----------------------------------------------------------------------------
(* The type invariant, by its parts. *)
LEMMA TypesAre ==
  TypeOK <=> /\ lock \in Threads \union {NoThread}
             /\ io \in [Threads -> Calls \union {NoCall}]
             /\ pos \in Nat /\ Good
BY DEF TypeOK, Good, PinsOK, SlaveType, Modes

(* The invariant is inductive. *)
LEMMA BusInit ==
  ASSUME Init
  PROVE  BusInv
<1>1. /\ lock = NoThread /\ io = [t \in Threads |-> NoCall] /\ pos = 0 /\ rx = 0
      /\ served = FALSE /\ scl = 1 /\ latch = 1 /\ out = TRUE /\ slave = Off
      /\ mem \in [Addrs -> Values] /\ winner \in {0, 1}
  BY DEF Init
<1>2. \A t \in Threads : io[t].at = "idle"
  BY <1>1, Zenon DEF NoCall
<1>3. slave \in SlaveType /\ slave.mode = "off" /\ slave.low = FALSE
  BY <1>1 DEF Off, SlaveType, Modes
<1>4. TypeOK
  <2>1. Good
    <3>1. served \in BOOLEAN /\ out \in BOOLEAN
      BY <1>1
    <3>2. rx \in 0..255 /\ scl \in {0, 1} /\ latch \in {0, 1}
      BY <1>1
    <3> QED
      BY <1>1, <1>3, <3>1, <3>2 DEF Good, PinsOK
  <2> QED
    BY <1>1, <2>1, TypesAre
<1>5. ValuesInv
  BY <1>2 DEF ValuesInv
<1>6. \A t \in Threads : io[t].at # "bits" /\ lock # t
  BY <1>1, <1>2, I2cAssumption, Zenon
<1>7. Free /\ Fresh
  BY <1>1, <1>3 DEF Free, Deaf, Fresh
<1> QED
  BY <1>1, <1>4, <1>5, <1>6, <1>7 DEF BusInv

(* Nothing that the pins show changes while a thread calls or returns. *)
LEMMA CallStep ==
  ASSUME BusInv, NEW t \in Threads, io[t].at # "bits",
         io' \in [Threads -> Calls \union {NoCall}],
         \A u \in Threads \ {t} : io'[u] = io[u],
         io'[t].at # "bits", io'[t].at # "done",
         io'[t].at # "idle" => io'[t].val \in Values,
         UNCHANGED <<lock, pos, pins, rx, slave, served, mem, winner>>
  PROVE  BusInv'
<1>1. /\ TypeOK /\ ValuesInv /\ (\A u \in Threads : io[u].at = "bits" <=> lock = u)
      /\ (lock = NoThread => Free /\ pos = 0 /\ Fresh)
      /\ (\A u \in Threads : lock = u => At(io[u], pos))
  BY DEF BusInv
<1>2. /\ lock' = lock /\ pos' = pos /\ UNCHANGED <<pins, rx, slave, served>>
      /\ scl' = scl /\ latch' = latch /\ out' = out /\ rx' = rx /\ slave' = slave
      /\ served' = served /\ mem' = mem /\ winner' = winner
  BY DEF pins
<1>3. TypeOK'
  BY <1>1, <1>2 DEF TypeOK
<1>4. ValuesInv'
  <2> SUFFICES ASSUME NEW u \in Threads, io'[u].at # "idle"
               PROVE  IF io'[u].at = "done" /\ io'[u].op = "read"
                      THEN Result(io'[u], io'[u].val) ELSE io'[u].val \in Values
    BY DEF ValuesInv, Result, Here
  <2>1. CASE u = t
    BY <2>1
  <2>2. CASE u # t
    BY <1>1, <2>2 DEF ValuesInv
  <2> QED
    BY <2>1, <2>2
<1>5. \A u \in Threads : io'[u].at = "bits" <=> lock' = u
  BY <1>1, <1>2
<1>6. lock' = NoThread => (Free /\ pos = 0 /\ Fresh)'
  BY <1>1, <1>2 DEF Free, Deaf, Fresh
<1>7. ASSUME NEW u \in Threads, lock' = u
      PROVE  At(io[u], pos)'
  <2>1. u # t /\ At(io[u], pos)
    BY <1>1, <1>2, <1>7
  <2>2. PICK c, k : c = io[u] /\ k = pos
    OBVIOUS
  <2>3. At(c, k)'
    BY <1>2, <2>1, <2>2, AtSame
  <2>4. io'[u] = c /\ pos' = k
    BY <1>2, <2>1, <2>2
  <2> QED
    BY <2>3, <2>4
<1> QED
  BY <1>3, <1>4, <1>5, <1>6, <1>7 DEF BusInv

(* A new call has its operands. *)
LEMMA NewCall ==
  ASSUME NEW a \in {"lock", "bits", "done"}, NEW o \in {"read", "write"},
         NEW d \in Devices, NEW r \in Addrs, NEW v \in Values
  PROVE  [at |-> a, op |-> o, dev |-> d, addr |-> r, val |-> v] \in Calls
BY DEF Calls

(* The invariant, action by action. *)
LEMMA CallInv ==
  ASSUME BusInv, NEW t \in Threads, Call(t)
  PROVE  BusInv'
<1>1. PICK o \in {"read", "write"}, d \in Devices, a \in Addrs, v \in Values :
        io' = [io EXCEPT ![t] = [at |-> "lock", op |-> o, dev |-> d, addr |-> a,
                                 val |-> v]]
  BY DEF Call
<1> DEFINE c == [at |-> "lock", op |-> o, dev |-> d, addr |-> a, val |-> v]
<1>2. c \in Calls /\ c.at = "lock" /\ c.val = v
  BY NewCall
<1>3. /\ io \in [Threads -> Calls \union {NoCall}] /\ io[t].at = "idle"
      /\ UNCHANGED <<lock, pos, pins, rx, slave, served, mem, winner>>
  BY DEF BusInv, TypeOK, Call
<1>4. io' = [io EXCEPT ![t] = c]
  BY <1>1
<1> HIDE DEF c
<1>5. /\ io' \in [Threads -> Calls \union {NoCall}]
      /\ \A u \in Threads \ {t} : io'[u] = io[u]
      /\ io'[t] = c
  BY <1>2, <1>3, <1>4
<1> QED
  BY <1>2, <1>3, <1>5, CallStep

LEMMA ReturnInv ==
  ASSUME BusInv, NEW t \in Threads, Return(t)
  PROVE  BusInv'
<1>1. /\ io \in [Threads -> Calls \union {NoCall}] /\ io[t].at = "done"
      /\ io' = [io EXCEPT ![t] = NoCall]
      /\ UNCHANGED <<lock, pos, pins, rx, slave, served, mem, winner>>
  BY DEF BusInv, TypeOK, Return
<1>2. /\ io' \in [Threads -> Calls \union {NoCall}]
      /\ \A u \in Threads \ {t} : io'[u] = io[u]
      /\ io'[t] = NoCall
  BY <1>1
<1>3. NoCall.at = "idle"
  BY DEF NoCall
<1> QED
  BY <1>1, <1>2, <1>3, CallStep

(* A caller that waits for the lock or holds it has its operands. *)
LEMMA HolderOK ==
  ASSUME BusInv, NEW t \in Threads, io[t].at \in {"lock", "bits"}
  PROVE  CallOK(io[t]) /\ io[t] \in Calls
<1>1. io \in [Threads -> Calls \union {NoCall}] /\ ValuesInv
  BY DEF BusInv, TypeOK
<1>2. /\ io[t] \in Calls /\ io[t].op \in {"read", "write"} /\ io[t].dev \in Devices
      /\ io[t].addr \in Addrs
  BY <1>1, CallTypes
<1>3. io[t].val \in Values
  BY <1>1 DEF ValuesInv
<1> QED
  BY <1>2, <1>3 DEF CallOK

LEMMA AcquireInv ==
  ASSUME BusInv, NEW t \in Threads, Acquire(t)
  PROVE  BusInv'
<1>1. /\ TypeOK /\ ValuesInv /\ (\A u \in Threads : io[u].at = "bits" <=> lock = u)
      /\ Free /\ pos = 0 /\ Fresh /\ lock = NoThread
  BY DEF BusInv, Acquire
<1>2. /\ io[t].at = "lock" /\ lock' = t /\ io' = [io EXCEPT ![t].at = "bits"]
      /\ UNCHANGED <<pos, pins, rx, slave, served, mem, winner>>
  BY DEF Acquire
<1>3. CallOK(io[t]) /\ io[t] \in Calls
  BY <1>2, HolderOK
<1>4. PICK c \in Calls :
        /\ c = [io[t] EXCEPT !.at = "bits"] /\ c.at = "bits" /\ c.val = io[t].val
        /\ c.op = io[t].op
  BY <1>3, SetAt
<1>5. io \in [Threads -> Calls \union {NoCall}]
  BY <1>1 DEF TypeOK
<1>6. /\ io' \in [Threads -> Calls \union {NoCall}]
      /\ \A u \in Threads \ {t} : io'[u] = io[u]
      /\ io'[t] = c
  <2>1. io' = [io EXCEPT ![t] = c]
    BY <1>2, <1>4, <1>5
  <2> QED
    BY <1>5, <2>1
<1>7. TypeOK'
  BY <1>1, <1>2, <1>6 DEF TypeOK, pins
<1>8. ValuesInv'
  <2> SUFFICES ASSUME NEW u \in Threads, io'[u].at # "idle"
               PROVE  IF io'[u].at = "done" /\ io'[u].op = "read"
                      THEN Result(io'[u], io'[u].val) ELSE io'[u].val \in Values
    BY DEF ValuesInv, Result, Here
  <2>1. CASE u = t
    BY <1>3, <1>4, <1>6, <2>1 DEF CallOK
  <2>2. CASE u # t
    BY <1>1, <1>6, <2>2 DEF ValuesInv
  <2> QED
    BY <2>1, <2>2
<1>9. \A u \in Threads : io'[u].at = "bits" <=> lock' = u
  <2>1. \A u \in Threads : io[u].at # "bits"
    BY <1>1, I2cAssumption, Zenon
  <2> QED
    BY <1>2, <1>4, <1>6, <2>1
<1>10. lock' # NoThread
  BY <1>2, I2cAssumption
<1>11. At(io[t], pos)'
  <2>1. Start(0)' /\ Fresh'
    BY <1>1, <1>2 DEF Free, Deaf, Start, Fresh
  <2>2. StartIn(0, 0)'
    <3>1. 0 \in 0..4 /\ 0 = 0 + 0
      OBVIOUS
    <3> QED
      BY <2>1, <3>1 DEF StartIn
  <2>3. At(c, 0)'
    BY <2>1, <2>2 DEF Addressed, At
  <2>4. io'[t] = c /\ pos' = 0
    BY <1>1, <1>2, <1>6
  <2> QED
    BY <2>3, <2>4
<1> QED
  BY <1>2, <1>7, <1>8, <1>9, <1>10, <1>11 DEF BusInv

(* A step of the holder, for the invariant and for what it does. *)
LEMMA PinInv ==
  ASSUME BusInv, NEW t \in Threads, PinStep(t)
  PROVE  BusInv' /\ Effect(io[t])
<1>1. /\ TypeOK /\ ValuesInv /\ (\A u \in Threads : io[u].at = "bits" <=> lock = u)
      /\ Good /\ pos \in Nat
  BY TypesAre DEF BusInv
<1>2. /\ io[t].at = "bits" /\ lock = t
      /\ pos < Len(Ops(io[t])) /\ Moves(Ops(io[t])[pos + 1])
      /\ pos' = pos + 1 /\ UNCHANGED <<lock, io, winner>>
  BY StepMoves
<1>3. PICK c, k : c = io[t] /\ k = pos
  OBVIOUS
<1>4. CallOK(c) /\ At(c, k) /\ k \in Nat /\ k < Len(Ops(c)) /\ Moves(Ops(c)[k + 1])
  BY <1>1, <1>2, <1>3, HolderOK DEF BusInv
<1>5. At(c, k + 1)' /\ Effect(c)
  BY <1>1, <1>4, AtStep
<1>6. Good'
  <2>1. PICK p \in PinOps : Moves(p)
    <3>1. IsOps(Ops(c), 192) \/ IsOps(Ops(c), 142)
      BY <1>4, CallOps DEF CallOK
    <3>2. Ops(c)[k + 1] \in PinOps
      BY <1>4, <3>1 DEF IsOps
    <3> QED
      BY <1>4, <3>2
  <2>2. PinsOK'
    BY <1>1, <1>2, <2>1, PinTypes DEF Good
  <2>3. served' \in BOOLEAN /\ mem' \in [Addrs -> Values]
    <3>1. mem \in [Addrs -> Values] /\ served \in BOOLEAN
      BY <1>1 DEF Good
    <3>2. CASE Settled
      BY <3>1, <3>2 DEF Settled
    <3>3. CASE served' /\ mem' = [mem EXCEPT ![c.addr] = c.val]
      BY <1>4, <3>1, <3>3 DEF CallOK
    <3>4. CASE served' /\ mem' = mem
      BY <3>1, <3>4
    <3> QED
      BY <1>5, <3>2, <3>3, <3>4 DEF Effect
  <2> QED
    BY <2>2, <2>3 DEF Good
<1>7. TypeOK'
  <2>1. lock' = lock /\ io' = io /\ pos' \in Nat
    BY <1>1, <1>2
  <2>2. lock \in Threads \union {NoThread} /\ io \in [Threads -> Calls \union {NoCall}]
    BY <1>1 DEF TypeOK
  <2>3. /\ lock' \in Threads \union {NoThread}
        /\ io' \in [Threads -> Calls \union {NoCall}]
    BY <2>1, <2>2
  <2> QED
    BY <1>6, <2>1, <2>3 DEF TypeOK, Good, PinsOK, SlaveType, Modes
<1>8. ValuesInv'
  BY <1>1, <1>2 DEF ValuesInv, Result, Here
<1>9. ASSUME NEW u \in Threads, lock' = u
      PROVE  At(io[u], pos)'
  <2>1. u = t /\ io'[u] = c /\ pos' = k + 1
    BY <1>2, <1>3, <1>9
  <2> QED
    BY <1>5, <2>1
<1>10. lock' # NoThread /\ \A u \in Threads : io'[u].at = "bits" <=> lock' = u
  BY <1>1, <1>2, I2cAssumption
<1> QED
  BY <1>3, <1>5, <1>7, <1>8, <1>9, <1>10 DEF BusInv

(* What the holder knows when it gives the lock back. *)
LEMMA ReleaseFacts ==
  ASSUME BusInv, NEW t \in Threads, Release(t)
  PROVE  /\ CallOK(io[t]) /\ io[t] \in Calls /\ Free /\ (served <=> Here(io[t]))
         /\ io[t].op = "read" => /\ Result(io[t], rx) /\ rx \in Values \union {255}
                                 /\ Here(io[t]) => slave.byte = rx
         /\ io' \in [Threads -> Calls \union {NoCall}]
         /\ \A u \in Threads \ {t} : io'[u] = io[u]
         /\ io'[t].at = "done" /\ io'[t].op = io[t].op /\ io'[t].dev = io[t].dev
         /\ io'[t].addr = io[t].addr
         /\ io'[t].val = IF io[t].op = "read" THEN rx ELSE io[t].val
<1>1. /\ io[t].at = "bits" /\ lock = t /\ pos = Len(Ops(io[t]))
      /\ io' = [io EXCEPT ![t].at = "done",
                          ![t].val = IF io[t].op = "read" THEN rx ELSE @]
  BY DEF Release
<1>2. CallOK(io[t]) /\ io[t] \in Calls
  BY <1>1, HolderOK
<1>3. At(io[t], Len(Ops(io[t])))
  BY <1>1 DEF BusInv
<1>4. /\ Free /\ (served <=> Here(io[t]))
      /\ io[t].op = "read" => /\ Result(io[t], rx) /\ rx \in Values \union {255}
                              /\ Here(io[t]) => slave.byte = rx
  BY <1>2, <1>3, AtEnd
<1>5. io \in [Threads -> Calls \union {NoCall}]
  BY DEF BusInv, TypeOK
<1>6. PICK v \in Values \union {255} : v = IF io[t].op = "read" THEN rx ELSE io[t].val
  <2>1. (IF io[t].op = "read" THEN rx ELSE io[t].val) \in Values \union {255}
    BY <1>2, <1>4 DEF CallOK
  <2> QED
    BY <2>1
<1>7. v \in Values \/ v = 255
  OBVIOUS
<1>8. PICK e \in Calls :
        /\ e = Over(io[t], v)
        /\ e.at = "done" /\ e.op = io[t].op /\ e.dev = io[t].dev /\ e.addr = io[t].addr
        /\ e.val = v
  BY <1>2, <1>7, Finished
<1>9. io' = [io EXCEPT ![t] = e]
  BY <1>1, <1>5, <1>6, <1>8 DEF Over
<1>10. io'[t] = e /\ io' \in [Threads -> Calls \union {NoCall}]
       /\ \A u \in Threads \ {t} : io'[u] = io[u]
  BY <1>5, <1>9
<1> QED
  BY <1>2, <1>4, <1>6, <1>8, <1>10

LEMMA ReleaseInv ==
  ASSUME BusInv, NEW t \in Threads, Release(t)
  PROVE  BusInv'
<1>1. /\ TypeOK /\ ValuesInv /\ (\A u \in Threads : io[u].at = "bits" <=> lock = u)
      /\ lock = t
  BY DEF BusInv, Release
<1>2. /\ lock' = NoThread /\ pos' = 0 /\ rx' = 0 /\ served' = FALSE
      /\ scl' = scl /\ latch' = latch /\ out' = out /\ slave' = slave /\ mem' = mem
      /\ winner' = winner
  BY DEF Release, pins
<1>3. /\ CallOK(io[t]) /\ Free
      /\ io[t].op = "read" => Result(io[t], rx)
      /\ io' \in [Threads -> Calls \union {NoCall}]
      /\ \A u \in Threads \ {t} : io'[u] = io[u]
      /\ io'[t].at = "done" /\ io'[t].op = io[t].op /\ io'[t].dev = io[t].dev
      /\ io'[t].val = IF io[t].op = "read" THEN rx ELSE io[t].val
  BY ReleaseFacts
<1>4. TypeOK'
  <2>1. served' \in BOOLEAN
    BY <1>2
  <2>2. rx' \in 0..255 /\ pos' \in Nat
    BY <1>2
  <2> QED
    BY <1>1, <1>2, <1>3, <2>1, <2>2 DEF TypeOK
<1>5. ValuesInv'
  <2> SUFFICES ASSUME NEW u \in Threads, io'[u].at # "idle"
               PROVE  IF io'[u].at = "done" /\ io'[u].op = "read"
                      THEN Result(io'[u], io'[u].val) ELSE io'[u].val \in Values
    BY DEF ValuesInv, Result, Here
  <2>1. CASE u = t
    BY <1>3, <2>1 DEF CallOK, Result, Here
  <2>2. CASE u # t
    BY <1>1, <1>3, <2>2 DEF ValuesInv
  <2> QED
    BY <2>1, <2>2
<1>6. \A u \in Threads : io'[u].at # "bits" /\ lock' # u
  BY <1>1, <1>2, <1>3, I2cAssumption
<1>7. (Free /\ pos = 0 /\ Fresh)'
  BY <1>2, <1>3 DEF Free, Deaf, Fresh
<1> QED
  BY <1>4, <1>5, <1>6, <1>7 DEF BusInv

LEMMA BusStep ==
  ASSUME BusInv, [Next]_vars
  PROVE  BusInv'
<1>1. CASE UNCHANGED vars
  <2>1. /\ lock' = lock /\ io' = io /\ pos' = pos /\ UNCHANGED <<pins, rx, slave, served>>
        /\ scl' = scl /\ latch' = latch /\ out' = out /\ rx' = rx /\ slave' = slave
        /\ served' = served /\ mem' = mem /\ winner' = winner
    BY <1>1 DEF vars, pins
  <2>2. TypeOK' /\ ValuesInv'
    BY <2>1 DEF BusInv, TypeOK, ValuesInv, Result, Here
  <2>3. /\ \A u \in Threads : io'[u].at = "bits" <=> lock' = u
        /\ lock' = NoThread => (Free /\ pos = 0 /\ Fresh)'
    BY <2>1 DEF BusInv, Free, Deaf, Fresh
  <2>4. ASSUME NEW u \in Threads, lock' = u
        PROVE  At(io[u], pos)'
    <3>1. PICK c, k : c = io[u] /\ k = pos
      OBVIOUS
    <3>2. At(c, k)
      BY <2>1, <2>4, <3>1 DEF BusInv
    <3>3. At(c, k)'
      BY <2>1, <3>2, AtSame
    <3> QED
      BY <2>1, <3>1, <3>3
  <2> QED
    BY <2>2, <2>3, <2>4 DEF BusInv
<1>2. ASSUME NEW t \in Threads,
             \/ Call(t) \/ Acquire(t) \/ Release(t) \/ Return(t)
             \/ SclUp(t) \/ SclDown(t) \/ SdaPin(t) \/ Sample(t)
      PROVE  BusInv'
  BY <1>2, CallInv, AcquireInv, ReleaseInv, ReturnInv, PinInv DEF PinStep
<1> QED
  BY <1>1, <1>2 DEF Next

LEMMA BusInvImplies ==
  ASSUME BusInv
  PROVE  TypeOK /\ BusIdleBetweenCalls /\ AbsentReadsOnes
<1>1. BusIdleBetweenCalls
  BY DEF BusInv, BusIdleBetweenCalls, Free, Deaf
<1>2. AbsentReadsOnes
  <2> SUFFICES ASSUME NEW t \in Threads, io[t].at = "done", io[t].op = "read",
                      io[t].dev # Chip
               PROVE  io[t].val = 255
    BY DEF AbsentReadsOnes
  <2> QED
    BY DEF BusInv, ValuesInv, Result, Here
<1> QED
  BY <1>1, <1>2 DEF BusInv
-----------------------------------------------------------------------------
(* The pins implement the atomic registers of RegisterDevice.              *)
Stage(c, s, v) == [stage |-> s, op |-> c.op, addr |-> c.addr, val |-> v]

(* The abstract call of a thread, and the same after a step. *)
LEMMA CallOfIs ==
  ASSUME NEW t \in Threads
  PROVE  /\ io[t].at = "idle" \/ io[t].dev # Chip => CallOf(t) = Device!NoCall
         /\ io[t].at \in {"lock", "bits", "done"} /\ io[t].dev = Chip =>
              CallOf(t) = Stage(io[t],
                IF io[t].at = "done" \/ (io[t].at = "bits" /\ served)
                THEN "applied" ELSE "called",
                IF io[t].op = "read" /\ io[t].at = "bits" /\ served
                THEN slave.byte ELSE io[t].val)
BY DEF CallOf, Stage, Device!NoCall

LEMMA CallOfNext ==
  ASSUME NEW t \in Threads
  PROVE  /\ io'[t].at = "idle" \/ io'[t].dev # Chip => CallOf(t)' = Device!NoCall
         /\ io'[t].at \in {"lock", "bits", "done"} /\ io'[t].dev = Chip =>
              CallOf(t)' = Stage(io'[t],
                IF io'[t].at = "done" \/ (io'[t].at = "bits" /\ served')
                THEN "applied" ELSE "called",
                IF io'[t].op = "read" /\ io'[t].at = "bits" /\ served'
                THEN slave'.byte ELSE io'[t].val)
BY DEF CallOf, Stage, Device!NoCall

(* A thread without the lock keeps its abstract call. *)
LEMMA CallOfSame ==
  ASSUME NEW t \in Threads, io'[t] = io[t], io[t].at # "bits"
  PROVE  CallOf(t)' = CallOf(t)
BY DEF CallOf

Called == [t \in Threads |-> CallOf(t)]

(* A step that changes neither registers nor abstract calls. *)
LEMMA Stutters ==
  ASSUME mem' = mem, \A t \in Threads : CallOf(t)' = CallOf(t)
  PROVE  UNCHANGED Device!vars
BY DEF Device!vars

(* One abstract call changes. *)
LEMMA CalledOne ==
  ASSUME NEW t \in Threads, NEW a, CallOf(t)' = a,
         \A u \in Threads \ {t} : CallOf(u)' = CallOf(u)
  PROVE  Called' = [Called EXCEPT ![t] = a]
BY DEF Called

(* The record of an abstract call, and what it is updated to. *)
LEMMA StageFields == \A c, s, v :
  /\ Stage(c, s, v).stage = s /\ Stage(c, s, v).op = c.op
  /\ Stage(c, s, v).addr = c.addr /\ Stage(c, s, v).val = v
BY DEF Stage

LEMMA StageApplied == \A c, v :
  [Stage(c, "called", v) EXCEPT !.stage = "applied"] = Stage(c, "applied", v)
BY DEF Stage

LEMMA StageRead ==
  ASSUME NEW c, NEW v, NEW w
  PROVE  [Stage(c, "called", v) EXCEPT !.stage = "applied", !.val = w]
           = Stage(c, "applied", w)
<1>1. [Stage(c, "called", v) EXCEPT !.stage = "applied"] = Stage(c, "applied", v)
  BY DEF Stage
<1>2. [Stage(c, "applied", v) EXCEPT !.val = w] = Stage(c, "applied", w)
  BY DEF Stage
<1> QED
  BY <1>1, <1>2

LEMMA SetTwice ==
  ASSUME NEW f, f = [x \in Threads |-> f[x]], NEW t \in Threads, NEW s, NEW v
  PROVE  [f EXCEPT ![t].stage = s, ![t].val = v]
           = [f EXCEPT ![t] = [f[t] EXCEPT !.stage = s, !.val = v]]
BY Zenon

(* The refinement, action by action. *)
LEMMA CallRefines ==
  ASSUME BusInv, NEW t \in Threads, Call(t)
  PROVE  [Device!Next]_(Device!vars)
<1>1. PICK o \in {"read", "write"}, d \in Devices, a \in Addrs, v \in Values :
        io' = [io EXCEPT ![t] = [at |-> "lock", op |-> o, dev |-> d, addr |-> a,
                                 val |-> v]]
  BY DEF Call
<1>2. PICK c : c = [at |-> "lock", op |-> o, dev |-> d, addr |-> a, val |-> v]
  OBVIOUS
<1>3. c.at = "lock" /\ c.op = o /\ c.dev = d /\ c.addr = a /\ c.val = v
  BY <1>2
<1>4. /\ io \in [Threads -> Calls \union {NoCall}] /\ io[t].at = "idle" /\ mem' = mem
      /\ lock' = lock /\ served' = served /\ slave' = slave
  BY DEF BusInv, TypeOK, Call
<1>5. io'[t] = c /\ \A u \in Threads \ {t} : io'[u] = io[u]
  <2>1. io' = [io EXCEPT ![t] = c]
    BY <1>1, <1>2
  <2> QED
    BY <1>4, <2>1
<1>6. \A u \in Threads \ {t} : CallOf(u)' = CallOf(u)
  BY <1>4, <1>5 DEF CallOf
<1>7. CallOf(t) = Device!NoCall
  BY <1>4, CallOfIs
<1>8. CASE d = Chip
  <2>1. CallOf(t)' = Stage(c, "called", v)
    BY <1>3, <1>5, <1>8, CallOfNext
  <2>2. Called' = [Called EXCEPT ![t] = Stage(c, "called", v)]
    BY <1>6, <2>1, CalledOne
  <2>3. Stage(c, "called", v) = [stage |-> "called", op |-> o, addr |-> a, val |-> v]
    BY <1>3 DEF Stage
  <2>4. Called[t] = Device!NoCall
    BY <1>7 DEF Called
  <2>5. Device!Invoke(t)
    BY <1>4, <2>2, <2>3, <2>4 DEF Device!Invoke, Called
  <2> QED
    BY <2>5 DEF Device!Next
<1>9. CASE d # Chip
  <2>1. CallOf(t)' = CallOf(t)
    BY <1>3, <1>5, <1>7, <1>9, CallOfNext
  <2> QED
    BY <1>4, <1>6, <2>1, Stutters
<1> QED
  BY <1>8, <1>9

LEMMA AcquireRefines ==
  ASSUME BusInv, NEW t \in Threads, Acquire(t)
  PROVE  [Device!Next]_(Device!vars)
<1>1. /\ io[t].at = "lock" /\ ~served /\ mem' = mem /\ served' = served /\ slave' = slave
      /\ \A u \in Threads : io[u].at # "bits"
  BY I2cAssumption DEF BusInv, Acquire, Fresh
<1>2. io[t] \in Calls /\ io \in [Threads -> Calls \union {NoCall}]
  BY <1>1, HolderOK DEF BusInv, TypeOK
<1>3. PICK c \in Calls :
        /\ c = [io[t] EXCEPT !.at = "bits"] /\ c.at = "bits" /\ c.val = io[t].val
        /\ c.op = io[t].op /\ c.dev = io[t].dev /\ c.addr = io[t].addr
  BY <1>2, SetAt
<1>4. io'[t] = c /\ \A u \in Threads \ {t} : io'[u] = io[u]
  <2>1. io' = [io EXCEPT ![t] = c]
    BY <1>2, <1>3 DEF Acquire
  <2> QED
    BY <1>2, <2>1
<1>5. \A u \in Threads \ {t} : CallOf(u)' = CallOf(u)
  BY <1>1, <1>4, CallOfSame
<1>6. CallOf(t)' = CallOf(t)
  BY <1>1, <1>3, <1>4 DEF CallOf
<1> QED
  BY <1>1, <1>5, <1>6, Stutters

LEMMA PinRefines ==
  ASSUME BusInv, NEW t \in Threads, PinStep(t)
  PROVE  [Device!Next]_(Device!vars)
<1>1. /\ io[t].at = "bits" /\ lock = t /\ io' = io
      /\ \A u \in Threads \ {t} : io[u].at # "bits"
  BY StepMoves DEF BusInv
<1>2. Effect(io[t]) /\ CallOK(io[t])
  BY <1>1, PinInv, HolderOK
<1>3. \A u \in Threads \ {t} : CallOf(u)' = CallOf(u)
  BY <1>1, CallOfSame
<1>4. PICK c : c = io[t] /\ c = io'[t]
  BY <1>1
<1>5. Called[t] = CallOf(t)
  BY DEF Called
<1>6. CASE Settled /\ Undisturbed(c)
  <2>1. CallOf(t)' = CallOf(t)
    BY <1>1, <1>4, <1>6 DEF CallOf, Settled, Undisturbed, Here
  <2> QED
    BY <1>3, <1>6, <2>1, Stutters DEF Settled
<1>7. CASE /\ Here(c) /\ ~served /\ served' /\ c.op = "write"
           /\ mem' = [mem EXCEPT ![c.addr] = c.val]
  <2>1. CallOf(t) = Stage(c, "called", c.val) /\ CallOf(t)' = Stage(c, "applied", c.val)
    BY <1>1, <1>4, <1>7, CallOfIs, CallOfNext DEF Here
  <2>2. Called' = [Called EXCEPT ![t] = Stage(c, "applied", c.val)]
    BY <1>3, <2>1, CalledOne
  <2>3. Called' = [Called EXCEPT ![t].stage = "applied"]
    <3>1. [Called[t] EXCEPT !.stage = "applied"] = Stage(c, "applied", c.val)
      BY <1>5, <2>1, StageApplied
    <3> QED
      BY <2>2, <3>1 DEF Called
  <2>4. /\ Called[t].stage = "called" /\ Called[t].op = "write"
        /\ Called[t].addr = c.addr /\ Called[t].val = c.val
    BY <1>5, <1>7, <2>1, StageFields
  <2>5. Device!ApplyWrite(t)
    BY <1>7, <2>3, <2>4 DEF Device!ApplyWrite, Called
  <2> QED
    BY <2>5 DEF Device!Next
<1>8. CASE /\ Here(c) /\ ~served /\ served' /\ c.op = "read"
           /\ mem' = mem /\ slave'.byte = mem[c.addr]
  <2>1. PICK x : x = mem[c.addr]
    OBVIOUS
  <2>2. CallOf(t) = Stage(c, "called", c.val) /\ CallOf(t)' = Stage(c, "applied", x)
    BY <1>1, <1>4, <1>8, <2>1, CallOfIs, CallOfNext DEF Here
  <2>3. Called' = [Called EXCEPT ![t] = Stage(c, "applied", x)]
    BY <1>3, <2>2, CalledOne
  <2>4. [Called[t] EXCEPT !.stage = "applied", !.val = x] = Stage(c, "applied", x)
    <3>1. [Stage(c, "called", c.val) EXCEPT !.stage = "applied", !.val = x]
            = Stage(c, "applied", x)
      BY StageRead, Zenon
    <3> QED
      BY <1>5, <2>2, <3>1
  <2>5. Called' = [Called EXCEPT ![t].stage = "applied", ![t].val = x]
    <3>1. Called = [u \in Threads |-> Called[u]]
      BY DEF Called
    <3> QED
      BY <2>3, <2>4, <3>1, SetTwice, Zenon
  <2>6. Called[t].stage = "called" /\ Called[t].op = "read" /\ Called[t].addr = c.addr
    BY <1>5, <1>8, <2>2, StageFields
  <2>7. Device!ApplyRead(t)
    BY <1>8, <2>1, <2>5, <2>6 DEF Device!ApplyRead, Called
  <2> QED
    BY <2>7 DEF Device!Next
<1> QED
  BY <1>2, <1>4, <1>6, <1>7, <1>8 DEF Effect

LEMMA ReleaseRefines ==
  ASSUME BusInv, NEW t \in Threads, Release(t)
  PROVE  [Device!Next]_(Device!vars)
<1>1. /\ io[t].at = "bits" /\ lock = t /\ mem' = mem
      /\ \A u \in Threads \ {t} : io[u].at # "bits"
  BY DEF BusInv, Release
<1>2. /\ (served <=> Here(io[t]))
      /\ io[t].op = "read" => (Here(io[t]) => slave.byte = rx)
      /\ \A u \in Threads \ {t} : io'[u] = io[u]
      /\ io'[t].at = "done" /\ io'[t].op = io[t].op /\ io'[t].dev = io[t].dev
      /\ io'[t].addr = io[t].addr
      /\ io'[t].val = IF io[t].op = "read" THEN rx ELSE io[t].val
  BY ReleaseFacts
<1>3. \A u \in Threads \ {t} : CallOf(u)' = CallOf(u)
  BY <1>1, <1>2, CallOfSame
<1>4. CallOf(t)' = CallOf(t)
  BY <1>1, <1>2 DEF CallOf, Here
<1> QED
  BY <1>1, <1>3, <1>4, Stutters

LEMMA ReturnRefines ==
  ASSUME BusInv, NEW t \in Threads, Return(t)
  PROVE  [Device!Next]_(Device!vars)
<1>1. /\ io \in [Threads -> Calls \union {NoCall}] /\ io[t].at = "done"
      /\ io' = [io EXCEPT ![t] = NoCall] /\ mem' = mem /\ served' = served /\ slave' = slave
  BY DEF BusInv, TypeOK, Return
<1>2. io'[t] = NoCall /\ \A u \in Threads \ {t} : io'[u] = io[u]
  BY <1>1
<1>3. \A u \in Threads \ {t} : CallOf(u)' = CallOf(u)
  BY <1>1, <1>2 DEF CallOf
<1>4. CallOf(t)' = Device!NoCall
  BY <1>2, CallOfNext DEF NoCall
<1>5. CASE io[t].dev = Chip
  <2>1. PICK v : CallOf(t) = Stage(io[t], "applied", v)
    BY <1>1, <1>5, CallOfIs
  <2>2. Called[t].stage = "applied"
    BY <2>1, StageFields DEF Called
  <2>3. Called' = [Called EXCEPT ![t] = Device!NoCall]
    BY <1>3, <1>4, CalledOne
  <2>4. Device!Return(t)
    BY <1>1, <2>2, <2>3 DEF Device!Return, Called
  <2> QED
    BY <2>4 DEF Device!Next
<1>6. CASE io[t].dev # Chip
  <2>1. CallOf(t)' = CallOf(t)
    BY <1>4, <1>6, CallOfIs
  <2> QED
    BY <1>1, <1>3, <2>1, Stutters
<1> QED
  BY <1>5, <1>6

(* Every step of the bus is a step of the registers, or none. *)
LEMMA BusRefines ==
  ASSUME BusInv, [Next]_vars
  PROVE  [Device!Next]_(Device!vars)
<1>1. CASE UNCHANGED vars
  <2>1. mem' = mem /\ io' = io /\ served' = served /\ slave' = slave
    BY <1>1 DEF vars
  <2>2. \A t \in Threads : CallOf(t)' = CallOf(t)
    BY <2>1 DEF CallOf
  <2> QED
    BY <2>1, <2>2, Stutters
<1>2. ASSUME NEW t \in Threads,
             \/ Call(t) \/ Acquire(t) \/ Release(t) \/ Return(t)
             \/ SclUp(t) \/ SclDown(t) \/ SdaPin(t) \/ Sample(t)
      PROVE  [Device!Next]_(Device!vars)
  BY <1>2, CallRefines, AcquireRefines, ReleaseRefines, ReturnRefines, PinRefines
     DEF PinStep
<1> QED
  BY <1>1, <1>2 DEF Next

LEMMA InitRefines ==
  ASSUME Init
  PROVE  Device!Init
<1>1. mem \in [Addrs -> Values] /\ \A t \in Threads : io[t].at = "idle"
  BY DEF Init, NoCall
<1>2. \A t \in Threads : CallOf(t) = Device!NoCall
  BY <1>1, CallOfIs, Zenon
<1> QED
  BY <1>1, <1>2 DEF Device!Init
-----------------------------------------------------------------------------
LEMMA BusInductive == Spec => []BusInv
<1>1. Init => BusInv
  BY BusInit
<1>2. BusInv /\ [Next]_vars => BusInv'
  BY BusStep
<1> QED
  BY <1>1, <1>2, PTL DEF Spec

(* However many threads call and whatever the addresses and bytes, every   *)
(* call leaves the bus idle, although i2c_receive_ack ignores what it      *)
(* reads and i2c_stop_bit drives SDA against the chip.                     *)
THEOREM BusLeftIdle == Spec => []BusIdleBetweenCalls
<1>1. BusInv => BusIdleBetweenCalls
  BY BusInvImplies
<1> QED
  BY <1>1, BusInductive, PTL

(* gpio_i2c_rtc_read of a device that does not answer returns 0xff.        *)
THEOREM AbsentReads == Spec => []AbsentReadsOnes
<1>1. BusInv => AbsentReadsOnes
  BY BusInvImplies
<1> QED
  BY <1>1, BusInductive, PTL

(* The driver's functions, run bit by bit by any number of threads, are    *)
(* atomic reads and writes of the chip's registers.                        *)
THEOREM BusIsAtomic == Spec => AtomicRegisters
<1>1. Init => Device!Init
  BY InitRefines
<1>2. BusInv /\ [Next]_vars => [Device!Next]_(Device!vars)
  BY BusRefines
<1> QED
  BY <1>1, <1>2, BusInductive, PTL DEF Spec, AtomicRegisters, Device!Spec

(* A behaviour of the module TLC runs is one of each half, for every value *)
(* of the constants.                                                       *)
LEMMA BothHalves == MCSpec => Spec /\ ClockSpec
<1>1. MCInit => Init /\ ClockInit
  BY DEF MCInit
<1>2. [MCNext]_mcVars => [Next]_vars /\ [ClockNext]_clockVars
  BY DEF MCNext, mcVars
<1> QED
  BY <1>1, <1>2, PTL DEF MCSpec, Spec, ClockSpec

(* No interleaving of calls, bits, ticks and ioctls takes a pin, a byte,   *)
(* the chip's side of the bus or a field of a time out of its range.       *)
THEOREM TypesCorrect == MCSpec => []TypesOK
<1>1. BusInv => TypeOK
  BY BusInvImplies
<1> QED
  BY <1>1, BusInductive, BothHalves, TypeCorrect, PTL DEF TypesOK
=============================================================================
