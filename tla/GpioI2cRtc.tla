----------------------------- MODULE GpioI2cRtc -----------------------------
(***************************************************************************)
(* The I2C master of drv/rtc/hym1307/gpio_i2c_rtc.c, bit by bit: a call    *)
(* runs, under a spinlock, a fixed list of writes to two GPIO pins.  The   *)
(* clock chip on the other end is external: a slave that follows the I2C   *)
(* protocol and sees nothing but the levels of SCL and SDA.                *)
(***************************************************************************)
EXTENDS Integers, Sequences

CONSTANTS
  Threads, NoThread,
  Chip,        \* the write address of the clock chip (0xD0)
  Devices,     \* the device addresses callers pass
  Addrs,       \* the chip's registers
  Values       \* the bytes written and held

ASSUME I2cAssumption ==
  /\ NoThread \notin Threads
  /\ Chip \in Devices
  /\ Devices \union Addrs \union Values \subseteq 0..255
  /\ \A d \in Devices : d % 2 = 0

VARIABLES
  lock,      \* holder of gpioi2c_rtc_lock
  io,        \* the call each thread is in
  pos,       \* the pin operations the holder has done
  scl,       \* level of SCL
  latch,     \* what the GPIO drives on SDA while it is an output
  out,       \* is SDA an output of the GPIO?
  rx,        \* the byte i2c_receive_byte has put together so far
  slave,     \* the chip's side of the bus
  served,    \* has the chip stored or fetched the byte of this call?
  mem,       \* the chip's registers
  winner     \* level of SDA when the GPIO drives 1 and the chip drives 0

pins == <<scl, latch, out>>
vars == <<lock, io, pos, pins, rx, slave, served, mem, winner>>
-----------------------------------------------------------------------------
(* The functions of the driver as lists of pin operations.  i2c_set and    *)
(* i2c_clr make the pin an output, "sdaOut", before they write its level.  *)
Sda(bit) == IF bit = 1 THEN "sda1" ELSE "sda0"

Bit(c, i) == (c \div 2^(7 - i)) % 2

i2c_start_bit == <<"scl1", "sdaOut", "sda1", "sdaOut", "sda0">>

Mut_stop_bit ==   \* no clock for the acknowledge
  <<"sdaOut", "sda0", "scl1", "sdaOut", "sda1">>

(* The first clock is the one of the acknowledge bit. *)
i2c_stop_bit == <<"scl1", "scl0", "sdaOut", "sda0", "scl1", "sdaOut", "sda1">>

SendBit(bit) == <<"scl0", "sdaOut", Sda(bit), "scl1", "scl0">>

i2c_send_byte(c) ==
  [n \in 1..40 |-> SendBit(Bit(c, (n - 1) \div 5))[((n - 1) % 5) + 1]]

(* The acknowledge bit is read and then ignored. *)
i2c_receive_ack == <<"sdaIn", "scl0", "scl1", "sdaIn", "scl0">>

ReceiveBit == <<"scl0", "scl1", "sdaIn", "sample", "scl0">>

Mut_receive_byte == [n \in 1..35 |-> ReceiveBit[((n - 1) % 5) + 1]]

i2c_receive_byte == [n \in 1..40 |-> ReceiveBit[((n - 1) % 5) + 1]]

MutRead == [d \in Devices |-> [a \in Addrs |->   \* the pointer is never written
  i2c_start_bit \o i2c_send_byte(d + 1) \o i2c_receive_ack
  \o i2c_receive_byte \o i2c_stop_bit]]

gpio_i2c_rtc_read == [d \in Devices |-> [a \in Addrs |->
  i2c_start_bit \o i2c_send_byte(d) \o i2c_receive_ack
  \o i2c_send_byte(a) \o i2c_receive_ack
  \o i2c_start_bit \o i2c_send_byte(d + 1) \o i2c_receive_ack
  \o i2c_receive_byte \o i2c_stop_bit]]

gpio_i2c_rtc_write == [d \in Devices |-> [a \in Addrs |-> [v \in Values |->
  i2c_start_bit \o i2c_send_byte(d) \o i2c_receive_ack
  \o i2c_send_byte(a) \o i2c_receive_ack
  \o i2c_send_byte(v) \o i2c_stop_bit]]]

Ops(c) == IF c.op = "read" THEN gpio_i2c_rtc_read[c.dev][c.addr]
          ELSE gpio_i2c_rtc_write[c.dev][c.addr][c.val]
-----------------------------------------------------------------------------
(* The chip.  n counts the bits of the byte in transfer and is 9 during    *)
(* the acknowledge bit; low: the chip pulls SDA down.                      *)
Off == [mode |-> "off", n |-> 0, byte |-> 0, low |-> FALSE, ptr |-> 0]

Level(l, o, low) ==
  IF ~o THEN (IF low THEN 0 ELSE 1)
  ELSE IF l = 1 /\ low THEN winner ELSE l

sda == Level(latch, out, slave.low)

Receiving(s) == s.mode \in {"address", "pointer", "data"}

Quit(s) == [s EXCEPT !.mode = "off", !.low = FALSE]

(* SCL rises: the receiver of the byte takes a bit. *)
Rise(s) ==
  CASE Receiving(s) /\ s.n < 8 -> [s EXCEPT !.byte = (2 * @ + sda) % 256, !.n = @ + 1]
    [] s.mode = "send" /\ s.n = 9 /\ sda = 1 -> Quit(s)
    [] OTHER -> s

NextBit(s) == [s EXCEPT !.low = (Bit(s.byte, s.n) = 0), !.n = @ + 1]

(* Does this falling edge end a byte for a register?  Does it end the      *)
(* acknowledge bit of the chip's read address?                             *)
Stores(s) == s.mode = "data" /\ s.n = 8 /\ s.ptr \in Addrs
Fetches(s) == s.mode = "address" /\ s.n = 9 /\ s.byte = Chip + 1 /\ s.ptr \in Addrs

(* SCL falls: the chip begins or ends an acknowledge bit, or puts its next *)
(* bit out.                                                                *)
Fall(s) ==
  CASE Fetches(s) ->
         NextBit([s EXCEPT !.mode = "send", !.n = 0, !.byte = mem[s.ptr]])
    [] Receiving(s) /\ s.n = 8 ->
         IF s.mode = "address" /\ s.byte \notin {Chip, Chip + 1} THEN Quit(s)
         ELSE [s EXCEPT !.low = TRUE, !.n = 9,
                        !.ptr = IF s.mode = "pointer" THEN s.byte ELSE @]
    [] Receiving(s) /\ s.n = 9 /\ ~Fetches(s) ->
         [s EXCEPT !.mode = IF @ = "address" THEN "pointer" ELSE "data",
                   !.n = 0, !.byte = 0, !.low = FALSE]
    [] s.mode = "send" /\ s.n < 8 -> NextBit(s)
    [] s.mode = "send" /\ s.n = 8 -> [s EXCEPT !.low = FALSE, !.n = 9]
    [] OTHER -> s

(* SDA changes while SCL is high: a start or a stop. *)
Edge(s, from, to) ==
  IF from = to THEN s
  ELSE IF to = 0 THEN [s EXCEPT !.mode = "address", !.n = 0, !.byte = 0, !.low = FALSE]
  ELSE Quit(s)
-----------------------------------------------------------------------------
NoCall == [at |-> "idle"]

Calls == [at: {"lock", "bits", "done"}, op: {"read", "write"},
          dev: Devices, addr: Addrs, val: Values \union {255}]

TypeOK ==
  /\ lock \in Threads \union {NoThread}
  /\ io \in [Threads -> Calls \union {NoCall}]
  /\ pos \in Nat
  /\ scl \in {0, 1} /\ latch \in {0, 1} /\ out \in BOOLEAN
  /\ rx \in 0..255
  /\ slave \in [mode: {"off", "address", "pointer", "data", "send"}, n: 0..9,
                byte: 0..255, low: BOOLEAN, ptr: 0..255]
  /\ served \in BOOLEAN
  /\ mem \in [Addrs -> Values]
  /\ winner \in {0, 1}

(* gpio_i2c_rtc_init leaves both lines high. *)
Init ==
  /\ lock = NoThread
  /\ io = [t \in Threads |-> NoCall]
  /\ pos = 0 /\ rx = 0 /\ served = FALSE
  /\ scl = 1 /\ latch = 1 /\ out = TRUE
  /\ slave = Off
  /\ mem \in [Addrs -> Values]
  /\ winner \in {0, 1}

Unread == CHOOSE v \in Values : TRUE

Call(t) ==
  /\ io[t].at = "idle"
  /\ \E o \in {"read", "write"}, d \in Devices, a \in Addrs, v \in Values :
       /\ o = "read" => v = Unread   \* it is given no value
       /\ io' = [io EXCEPT ![t] = [at |-> "lock", op |-> o, dev |-> d,
                                   addr |-> a, val |-> v]]
  /\ UNCHANGED <<lock, pos, pins, rx, slave, served, mem, winner>>

Acquire(t) ==
  /\ io[t].at = "lock"
  /\ lock = NoThread /\ lock' = t
  /\ io' = [io EXCEPT ![t].at = "bits"]
  /\ UNCHANGED <<pos, pins, rx, slave, served, mem, winner>>

Doing(t, pin) ==
  /\ io[t].at = "bits" /\ lock = t
  /\ pos < Len(Ops(io[t])) /\ Ops(io[t])[pos + 1] = pin
  /\ pos' = pos + 1
  /\ UNCHANGED <<lock, io, winner>>

SclUp(t) ==
  /\ Doing(t, "scl1")
  /\ scl' = 1
  /\ slave' = IF scl = 0 THEN Rise(slave) ELSE slave
  /\ UNCHANGED <<latch, out, rx, served, mem>>

SclDown(t) ==
  /\ Doing(t, "scl0")
  /\ scl' = 0
  /\ slave' = IF scl = 1 THEN Fall(slave) ELSE slave
  /\ mem' = IF scl = 1 /\ Stores(slave) THEN [mem EXCEPT ![slave.ptr] = slave.byte]
            ELSE mem
  /\ served' = (served \/ (scl = 1 /\ (Stores(slave) \/ Fetches(slave))))
  /\ UNCHANGED <<latch, out, rx>>

(* The pin becomes an output or an input, or its level is written. *)
SdaPin(t) ==
  /\ \/ Doing(t, "sdaOut") /\ out' = TRUE /\ UNCHANGED latch
     \/ Doing(t, "sdaIn") /\ out' = FALSE /\ UNCHANGED latch
     \/ Doing(t, "sda0") /\ latch' = 0 /\ UNCHANGED out
     \/ Doing(t, "sda1") /\ latch' = 1 /\ UNCHANGED out
  /\ slave' = IF scl = 1 THEN Edge(slave, sda, Level(latch', out', slave.low))
              ELSE slave
  /\ UNCHANGED <<scl, rx, served, mem>>

Sample(t) ==
  /\ Doing(t, "sample")
  /\ rx' = (2 * rx + sda) % 256
  /\ UNCHANGED <<pins, slave, served, mem>>

(* The lock is given back; what the call kept on its stack is gone. *)
Release(t) ==
  /\ io[t].at = "bits" /\ lock = t
  /\ pos = Len(Ops(io[t]))
  /\ lock' = NoThread
  /\ io' = [io EXCEPT ![t].at = "done",
                      ![t].val = IF io[t].op = "read" THEN rx ELSE @]
  /\ pos' = 0 /\ rx' = 0 /\ served' = FALSE
  /\ UNCHANGED <<pins, slave, mem, winner>>

Return(t) ==
  /\ io[t].at = "done"
  /\ io' = [io EXCEPT ![t] = NoCall]
  /\ UNCHANGED <<lock, pos, pins, rx, slave, served, mem, winner>>

Next == \E t \in Threads :
  \/ Call(t) \/ Acquire(t) \/ Release(t) \/ Return(t)
  \/ SclUp(t) \/ SclDown(t) \/ SdaPin(t) \/ Sample(t)

Spec == Init /\ [][Next]_vars
-----------------------------------------------------------------------------
(* Every transfer leaves the bus idle: both lines high and driven, the     *)
(* chip off the bus, although the driver ignores every acknowledge and     *)
(* drives SDA against the chip while it clocks the last one of a write.    *)
BusIdleBetweenCalls ==
  lock = NoThread => /\ scl = 1 /\ latch = 1 /\ out
                     /\ slave.mode = "off" /\ ~slave.low

(* A read of a device that is not on the bus returns all ones. *)
AbsentReadsOnes == \A t \in Threads :
  io[t].at = "done" /\ io[t].op = "read" /\ io[t].dev # Chip => io[t].val = 255

(* Every call to the chip is an atomic read or write of one register: it   *)
(* is applied when the chip stores or fetches the byte.  Calls to other    *)
(* devices leave the chip's registers alone.                               *)
CallOf(t) ==
  LET c == io[t]
      applied == c.at = "done" \/ (c.at = "bits" /\ served)
  IN IF c.at = "idle" \/ c.dev # Chip THEN [stage |-> "idle"]
     ELSE [stage |-> IF applied THEN "applied" ELSE "called",
           op |-> c.op, addr |-> c.addr,
           val |-> IF c.op = "read" /\ c.at = "bits" /\ served THEN slave.byte
                   ELSE c.val]

Device == INSTANCE RegisterDevice
            WITH call <- [t \in Threads |-> CallOf(t)]

AtomicRegisters == Device!Spec
=============================================================================
