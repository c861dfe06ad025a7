----------------------------- MODULE Ip1810Pins -----------------------------
(***************************************************************************)
(* The frames of Ip1810Access bit by bit (ic_mdio_wr, ic_mdio_rd, mdio_z   *)
(* and smi_reset of drv/ip1810/smi.c), for threads that take the lock,     *)
(* against a chip that sees only the level of MDIO at each rising edge of  *)
(* MDC.  The properties say that this implements Ip1810Access, whose       *)
(* frames are a start and an end.                                          *)
(***************************************************************************)
EXTENDS Ip1810Access, Integers, Sequences, SequencesExt

CONSTANTS
  AddrBits,   \* bits of each half of a register number (5 in the code)
  ValBits,    \* bits of a register (16)
  Preamble,   \* ones before a frame (32)
  PageReg     \* the register that selects the page (0xff)

FrameBits == 6 + 2 * AddrBits + ValBits

ASSUME PinsAssumption ==
  /\ AddrBits \in Nat \ {0} /\ ValBits \in Nat \ {0}
  /\ Preamble = FrameBits
  /\ PageReg \in 0..(2^(2 * AddrBits) - 1) \ Regs
  /\ Regs \subseteq 0..255 /\ Regs \subseteq 0..(2^(2 * AddrBits) - 1)
  /\ Pages \subseteq 0..(2^ValBits - 1) /\ Values \subseteq 0..(2^ValBits - 1)
  /\ BarePagers = {} /\ MdcAtBoot

VARIABLES
  frame,   \* the clocks the thread on the bus has still to make
  got,     \* the bits it has sampled
  need,    \* how many ones the chip wants before a frame: one or all
  skip,    \* bits it still takes for the rest of some earlier frame
  ones,    \* ones it has seen, up to need
  seen,    \* the bits of the frame it is receiving
  line     \* the bits it is sending

chipVars == <<need, skip, ones, seen, line>>
vars == <<accessVars, frame, got, chipVars>>
-----------------------------------------------------------------------------
Ones(n) == [i \in 1..n |-> 1]

MutBits(n, width) == [i \in 1..width |-> (n \div 2^(i - 1)) % 2]   \* low bit first

(* (pa>>(5-1-i))%2 for i from 0 on: the highest bit first. *)
Bits(n, width) == [i \in 1..width |-> (n \div 2^(width - i)) % 2]

Number(bits) == FoldLeft(LAMBDA n, b : 2 * n + b, 0, bits)

(* (regaddr>>5)&0x1f and regaddr&0x1f *)
Register(r) ==
  Bits((r \div 2^AddrBits) % 2^AddrBits, AddrBits) \o Bits(r % 2^AddrBits, AddrBits)

mdio_start == <<0, 1>>
WriteCode == <<0, 1>>
ReadCode == <<1, 0>>

Mutic_mdio_wr(r, v) ==   \* the preamble is one short
  Ones(Preamble - 1) \o mdio_start \o WriteCode \o Register(r)
  \o <<1, 0>> \o Bits(v, ValBits)

ic_mdio_wr(r, v) ==
  Ones(Preamble) \o mdio_start \o WriteCode \o Register(r)
  \o <<1, 0>> \o Bits(v, ValBits)

(* The clocks of mdio_z, of the sampling loop and after it leave MDIO to   *)
(* the chip; those of the loop keep what they see.                         *)
Idle == 2
Sample == 3

Mutic_mdio_rd(r) ==   \* one clock less before the first bit
  Ones(2 * Preamble) \o mdio_start \o ReadCode \o Register(r)
  \o <<Idle>> \o [i \in 1..ValBits |-> Sample] \o <<Idle>>

ic_mdio_rd(r) ==
  Ones(2 * Preamble) \o mdio_start \o ReadCode \o Register(r)
  \o <<Idle, Idle>> \o [i \in 1..ValBits |-> Sample] \o <<Idle>>

(* Five clocks in a loop and one after it, MDIO high. *)
smi_reset == Ones(6)

IP2Page(p) == ic_mdio_wr(PageReg, p)

PinsInit ==
  /\ AccessInit
  /\ frame = <<>> /\ got = <<>>
  /\ need \in {1, Preamble}
  /\ skip \in 0..(Preamble - need)
  /\ ones = 0 /\ seen = <<>> /\ line = <<>>

(* The steps of an access that are not clocks. *)
Between(t) ==
  /\ CallSome(t) \/ Acquire(t) \/ Release(t) \/ Return(t)
  /\ UNCHANGED <<frame, got, chipVars>>

BeginPage(t) ==
  /\ StartPage(t)
  /\ frame' = (IF io[t].op = "read" THEN smi_reset ELSE <<>>) \o IP2Page(io[t].page)
  /\ got' = <<>>
  /\ UNCHANGED chipVars

(* Read_Reg takes the register as a u8. *)
BeginAccess(t) ==
  /\ StartAccess(t)
  /\ frame' = IF io[t].op = "read" THEN ic_mdio_rd(io[t].reg % 256)
              ELSE ic_mdio_wr(io[t].reg, io[t].val)
  /\ got' = <<>>
  /\ UNCHANGED chipVars
-----------------------------------------------------------------------------
(* The chip: at a rising edge it sees the level of MDIO. *)
Header == 4 + 2 * AddrBits

Named(bits) == Number(SubSeq(bits, 5, Header))

Writing(bits) == SubSeq(bits, 1, 4) = mdio_start \o WriteCode
Reading(bits) == SubSeq(bits, 1, 4) = mdio_start \o ReadCode

(* The register a page and a number name; the page register is on all.     *)
Held(p, r) == IF r = PageReg THEN p ELSE IF r \in Regs THEN mem[<<p, r>>] ELSE 0

Store(r, v) ==
  CASE r = PageReg /\ v \in Pages -> page' = v /\ UNCHANGED mem
    [] r \in Regs /\ v \in Values ->
         mem' = [mem EXCEPT ![<<page, r>>] = v] /\ UNCHANGED page
    [] OTHER -> UNCHANGED <<page, mem>>

Hears(b) ==
  IF line # <<>> THEN
    /\ line' = Tail(line)
    /\ UNCHANGED <<page, mem, skip, ones, seen>>
  ELSE IF skip > 0 THEN
    /\ skip' = skip - 1
    /\ UNCHANGED <<page, mem, ones, seen, line>>
  ELSE IF seen = <<>> THEN
    /\ ones' = IF b = 0 THEN 0 ELSE IF ones = need THEN need ELSE ones + 1
    /\ seen' = IF b = 0 /\ ones = need THEN <<0>> ELSE <<>>
    /\ UNCHANGED <<page, mem, skip, line>>
  ELSE LET bits == Append(seen, b) IN
    /\ UNCHANGED <<skip, ones>>
    /\ CASE Len(bits) = 4 /\ ~Writing(bits) /\ ~Reading(bits) ->
              seen' = <<>> /\ UNCHANGED <<page, mem, line>>
         [] Len(bits) = Header + 2 /\ Reading(bits) ->
              /\ line' = Bits(Held(page, Named(bits)), ValBits)
              /\ seen' = <<>> /\ UNCHANGED <<page, mem>>
         [] Len(bits) = FrameBits ->
              /\ Store(Named(bits), Number(SubSeq(bits, Header + 3, FrameBits)))
              /\ seen' = <<>> /\ UNCHANGED line
         [] OTHER -> seen' = bits /\ UNCHANGED <<page, mem, line>>

(* The level of MDIO: what the host drives, or the chip, or, when nobody   *)
(* does, anything.                                                         *)
Levels(out) ==
  IF out \in {0, 1} THEN {out} ELSE IF line # <<>> THEN {line[1]} ELSE {0, 1}

(* One clock: MDC goes down, the host samples MDIO, MDC goes up.  The last *)
(* clock of a frame ends the step of the access.                           *)
Clock(t) ==
  /\ t \in bus /\ frame # <<>>
  /\ \E b \in Levels(frame[1]) :
       /\ Hears(b)
       /\ got' = IF frame[1] = Sample THEN Append(got, b) ELSE got
  /\ frame' = Tail(frame)
  /\ IF Len(frame) > 1 THEN UNCHANGED <<io, bus, clash>>
     ELSE /\ LeaveBus(t)
          /\ io' = CASE At(t, "pageBits") -> [io EXCEPT ![t].at = "access"]
                     [] io[t].op = "write" -> [io EXCEPT ![t].at = "unlock"]
                     [] OTHER -> [io EXCEPT ![t].at = "unlock", ![t].val = Number(got)]
  /\ UNCHANGED <<lock, mdcOut, stale, need>>

PinsNext ==
  \E t \in Threads : Between(t) \/ BeginPage(t) \/ BeginAccess(t) \/ Clock(t)

PinsSpec == PinsInit /\ [][PinsNext]_vars
-----------------------------------------------------------------------------
(* Every frame means to the chip what Ip1810Access says it does, at its    *)
(* last clock and not before: whatever the chip still expected of an       *)
(* earlier frame, however many ones it wants first, and whatever level the *)
(* line takes while nobody drives it.                                      *)
FramesDelivered == Spec
=============================================================================
