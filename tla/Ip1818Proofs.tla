---------------------------- MODULE Ip1818Proofs ----------------------------
(***************************************************************************)
(* Proofs about the IP1818 driver, for every set of threads, of ioctls, of *)
(* registers and of PHYs.  An ioctl that nobody overlaps and that finds    *)
(* the chip in step keeps it in step; from there its frames and the chip's *)
(* engine are followed one by one.                                         *)
(***************************************************************************)
EXTENDS Ip1818, SequenceTheorems, TLAPS

(* What TypeOK does not say of the functions: their domains. *)
Shape ==
  /\ mem = [r \in Regs |-> mem[r]]
  /\ op = [t \in Threads |-> op[t]]
  /\ data = [t \in Threads |-> data[t]]

(* A thread that is in no ioctl, or past its last frame, is not on the     *)
(* bus.                                                                    *)
AtRest ==
  /\ \A t \in Threads : ~Busy(t) => pc[t] = 1
  /\ \A t \in bus : Left(t)

(* Nobody else is in an ioctl next to a thread that was left alone; then   *)
(* no frame is garbled, and a chip that was in step stays in step.         *)
Apart == \A t \in Threads :
  Busy(t) /\ since[t].alone =>
    /\ \A u \in Threads : u # t => ~Busy(u)
    /\ clash = {}
    /\ since[t].synced => synced

(* The commands of a PHY_READ and of a PHY_WRITE. *)
ReadCommand(o) == Command(o.phy, o.reg, FALSE)
WriteCommand(o) == Command(o.phy, o.reg, TRUE)

(* The chip has carried out the command of a PHY_READ. *)
Fetched(t) ==
  ~mem[Cmd].start /\ (Phy(op[t]) \in Phys => mem[Data] = phys[Phy(op[t])])

(* How far an undisturbed PHY_READ is: its command is in Cmd and waits for *)
(* the chip, or the chip has carried it out and does nothing more.         *)
ReadSoFar(t) ==
  /\ pc[t] = 2 => mem[Cmd] = ReadCommand(op[t]) \/ Fetched(t)
  /\ pc[t] > 2 => Fetched(t)
  /\ pc[t] > 3 /\ Phy(op[t]) \in Phys => data[t] = phys[Phy(op[t])]

(* The chip has carried out the command of a PHY_WRITE. *)
Written(t) ==
  ~mem[Cmd].start /\ (Phy(op[t]) \in Phys => phys[Phy(op[t])] = op[t].val)

(* How far an undisturbed PHY_WRITE is: the chip is idle, then has the     *)
(* data, then the command too, then has carried it out.                    *)
WriteSoFar(t) ==
  /\ pc[t] = 1 => ~mem[Cmd].start
  /\ pc[t] = 2 => ~mem[Cmd].start /\ mem[Data] = op[t].val
  /\ pc[t] = 3 =>
       \/ mem[Cmd] = WriteCommand(op[t]) /\ mem[Data] = op[t].val
       \/ Written(t)
  /\ pc[t] > 3 => Written(t)

Progress == \A t \in Threads :
  Busy(t) /\ Undisturbed(t) =>
    /\ op[t].name = "PHY_READ" => ReadSoFar(t)
    /\ op[t].name = "PHY_WRITE" /\ since[t].idle => WriteSoFar(t)

IInv == TypeOK /\ Shape /\ AtRest /\ Apart /\ Progress
-----------------------------------------------------------------------------
(* The lists of frames, written out. *)
LEMMA ThreeFrames ==
  ASSUME NEW a, NEW b, NEW c
  PROVE  /\ (<<a>> \o <<b>>) \o <<c>> = <<a, b, c>>
         /\ <<a>> \o (<<b>> \o <<c>>) = <<a, b, c>>
         /\ Len(<<a, b, c>>) = 3
<1> DEFINE S == {a, b, c}
           left == (<<a>> \o <<b>>) \o <<c>>
           right == <<a>> \o (<<b>> \o <<c>>)
           all == <<a, b, c>>
<1>1. /\ left \in Seq(S) /\ right \in Seq(S) /\ all \in Seq(S)
      /\ Len(left) = 3 /\ Len(right) = 3 /\ Len(all) = 3
  OBVIOUS
<1>2. /\ left[1] = a /\ left[2] = b /\ left[3] = c
      /\ right[1] = a /\ right[2] = b /\ right[3] = c
      /\ all[1] = a /\ all[2] = b /\ all[3] = c
  OBVIOUS
<1>3. \A i \in 1..3 : left[i] = all[i] /\ right[i] = all[i]
  BY <1>2
<1> HIDE DEF S, left, right, all
<1>4. left = all /\ right = all
  BY <1>1, <1>3, SeqEqual
<1>5. QED
  BY <1>1, <1>4 DEF left, right, all

LEMMA ReadFrames ==
  ASSUME NEW phy \in Nat, NEW reg \in Nat
  PROVE  IP1818_SMI_READ(phy, reg) =
           <<[do |-> "write", reg |-> Cmd, val |-> Command(phy, reg, FALSE)],
             [do |-> "poll", reg |-> Cmd, val |-> 0],
             [do |-> "read", reg |-> Data, val |-> 0]>>
<1>1. Cmd % 256 = Cmd /\ Data % 256 = Data
  BY DEF Cmd, Data
<1>2. QED
  BY <1>1, ThreeFrames DEF IP1818_SMI_READ, Wr, Rd, Poll, Frame

LEMMA WriteFrames ==
  ASSUME NEW phy \in Nat, NEW reg \in Nat, NEW v
  PROVE  IP1818_SMI_WRITE(phy, reg, v) =
           <<[do |-> "write", reg |-> Data, val |-> v],
             [do |-> "write", reg |-> Cmd, val |-> Command(phy, reg, TRUE)],
             [do |-> "poll", reg |-> Cmd, val |-> 0]>>
<1>1. Cmd % 256 = Cmd /\ Data % 256 = Data
  BY DEF Cmd, Data
<1>2. QED
  BY <1>1, ThreeFrames DEF IP1818_SMI_WRITE, Wr, Rd, Poll, Frame

LEMMA WriteLength ==
  ASSUME NEW phy \in Nat, NEW reg \in Nat, NEW v
  PROVE  Len(IP1818_SMI_WRITE(phy, reg, v)) = 3
<1> DEFINE a == [do |-> "write", reg |-> Data, val |-> v]
           b == [do |-> "write", reg |-> Cmd, val |-> Command(phy, reg, TRUE)]
           c == [do |-> "poll", reg |-> Cmd, val |-> 0]
<1>1. IP1818_SMI_WRITE(phy, reg, v) = <<a, b, c>>
  BY WriteFrames
<1> HIDE DEF a, b, c
<1>2. QED
  BY <1>1

LEMMA CommandTyped ==
  ASSUME NEW phy \in Nat, NEW reg \in Nat, NEW write \in BOOLEAN
  PROVE  /\ Command(phy, reg, write) \in Commands
         /\ Command(phy, reg, write).start
         /\ ~Command(phy, reg, write).done
         /\ Command(phy, reg, write).write = write
         /\ Command(phy, reg, write).phy = phy % 32
         /\ Command(phy, reg, write).reg = reg % 32
BY DEF Command, Commands

Init_ == [name |-> "init"]

(* Every frame of an ioctl names a register of 8 bits, and what it writes  *)
(* the register can hold.                                                  *)
Framed(f) ==
  /\ f.do \in {"write", "read", "poll"} /\ f.reg \in 0..255
  /\ f.do = "write" => f.val \in Holds(f.reg)
  /\ f.do = "poll" => f.reg = Cmd

LEMMA FrameFramed ==
  ASSUME NEW do \in {"write", "read", "poll"}, NEW r \in 0..255, NEW v,
         do = "write" => v \in Holds(r), do = "poll" => r = Cmd
  PROVE  Framed([do |-> do, reg |-> r, val |-> v])
BY DEF Framed

LEMMA ThreeFramed ==
  ASSUME NEW a, NEW b, NEW c, Framed(a), Framed(b), Framed(c)
  PROVE  /\ Len(<<a, b, c>>) \in 1..3
         /\ \A i \in 1..Len(<<a, b, c>>) : Framed(<<a, b, c>>[i])
OBVIOUS

LEMMA ScriptFrames ==
  ASSUME NEW o, IsRequest(o) \/ o = Init_
  PROVE  /\ Len(Script(o)) \in 1..3
         /\ \A i \in 1..Len(Script(o)) : Framed(Script(o)[i])
<1>1. CASE o = Init_
  <2> DEFINE f(r) == [do |-> "read", reg |-> r % 256, val |-> 0]
  <2>1. Script(o) = <<f(3), f(4), f(250)>>
    BY <1>1, ThreeFrames DEF Script, Rd, Frame, Init_
  <2>2. Framed(f(3)) /\ Framed(f(4)) /\ Framed(f(250))
    BY DEF Framed
  <2> HIDE DEF f
  <2>3. QED
    BY <2>1, <2>2, ThreeFramed
<1>2. CASE o \in [name: {"PHY_READ"}, phy: Nat, reg: Nat]
  <2> DEFINE a == [do |-> "write", reg |-> Cmd, val |-> Command(o.phy, o.reg, FALSE)]
             b == [do |-> "poll", reg |-> Cmd, val |-> 0]
             c == [do |-> "read", reg |-> Data, val |-> 0]
  <2>1. Script(o) = <<a, b, c>>
    BY <1>2, ReadFrames DEF Script
  <2>2. Command(o.phy, o.reg, FALSE) \in Commands
    BY <1>2, CommandTyped
  <2>3. Cmd \in 0..255 /\ Data \in 0..255 /\ Holds(Cmd) = Commands /\ Holds(Data) = Values
    BY DEF Cmd, Data, Holds
  <2>4. Framed(a) /\ Framed(b) /\ Framed(c)
    BY <2>2, <2>3, FrameFramed
  <2> HIDE DEF a, b, c
  <2>5. QED
    BY <2>1, <2>4, ThreeFramed
<1>3. CASE o \in [name: {"PHY_WRITE"}, phy: Nat, reg: Nat, val: Values]
  <2> DEFINE a == [do |-> "write", reg |-> Data, val |-> o.val]
             b == [do |-> "write", reg |-> Cmd, val |-> Command(o.phy, o.reg, TRUE)]
             c == [do |-> "poll", reg |-> Cmd, val |-> 0]
  <2>1. Script(o) = <<a, b, c>>
    BY <1>3, WriteFrames DEF Script
  <2>2. Command(o.phy, o.reg, TRUE) \in Commands /\ o.val \in Values
    BY <1>3, CommandTyped
  <2>3. Cmd \in 0..255 /\ Data \in 0..255 /\ Holds(Cmd) = Commands /\ Holds(Data) = Values
    BY DEF Cmd, Data, Holds
  <2>4. Framed(a) /\ Framed(b) /\ Framed(c)
    BY <2>2, <2>3, FrameFramed
  <2> HIDE DEF a, b, c
  <2>5. QED
    BY <2>1, <2>4, ThreeFramed
<1>4. CASE o \in [name: {"MD_READ"}, reg: Nat]
  <2>1. Script(o) = <<[do |-> "read", reg |-> o.reg % 256, val |-> 0]>>
    BY <1>4 DEF Script, Rd, Frame
  <2>2. o.reg % 256 \in 0..255
    BY <1>4
  <2>3. QED
    BY <2>1, <2>2 DEF Framed
<1>5. CASE o.reg \in Nat /\ o \in [name: {"MD_WRITE"}, reg: Nat, val: Holds(o.reg % 256)]
  <2>1. Script(o) = <<[do |-> "write", reg |-> o.reg % 256, val |-> o.val]>>
    BY <1>5 DEF Script, Wr, Frame
  <2>2. o.reg % 256 \in 0..255 /\ o.val \in Holds(o.reg % 256)
    BY <1>5
  <2>3. QED
    BY <2>1, <2>2 DEF Framed
<1>6. QED
  BY <1>1, <1>2, <1>3, <1>4, <1>5 DEF IsRequest
-----------------------------------------------------------------------------
LEMMA Registers ==
  /\ Cmd \in Regs /\ Data \in Regs /\ Cmd # Data
  /\ Holds(Cmd) = Commands /\ Holds(Data) = Values
  /\ Zero \in Values /\ NoCommand \in Commands
  /\ \A r \in Regs : Noise(r) \subseteq Holds(r)
BY Ip1818Assumption DEF Cmd, Data, Holds, Zero, NoCommand, Commands, Noise

(* A thread with a frame left shifts, or is about to shift, a frame that   *)
(* makes sense.                                                            *)
LEMMA CurrentFrame ==
  ASSUME TypeOK, NEW t \in Threads, Left(t)
  PROVE  /\ Framed(Current(t)) /\ pc[t] \in 1..3
         /\ IsRequest(op[t]) \/ op[t] = Init_
<1>1. op[t] \in UserOps \/ op[t] = Init_
  BY DEF TypeOK, Left, Busy, NoOp, Init_
<1>2. IsRequest(op[t]) \/ op[t] = Init_
  BY <1>1, Ip1818Assumption
<1>3. /\ Len(Script(op[t])) \in 1..3
      /\ \A i \in 1..Len(Script(op[t])) : Framed(Script(op[t])[i])
  BY <1>2, ScriptFrames
<1>4. pc[t] \in 1..Len(Script(op[t]))
  BY <1>3 DEF Left, TypeOK
<1>5. QED
  BY <1>2, <1>3, <1>4 DEF Current

(* What the end of a frame leaves alone, whatever happened to the frame.   *)
LEMMA EndEffect ==
  ASSUME TypeOK, Shape, NEW t \in Threads, EndWrite(t) \/ EndRead(t)
  PROVE  /\ Left(t) /\ t \in bus
         /\ bus' = bus \ {t} /\ clash' = clash \ {t}
         /\ synced' \in BOOLEAN /\ (Arrives(t) => synced' = synced)
         /\ UNCHANGED <<phys, op, used, since>>
         /\ pc' = [pc EXCEPT ![t] = pc'[t]] /\ pc'[t] \in {pc[t], pc[t] + 1}
         /\ data' = [data EXCEPT ![t] = data'[t]]
         /\ mem' = [r \in Regs |-> mem'[r]]
         /\ \A r \in Regs : mem'[r] \in Holds(r)
<1>1. EndFrame(t)
  BY DEF EndWrite, EndRead
<1>2. Framed(Current(t))
  BY <1>1, CurrentFrame DEF EndFrame
<1>3. ASSUME Garbled PROVE mem' = [r \in Regs |-> mem'[r]]
                           /\ \A r \in Regs : mem'[r] \in Holds(r)
  <2>1. CASE UNCHANGED mem
    BY <2>1 DEF TypeOK, Shape
  <2>2. CASE \E r \in Struck : \E v \in Noise(r) : mem' = [mem EXCEPT ![r] = v]
    <3>1. PICK r \in Struck : \E v \in Noise(r) : mem' = [mem EXCEPT ![r] = v]
      BY <2>2
    <3>2. PICK v \in Noise(r) : mem' = [mem EXCEPT ![r] = v]
      BY <3>1
    <3>3. r \in Regs /\ v \in Holds(r)
      BY Registers, Ip1818Assumption
    <3>4. QED
      BY <3>2, <3>3 DEF TypeOK, Shape
  <2>3. QED
    BY <1>3, <2>1, <2>2 DEF Garbled
<1>4. mem' = [r \in Regs |-> mem'[r]] /\ \A r \in Regs : mem'[r] \in Holds(r)
  <2>1. CASE EndRead(t)
    <3>1. CASE Arrives(t)
      BY <2>1, <3>1 DEF EndRead, TypeOK, Shape
    <3>2. CASE ~Arrives(t)
      BY <1>3, <2>1, <3>2 DEF EndRead
    <3>3. QED
      BY <3>1, <3>2
  <2>2. CASE EndWrite(t)
    <3>1. CASE Arrives(t) /\ Current(t).reg \in Regs
      <4>1. mem' = [mem EXCEPT ![Current(t).reg] = Current(t).val]
        BY <2>2, <3>1 DEF EndWrite
      <4>2. Current(t).val \in Holds(Current(t).reg)
        BY <1>2, <2>2 DEF EndWrite, Framed
      <4>3. QED
        BY <3>1, <4>1, <4>2 DEF TypeOK, Shape
    <3>2. CASE ~(Arrives(t) /\ Current(t).reg \in Regs)
      <4>1. UNCHANGED mem \/ Garbled
        BY <2>2, <3>2 DEF EndWrite
      <4>2. QED
        BY <1>3, <4>1 DEF TypeOK, Shape
    <3>3. QED
      BY <3>1, <3>2
  <2>3. QED
    BY <2>1, <2>2
<1>5. pc' = [pc EXCEPT ![t] = pc'[t]] /\ pc'[t] \in {pc[t], pc[t] + 1}
  BY DEF EndWrite, EndRead, TypeOK
<1>6. data' = [data EXCEPT ![t] = data'[t]]
  BY DEF EndWrite, EndRead, Shape
<1>7. synced' \in BOOLEAN /\ (Arrives(t) => synced' = synced)
  BY <1>1 DEF EndFrame, TypeOK
<1>8. QED
  BY <1>1, <1>4, <1>5, <1>6, <1>7 DEF EndFrame

LEMMA Initially == Init => IInv
<1> SUFFICES ASSUME Init PROVE IInv
  OBVIOUS
<1>1. TypeOK
  <2>1. \A r \in Regs : mem[r] \in Holds(r)
    BY Registers DEF Init, Holds
  <2>2. Clean \in Since
    BY DEF Clean, Since
  <2>3. QED
    BY <2>1, <2>2, Ip1818Assumption DEF Init, TypeOK
<1>2. Shape /\ AtRest /\ Apart
  BY DEF Init, Shape, AtRest, Apart, Busy, NoOp
<1>3. Progress
  BY DEF Init, Progress, Busy, NoOp
<1>4. QED
  BY <1>1, <1>2, <1>3 DEF IInv

(* The steps other than the end of a frame, and of the chip, leave the     *)
(* registers and the read data of the busy threads alone.                  *)
LEMMA BeginStep ==
  ASSUME IInv, NEW t \in Threads, Begin(t)
  PROVE  IInv'
<1> USE DEF IInv
<1>1. /\ ~Busy(t) /\ used' = [used EXCEPT ![t] = @ + 1] /\ used[t] < MaxOps
      /\ UNCHANGED <<mem, phys, synced, bus, clash, pc, data>>
  BY DEF Begin, chip
<1>2. PICK o \in UserOps : op' = [op EXCEPT ![t] = o]
  BY DEF Begin
<1>3. op'[t] = o /\ \A u \in Threads : u # t => op'[u] = op[u]
  BY <1>2 DEF Shape
<1>4. /\ since'[t] = [alone |-> \A w \in Threads : ~Busy(w), synced |-> synced,
                      idle |-> ~mem[Cmd].start]
      /\ \A u \in Threads : u # t => since'[u] = [since[u] EXCEPT !.alone = ~Busy(u)]
  BY DEF Begin
<1>5. mem[Cmd] \in Commands
  BY Registers DEF TypeOK
<1>6. since'[t] \in Since /\ \A u \in Threads : since'[u] \in Since
  <2>1. since'[t] \in Since
    BY <1>4, <1>5 DEF Since, TypeOK, Commands
  <2>2. ASSUME NEW u \in Threads, u # t PROVE since'[u] \in Since
    BY <1>4, <2>2 DEF Since, TypeOK, Busy
  <2>3. QED
    BY <2>1, <2>2
<1>7. TypeOK'
  <2>1. since' \in [Threads -> Since]
    BY <1>6 DEF Begin
  <2>2. used' \in [Threads -> 0..MaxOps]
    BY <1>1, Ip1818Assumption DEF TypeOK
  <2>3. \A u \in Threads : op'[u] \in UserOps \union {NoOp, [name |-> "init"]}
    BY <1>3 DEF TypeOK
  <2>4. QED
    BY <1>1, <2>1, <2>2, <2>3 DEF TypeOK, Holds
<1>8. Shape'
  BY <1>1, <1>2 DEF Shape
<1>9. pc[t] = 1 /\ t \notin bus
  BY <1>1 DEF AtRest, Left
<1>10. AtRest'
  BY <1>1, <1>3, <1>9 DEF AtRest, Busy, Left, TypeOK
<1>11. ASSUME NEW u \in Threads, Busy(u)', since'[u].alone
       PROVE  /\ u = t
              /\ \A w \in Threads : ~Busy(w)
              /\ bus = {} /\ clash = {}
  <2>1. u = t
    <3> SUFFICES ASSUME u # t PROVE FALSE
      OBVIOUS
    <3>1. Busy(u)
      BY <1>3, <1>11 DEF Busy
    <3>2. since[u] \in Since
      BY DEF TypeOK
    <3>3. since'[u].alone = ~Busy(u)
      BY <1>4, <3>2 DEF Since
    <3>4. QED
      BY <1>11, <3>1, <3>3
  <2>2. \A w \in Threads : ~Busy(w)
    BY <1>4, <1>11, <2>1
  <2>3. bus = {} /\ clash = {}
    BY <2>2 DEF AtRest, Left, TypeOK
  <2>4. QED
    BY <2>1, <2>2, <2>3
<1>12. Apart'
  <2> SUFFICES ASSUME NEW u \in Threads, Busy(u)', since'[u].alone
               PROVE  /\ \A w \in Threads : w # u => ~Busy(w)'
                      /\ clash' = {}
                      /\ since'[u].synced => synced'
    BY DEF Apart
  <2>1. QED
    BY <1>1, <1>3, <1>4, <1>11 DEF Busy
<1>13. Progress'
  <2> SUFFICES ASSUME NEW u \in Threads, Busy(u)', Undisturbed(u)'
               PROVE  /\ op'[u].name = "PHY_READ" => ReadSoFar(u)'
                      /\ op'[u].name = "PHY_WRITE" /\ since'[u].idle => WriteSoFar(u)'
    BY DEF Progress
  <2>1. u = t /\ pc'[u] = 1
    BY <1>1, <1>9, <1>11 DEF Undisturbed
  <2>2. since'[u].idle => ~mem'[Cmd].start
    <3> DEFINE all == \A w \in Threads : ~Busy(w)
               idle == ~mem[Cmd].start
    <3>1. since'[t] = [alone |-> all, synced |-> synced, idle |-> idle]
      BY <1>4, Zenon
    <3> HIDE DEF all, idle
    <3>2. since'[t].idle = idle
      BY <3>1
    <3>3. QED
      BY <1>1, <2>1, <3>2 DEF idle
  <2>3. QED
    BY <2>1, <2>2 DEF ReadSoFar, WriteSoFar
<1>14. QED
  BY <1>7, <1>8, <1>10, <1>12, <1>13

LEMMA StartFrameStep ==
  ASSUME IInv, NEW t \in Threads, StartFrame(t)
  PROVE  IInv'
<1> USE DEF IInv
<1>1. /\ Left(t) /\ bus' = bus \union {t}
      /\ clash' = IF bus = {} THEN clash ELSE clash \union bus \union {t}
      /\ UNCHANGED <<mem, phys, synced, op, pc, data, used, since>>
  BY DEF StartFrame, chip
<1>2. TypeOK'
  BY <1>1 DEF TypeOK, Holds
<1>3. Shape'
  BY <1>1 DEF Shape
<1>4. AtRest'
  BY <1>1 DEF AtRest, Busy, Left
<1>5. Apart'
  <2> SUFFICES ASSUME NEW u \in Threads, Busy(u), since[u].alone
               PROVE  /\ \A w \in Threads : w # u => ~Busy(w)
                      /\ clash' = {}
                      /\ since[u].synced => synced
    BY <1>1 DEF Apart, Busy
  <2>1. u = t /\ bus \subseteq {t}
    BY <1>1 DEF Apart, AtRest, Left, TypeOK
  <2>2. bus = {}
    BY <2>1 DEF StartFrame
  <2>3. QED
    BY <1>1, <2>2 DEF Apart
<1>6. Progress'
  BY <1>1 DEF Progress, Busy, Undisturbed, ReadSoFar, WriteSoFar, Fetched, Written
<1>7. QED
  BY <1>2, <1>3, <1>4, <1>5, <1>6

LEMMA ReturnStep ==
  ASSUME IInv, NEW t \in Threads, Return(t)
  PROVE  IInv'
<1> USE DEF IInv
<1>1. /\ Busy(t) /\ ~Left(t)
      /\ op' = [op EXCEPT ![t] = NoOp] /\ pc' = [pc EXCEPT ![t] = 1]
      /\ data' = [data EXCEPT ![t] = Zero]
      /\ since' = [since EXCEPT ![t] = Clean]
      /\ UNCHANGED <<mem, phys, synced, bus, clash, used>>
  BY DEF Return, chip
<1>2. TypeOK'
  <2>1. Clean \in Since
    BY DEF Clean, Since
  <2>2. QED
    BY <1>1, <2>1 DEF TypeOK, Holds, Shape
<1>3. Shape'
  BY <1>1 DEF Shape
<1>4. AtRest'
  BY <1>1 DEF AtRest, Busy, Left, TypeOK, Shape
<1>5. Apart'
  BY <1>1 DEF Apart, Busy, Shape, TypeOK
<1>6. Progress'
  <2> SUFFICES ASSUME NEW u \in Threads, Busy(u)', Undisturbed(u)'
               PROVE  /\ op'[u].name = "PHY_READ" => ReadSoFar(u)'
                      /\ op'[u].name = "PHY_WRITE" /\ since'[u].idle => WriteSoFar(u)'
    BY DEF Progress
  <2>1. u # t
    BY <1>1 DEF Busy, Shape
  <2>2. op'[u] = op[u] /\ pc'[u] = pc[u] /\ data'[u] = data[u] /\ since'[u] = since[u]
    BY <1>1, <2>1 DEF Shape, TypeOK
  <2>3. /\ op[u].name = "PHY_READ" => ReadSoFar(u)
        /\ op[u].name = "PHY_WRITE" /\ since[u].idle => WriteSoFar(u)
    BY <2>2 DEF Progress, Busy, Undisturbed
  <2>4. (ReadSoFar(u) => ReadSoFar(u)') /\ (WriteSoFar(u) => WriteSoFar(u)')
    BY <1>1, <2>2 DEF ReadSoFar, WriteSoFar, Fetched, Written
  <2>5. QED
    BY <2>2, <2>3, <2>4
<1>7. QED
  BY <1>2, <1>3, <1>4, <1>5, <1>6

(* The frames of an undisturbed PHY_READ and PHY_WRITE reach the chip, one *)
(* by one.                                                                 *)
LEMMA ReadProgress ==
  ASSUME IInv, NEW t \in Threads, EndWrite(t) \/ EndRead(t), Arrives(t),
         op[t].name = "PHY_READ", ReadSoFar(t)
  PROVE  ReadSoFar(t)'
<1> USE DEF IInv
<1>1. /\ UNCHANGED <<phys, op>> /\ pc[t] \in 1..3 /\ Left(t)
      /\ pc'[t] \in {pc[t], pc[t] + 1}
  BY EndEffect, CurrentFrame
<1>2. IsRequest(op[t]) \/ op[t] = Init_
  BY <1>1, CurrentFrame
<1>3. op[t].phy \in Nat /\ op[t].reg \in Nat
  BY <1>2 DEF IsRequest, Init_
<1> DEFINE com == ReadCommand(op[t])
           a == [do |-> "write", reg |-> Cmd, val |-> com]
           b == [do |-> "poll", reg |-> Cmd, val |-> 0]
           c == [do |-> "read", reg |-> Data, val |-> 0]
<1>4. Script(op[t]) = <<a, b, c>>
  BY <1>3, ReadFrames DEF Script, ReadCommand
<1>5. com \in Commands /\ ~com.done
  BY <1>3, CommandTyped DEF ReadCommand
<1>6. /\ pc[t] = 1 => Current(t) = a
      /\ pc[t] = 2 => Current(t) = b
      /\ pc[t] = 3 => Current(t) = c
  <2> HIDE DEF a, b, c
  <2>1. QED
    BY <1>4 DEF Current
<1>7. CASE pc[t] = 1
  <2>1. Current(t).do = "write" /\ Current(t).reg = Cmd /\ Current(t).val = com
    BY <1>6, <1>7
  <2>2. mem' = [mem EXCEPT ![Cmd] = com] /\ pc'[t] = 2
    BY <1>7, <2>1, Registers DEF EndWrite, EndRead, TypeOK
  <2>3. mem'[Cmd] = com
    BY <2>2, Registers DEF Shape
  <2>4. QED
    BY <1>1, <2>2, <2>3 DEF ReadSoFar
<1>8. CASE pc[t] = 2
  <2>1. Current(t).do = "poll" /\ Current(t).reg = Cmd
    BY <1>6, <1>8
  <2>2. /\ UNCHANGED <<mem, data>>
        /\ pc' = [pc EXCEPT ![t] = IF Again(mem[Cmd]) THEN @ ELSE @ + 1]
    BY <2>1, Registers DEF EndWrite, EndRead
  <2>3. CASE mem[Cmd] = com
    <3>1. pc'[t] = 2
      BY <1>5, <1>8, <2>2, <2>3 DEF Again, TypeOK
    <3>2. QED
      BY <1>1, <2>2, <2>3, <3>1 DEF ReadSoFar
  <2>4. CASE Fetched(t)
    <3>1. Fetched(t)'
      BY <1>1, <2>2, <2>4 DEF Fetched
    <3>2. pc'[t] \in {2, 3}
      BY <1>1, <1>8
    <3>3. QED
      BY <3>1, <3>2 DEF ReadSoFar
  <2>5. QED
    BY <1>8, <2>3, <2>4 DEF ReadSoFar
<1>9. CASE pc[t] = 3
  <2>1. Current(t).do = "read" /\ Current(t).reg = Data
    BY <1>6, <1>9
  <2>2. UNCHANGED mem /\ data' = [data EXCEPT ![t] = mem[Data]] /\ pc'[t] = 4
    BY <1>9, <2>1, Registers DEF EndWrite, EndRead, TypeOK
  <2>3. data'[t] = mem[Data]
    BY <2>2 DEF Shape
  <2>4. Fetched(t)
    BY <1>9 DEF ReadSoFar
  <2>5. QED
    BY <1>1, <2>2, <2>3, <2>4 DEF ReadSoFar, Fetched
<1>10. QED
  BY <1>1, <1>7, <1>8, <1>9

LEMMA WriteProgress ==
  ASSUME IInv, NEW t \in Threads, EndWrite(t) \/ EndRead(t), Arrives(t),
         op[t].name = "PHY_WRITE", WriteSoFar(t)
  PROVE  WriteSoFar(t)'
<1> USE DEF IInv
<1>1. /\ UNCHANGED <<phys, op>> /\ pc[t] \in 1..3 /\ Left(t)
      /\ pc'[t] \in {pc[t], pc[t] + 1}
  BY EndEffect, CurrentFrame
<1>2. IsRequest(op[t]) \/ op[t] = Init_
  BY <1>1, CurrentFrame
<1>3. op[t].phy \in Nat /\ op[t].reg \in Nat
  BY <1>2 DEF IsRequest, Init_
<1> DEFINE com == WriteCommand(op[t])
           v == op[t].val
           a == [do |-> "write", reg |-> Data, val |-> v]
           b == [do |-> "write", reg |-> Cmd, val |-> com]
           c == [do |-> "poll", reg |-> Cmd, val |-> 0]
<1>4. Script(op[t]) = <<a, b, c>>
  BY <1>3, WriteFrames DEF Script, WriteCommand
<1>5. com \in Commands /\ ~com.done
  BY <1>3, CommandTyped DEF WriteCommand
<1>6. /\ pc[t] = 1 => Current(t) = a
      /\ pc[t] = 2 => Current(t) = b
      /\ pc[t] = 3 => Current(t) = c
  <2> HIDE DEF a, b, c
  <2>1. QED
    BY <1>4 DEF Current
<1>7. CASE pc[t] = 1
  <2>1. Current(t).do = "write" /\ Current(t).reg = Data /\ Current(t).val = v
    BY <1>6, <1>7
  <2>2. mem' = [mem EXCEPT ![Data] = v] /\ pc'[t] = 2
    BY <1>7, <2>1, Registers DEF EndWrite, EndRead, TypeOK
  <2>3. mem'[Data] = v /\ mem'[Cmd] = mem[Cmd]
    BY <2>2, Registers DEF Shape
  <2>4. ~mem[Cmd].start
    BY <1>7 DEF WriteSoFar
  <2>5. QED
    BY <1>1, <2>2, <2>3, <2>4 DEF WriteSoFar
<1>8. CASE pc[t] = 2
  <2>1. Current(t).do = "write" /\ Current(t).reg = Cmd /\ Current(t).val = com
    BY <1>6, <1>8
  <2>2. mem' = [mem EXCEPT ![Cmd] = com] /\ pc'[t] = 3
    BY <1>8, <2>1, Registers DEF EndWrite, EndRead, TypeOK
  <2>3. mem'[Cmd] = com /\ mem'[Data] = mem[Data]
    BY <2>2, Registers DEF Shape
  <2>4. mem[Data] = v
    BY <1>8 DEF WriteSoFar
  <2>5. QED
    BY <1>1, <2>2, <2>3, <2>4 DEF WriteSoFar
<1>9. CASE pc[t] = 3
  <2>1. Current(t).do = "poll" /\ Current(t).reg = Cmd
    BY <1>6, <1>9
  <2>2. /\ UNCHANGED <<mem, data>>
        /\ pc' = [pc EXCEPT ![t] = IF Again(mem[Cmd]) THEN @ ELSE @ + 1]
    BY <2>1, Registers DEF EndWrite, EndRead
  <2>3. CASE mem[Cmd] = com /\ mem[Data] = v
    <3>1. pc'[t] = 3
      BY <1>5, <1>9, <2>2, <2>3 DEF Again, TypeOK
    <3>2. QED
      BY <1>1, <2>2, <2>3, <3>1 DEF WriteSoFar
  <2>4. CASE Written(t)
    <3>1. Written(t)'
      BY <1>1, <2>2, <2>4 DEF Written
    <3>2. pc'[t] \in {3, 4}
      BY <1>1, <1>9
    <3>3. QED
      BY <3>1, <3>2 DEF WriteSoFar
  <2>5. QED
    BY <1>9, <2>3, <2>4 DEF WriteSoFar
<1>10. QED
  BY <1>1, <1>7, <1>8, <1>9

LEMMA EndStep ==
  ASSUME IInv, NEW t \in Threads, EndWrite(t) \/ EndRead(t)
  PROVE  IInv'
<1> USE DEF IInv
<1>1. /\ Left(t) /\ t \in bus /\ bus' = bus \ {t} /\ clash' = clash \ {t}
      /\ synced' \in BOOLEAN /\ (Arrives(t) => synced' = synced)
      /\ UNCHANGED <<phys, op, used, since>>
      /\ pc' = [pc EXCEPT ![t] = pc'[t]] /\ pc'[t] \in {pc[t], pc[t] + 1}
      /\ data' = [data EXCEPT ![t] = data'[t]]
      /\ mem' = [r \in Regs |-> mem'[r]]
      /\ \A r \in Regs : mem'[r] \in Holds(r)
  BY EndEffect
<1>2. pc[t] \in 1..3
  BY <1>1, CurrentFrame
<1>3. TypeOK'
  <2>1. pc' \in [Threads -> 1..4]
    BY <1>1, <1>2 DEF TypeOK
  <2>2. QED
    BY <1>1, <2>1 DEF TypeOK, Holds
<1>4. Shape'
  BY <1>1 DEF Shape
<1>5. AtRest'
  <2>1. \A u \in Threads : u # t => pc'[u] = pc[u]
    BY <1>1 DEF TypeOK
  <2>2. QED
    BY <1>1, <2>1 DEF AtRest, Busy, Left, TypeOK
<1>6. ASSUME NEW u \in Threads, Busy(u), since[u].alone
      PROVE  u = t /\ clash = {} /\ (since[u].synced => Arrives(t))
  BY <1>1, <1>6 DEF Apart, Left, Arrives
<1>7. Apart'
  BY <1>1, <1>6 DEF Apart, Busy, Arrives
<1>8. Progress'
  <2> SUFFICES ASSUME NEW u \in Threads, Busy(u), Undisturbed(u)
               PROVE  /\ op[u].name = "PHY_READ" => ReadSoFar(u)'
                      /\ op[u].name = "PHY_WRITE" /\ since[u].idle => WriteSoFar(u)'
    BY <1>1 DEF Progress, Busy, Undisturbed
  <2>1. u = t /\ Arrives(t)
    BY <1>6 DEF Undisturbed
  <2>2. /\ op[t].name = "PHY_READ" => ReadSoFar(t)
        /\ op[t].name = "PHY_WRITE" /\ since[t].idle => WriteSoFar(t)
    BY <2>1 DEF Progress
  <2>3. QED
    BY <2>1, <2>2, ReadProgress, WriteProgress
<1>9. QED
  BY <1>3, <1>4, <1>5, <1>7, <1>8

(* The chip carries out what it finds in Cmd: only for the one ioctl whose *)
(* command that is does this change anything.                              *)
LEMMA EngineStep ==
  ASSUME IInv, Engine
  PROVE  IInv'
<1> USE DEF IInv
<1> DEFINE addr == <<mem[Cmd].phy, mem[Cmd].reg>>
<1>1. /\ mem[Cmd].start /\ mem[Cmd] \in Commands
      /\ UNCHANGED <<synced, bus, clash, op, pc, data, used, since>>
  BY Registers DEF Engine, TypeOK
<1>2. /\ mem' = [r \in Regs |-> mem'[r]]
      /\ mem'[Cmd] = [mem[Cmd] EXCEPT !.start = FALSE, !.done = TRUE]
      /\ \A r \in Regs \ {Cmd, Data} : mem'[r] = mem[r]
  BY Registers DEF Engine, Shape
<1>3. mem'[Cmd] \in Commands /\ ~mem'[Cmd].start
  BY <1>1, <1>2 DEF Commands
<1>4. ASSUME mem[Cmd].write
      PROVE  /\ mem'[Data] = mem[Data] /\ mem'[Data] \in Values
             /\ phys' \in [Phys -> Values]
             /\ addr \in Phys => phys'[addr] = mem[Data]
  <2>1. /\ mem'[Data] = mem[Data]
        /\ phys' = IF addr \in Phys THEN [phys EXCEPT ![addr] = mem[Data]] ELSE phys
    BY <1>4, Registers DEF Engine, Shape
  <2>2. mem'[Data] \in Values
    BY <2>1, Registers DEF TypeOK
  <2>3. phys' \in [Phys -> Values] /\ (addr \in Phys => phys'[addr] = mem[Data])
    BY <2>1, <2>2, Registers DEF TypeOK
  <2>4. QED
    BY <2>1, <2>2, <2>3
<1>5. ASSUME ~mem[Cmd].write
      PROVE  /\ phys' = phys /\ phys' \in [Phys -> Values]
             /\ mem'[Data] \in Values
             /\ addr \in Phys => mem'[Data] = phys[addr]
  <2>1. mem'[Data] = IF addr \in Phys THEN phys[addr] ELSE Zero
    BY <1>5, Registers DEF Engine, Shape
  <2>2. phys' = phys
    BY <1>5 DEF Engine
  <2>3. phys' \in [Phys -> Values] /\ mem'[Data] \in Values
    BY <2>1, <2>2, Registers DEF TypeOK
  <2>4. QED
    BY <2>1, <2>2, <2>3
<1>6. /\ phys' \in [Phys -> Values] /\ mem'[Data] \in Values
      /\ mem[Cmd].write => mem'[Data] = mem[Data]
                         /\ (addr \in Phys => phys'[addr] = mem[Data])
      /\ ~mem[Cmd].write => phys' = phys
                         /\ (addr \in Phys => mem'[Data] = phys[addr])
  BY <1>4, <1>5
<1>7. TypeOK'
  <2>1. \A r \in Regs : mem'[r] \in Holds(r)
    BY <1>2, <1>3, <1>6, Registers DEF TypeOK
  <2>2. QED
    BY <1>1, <1>6, <2>1 DEF TypeOK, Holds
<1>8. Shape' /\ AtRest' /\ Apart'
  BY <1>1, <1>2 DEF Shape, AtRest, Apart, Busy, Left
<1>9. ASSUME NEW u \in Threads, op[u].name = "PHY_READ", ReadSoFar(u), Busy(u)
      PROVE  ReadSoFar(u)'
  <2>1. UNCHANGED <<op, pc, data>> /\ pc[u] \in 1..4
    BY <1>1 DEF TypeOK
  <2>2. CASE pc[u] = 1
    BY <2>1, <2>2 DEF ReadSoFar
  <2>3. CASE pc[u] = 2
    <3>1. mem[Cmd] = ReadCommand(op[u])
      BY <1>1, <1>9, <2>3 DEF ReadSoFar, Fetched
    <3>2. ~mem[Cmd].write /\ addr = Phy(op[u])
      BY <3>1, <1>9 DEF Phy, ReadCommand, Command
    <3>3. Fetched(u)'
      BY <1>3, <1>5, <2>1, <3>2 DEF Fetched
    <3>4. QED
      BY <2>1, <2>3, <3>3 DEF ReadSoFar
  <2>4. CASE pc[u] > 2
    BY <1>1, <1>9, <2>4 DEF ReadSoFar, Fetched
  <2>5. QED
    BY <2>1, <2>2, <2>3, <2>4
<1>10. ASSUME NEW u \in Threads, op[u].name = "PHY_WRITE", WriteSoFar(u), Busy(u)
      PROVE  WriteSoFar(u)'
  <2>1. UNCHANGED <<op, pc, data>> /\ pc[u] \in 1..4
    BY <1>1 DEF TypeOK
  <2>2. CASE pc[u] = 3
    <3>1. mem[Cmd] = WriteCommand(op[u]) /\ mem[Data] = op[u].val
      BY <1>1, <1>10, <2>2 DEF WriteSoFar, Written
    <3>2. mem[Cmd].write /\ addr = Phy(op[u])
      BY <3>1 DEF Phy, WriteCommand, Command
    <3>3. Written(u)'
      BY <1>3, <1>4, <2>1, <3>1, <3>2 DEF Written
    <3>4. QED
      BY <2>1, <2>2, <3>3 DEF WriteSoFar
  <2>3. CASE pc[u] # 3
    BY <1>1, <1>10, <2>1, <2>3 DEF WriteSoFar, Written
  <2>4. QED
    BY <2>2, <2>3
<1>11. Progress'
  BY <1>1, <1>9, <1>10 DEF Progress, Busy, Undisturbed
<1>12. QED
  BY <1>7, <1>8, <1>11
-----------------------------------------------------------------------------
(* The inductive invariant of the driver. *)
THEOREM Inductive == Spec => []IInv
<1>1. Init => IInv
  BY Initially
<1>2. IInv /\ [Next]_vars => IInv'
  <2> SUFFICES ASSUME IInv, [Next]_vars PROVE IInv'
    OBVIOUS
  <2>1. CASE Engine
    BY <2>1, EngineStep
  <2>2. ASSUME NEW t \in Threads, Begin(t) \/ Inside(t) PROVE IInv'
    BY <2>2, BeginStep, StartFrameStep, EndStep, ReturnStep DEF Inside
  <2>3. CASE UNCHANGED vars
    <3>1. UNCHANGED <<mem, phys, synced, bus, clash, op, pc, data, used, since>>
      BY <2>3 DEF vars, chip
    <3>2. TypeOK'
      BY <3>1 DEF IInv, TypeOK, Holds
    <3>3. Shape' /\ AtRest' /\ Apart'
      BY <3>1 DEF IInv, Shape, AtRest, Apart, Busy, Left
    <3>4. Progress'
      BY <3>1 DEF IInv, Progress, Busy, Undisturbed, ReadSoFar, WriteSoFar,
                  Fetched, Written
    <3>5. QED
      BY <3>2, <3>3, <3>4 DEF IInv
  <2>4. QED
    BY <2>1, <2>2, <2>3 DEF Next
<1>3. QED
  BY <1>1, <1>2, PTL DEF Spec

(* The variables keep their types; each register of the chip holds what it *)
(* can hold, whatever garbled frames wrote.                                *)
THEOREM TypeCorrect == Spec => []TypeOK
<1>1. IInv => TypeOK
  BY DEF IInv
<1>2. QED
  BY <1>1, Inductive, PTL

(* A PHY_READ and a PHY_WRITE have three frames; they are over after them. *)
LEMMA OverAfterThree ==
  ASSUME IInv, NEW t \in Threads, ~Left(t), Busy(t),
         op[t].name \in {"PHY_READ", "PHY_WRITE"}
  PROVE  pc[t] > 3
<1>1. IsRequest(op[t])
  BY Ip1818Assumption DEF IInv, TypeOK, Busy, NoOp
<1>2. CASE op[t].name = "PHY_READ"
  <2>1. op[t].phy \in Nat /\ op[t].reg \in Nat
    BY <1>1, <1>2 DEF IsRequest
  <2>2. Len(Script(op[t])) = 3
    BY <1>2, <2>1, ReadFrames, ThreeFrames, Zenon DEF Script
  <2>3. QED
    BY <2>2 DEF Left, IInv, TypeOK
<1>3. CASE op[t].name = "PHY_WRITE"
  <2>1. op[t].phy \in Nat /\ op[t].reg \in Nat
    BY <1>1, <1>3 DEF IsRequest
  <2>2. Script(op[t]) = IP1818_SMI_WRITE(op[t].phy, op[t].reg, op[t].val)
    BY <1>3 DEF Script
  <2>3. Len(Script(op[t])) = 3
    BY <2>1, <2>2, WriteLength
  <2>4. QED
    BY <2>3 DEF Left, IInv, TypeOK
<1>4. QED
  BY <1>2, <1>3

(* An ioctl that is not overlapped and begins with the chip in step reads  *)
(* the register of the PHY it names: GPIO_SMI_READ of misc_ioctl.          *)
THEOREM ReadsExactly == Spec => []PhyReadExact
<1>1. IInv => PhyReadExact
  <2> SUFFICES ASSUME IInv, NEW t \in Threads, Ended(t, "PHY_READ"), Undisturbed(t),
                      Phy(op[t]) \in Phys
               PROVE  data[t] = phys[Phy(op[t])]
    BY DEF PhyReadExact
  <2>1. op[t].name = "PHY_READ" /\ ~Left(t)
    BY DEF Ended
  <2>2. Busy(t)
    BY <2>1 DEF Busy, NoOp
  <2>3. pc[t] > 3
    BY <2>1, <2>2, OverAfterThree
  <2>4. ReadSoFar(t)
    BY <2>1, <2>2 DEF IInv, Progress
  <2>5. QED
    BY <2>3, <2>4 DEF ReadSoFar
<1>2. QED
  BY <1>1, Inductive, PTL

(* An ioctl that is not overlapped and begins with the chip in step and no *)
(* command under way has stored its value when it returns.                 *)
THEOREM WritesLand == Spec => []PhyWriteLands
<1>1. IInv => PhyWriteLands
  <2> SUFFICES ASSUME IInv, NEW t \in Threads, Ended(t, "PHY_WRITE"), Undisturbed(t),
                      since[t].idle, Phy(op[t]) \in Phys
               PROVE  phys[Phy(op[t])] = op[t].val
    BY DEF PhyWriteLands
  <2>1. op[t].name = "PHY_WRITE" /\ ~Left(t)
    BY DEF Ended
  <2>2. Busy(t)
    BY <2>1 DEF Busy, NoOp
  <2>3. pc[t] > 3
    BY <2>1, <2>2, OverAfterThree
  <2>4. WriteSoFar(t)
    BY <2>1, <2>2 DEF IInv, Progress
  <2>5. QED
    BY <2>3, <2>4 DEF WriteSoFar, Written
<1>2. QED
  BY <1>1, Inductive, PTL
=============================================================================
