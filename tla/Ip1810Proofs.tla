---------------------------- MODULE Ip1810Proofs ----------------------------
(***************************************************************************)
(* Proofs about the IP1810 driver above its register accesses, for any     *)
(* threads, tables, registers and ioctls: while users read, write other    *)
(* registers and count packets, demo_init leaves the switch as its         *)
(* comments say, and a counter once selected is lost to another count only. *)
(***************************************************************************)
EXTENDS Ip1810, Ip1810AccessProofs, Ip1810ScriptProofs, SequenceTheorems

(* Users read, write and count, all of it under the lock. *)
Gentle ==
  /\ NoneBare
  /\ \A o \in UserOps : o.name \in {"read", "write", "count"}

(* Only counts write the command of the counters. *)
CommandLeftAlone ==
  \A o \in UserOps : o.name = "write" => o.page # 0 \/ o.reg # 100

(* They write nothing to the page that demo_init writes. *)
TableLeftAlone ==
  \A o \in UserOps : o.name = "write" => o.page # 2

InitOp == [name |-> "init"]

(* The types of the host's variables. *)
HostType ==
  /\ op \in [Threads -> UserOps \union {NoOp, InitOp}]
  /\ op[Loader] \in {NoOp, InitOp}
  /\ \A t \in Users : op[t] # InitOp
  /\ pc \in [Threads -> Nat \ {0}]
  /\ local \in [Threads -> [data: Values, tmp: Values]]
  /\ vlan \in [DOMAIN Factory -> [Fields -> Values]]

(* The access a thread is in is the one its next instruction asks for. *)
Asked(t) ==
  LET i == Current(t) IN
  /\ io[t].op = Kind(i.do) /\ io[t].page = i.page /\ io[t].reg = i.reg
  /\ i.do = "store" => io[t].val = i.val
  /\ i.do = "or" => io[t].val = local[t].data

Matched(t) == io[t] # NoAccess => Running(t) /\ Left(t) /\ Asked(t)

Match == \A t \in Threads : Matched(t)

(* A read makes MDC an output before its first bit, so that whoever begins *)
(* with a read finds it an output ever after.                              *)
ReadsFirst(t) == t = Loader \/ op[t].name = "count"

DrivenBy(t) ==
  /\ io[t].at \in {"pageBits", "access", "accessBits", "unlock", "done"}
       /\ io[t].op = "read" => mdcOut
  /\ ReadsFirst(t) /\ pc[t] > 1 => mdcOut

Driven == \A t \in Threads : DrivenBy(t)

HostInv == TypeOK /\ LockInv /\ PageInv /\ HostType /\ Match /\ Driven
-----------------------------------------------------------------------------
(* Where demo_init is in its loop over the entries. *)
Base(e) == 2 + LastTag + 13 * (e - 1)

(* A field of entry e when the first n instructions about it are done. *)
Field(e, f, n) ==
  CASE f = 211 -> IF n >= 3 THEN Word(e) ELSE Factory[e][211]
    [] f = 212 -> Factory[e][212] \union (IF n >= 5 THEN {1} ELSE {})
                    \union (IF n >= 9 THEN {13, 14, 15} ELSE {})
    [] f = 213 -> Factory[e][213] \union (IF n >= 11 THEN 0..4 ELSE {})
    [] f = 216 -> Factory[e][216] \union (IF n >= 7 THEN {15} ELSE {})

InFields(e, n) == \A f \in Fields : mem[<<2, f>>] = Field(e, f, n)

Command == mem[<<2, TableCommand>>]

(* The chip's command register and field registers at that place. *)
EntryState(e, n) ==
  /\ n = 1 => \/ Command = FetchWord(e)
              \/ Command = Word(e) /\ InFields(e, 1)
  /\ n \in 2..11 => Command = Word(e) /\ InFields(e, n)
  /\ n = 12 => /\ Command \in {StoreWord(e), StoreWord(e) \ {15}}
               /\ InFields(e, 12)
  /\ n = 13 => 15 \notin Command

(* An entry is done when the chip has stored it. *)
EntryStored(e) ==
  \/ Done(Loader) >= Base(e) + 13
  \/ Done(Loader) = Base(e) + 12 /\ 15 \notin Command

(* What the loader has read or put together for the instruction it is in.  *)
FetchedFor(i) ==
  LET a == <<2, i.reg>>
      call == io[Loader]
  IN /\ i.do = "data" /\ call.at \in {"unlock", "done"} => call.val = mem[a]
     /\ i.do = "whileBusy" /\ call.at \in {"unlock", "done"} =>
          (15 \notin call.val => 15 \notin mem[a])
     /\ i.do = "or" /\ call = NoAccess => local[Loader].data = mem[a]
     /\ i.do = "or" /\ call.at \in {"lock", "page", "pageBits", "access", "accessBits"} =>
          local[Loader].data = mem[a] \union i.val

Fetched == Running(Loader) /\ Left(Loader) => FetchedFor(Current(Loader))

Loaded ==
  /\ Done(Loader) >= 2 => {1, 3} \subseteq mem[<<2, 6>>]
  /\ \A i \in 0..(LastTag - 1) :
       Done(Loader) >= 3 + i => mem[<<2, TagReg(i)>>] = TagWord(i)
  /\ Done(Loader) <= 2 + LastTag => 15 \notin Command
  /\ \A e \in 1..LastEntry, n \in 1..13 :
       Done(Loader) = Base(e) + n => EntryState(e, n)
  /\ \A e \in DOMAIN Factory :
       vlan[e] = IF e \in 1..LastEntry /\ EntryStored(e) THEN Programmed(e) ELSE Factory[e]

(* demo_init has not returned before its last instruction. *)
Finished ==
  /\ pc[Loader] <= 3 + LastTag + 13 * LastEntry
  /\ op[Loader] = NoOp => pc[Loader] = 3 + LastTag + 13 * LastEntry

LoaderInv == Fetched /\ Loaded /\ Finished
-----------------------------------------------------------------------------
(* The instructions of the ioctls and of demo_init, one by one. *)
LEMMA EntryLength == EntryLen = 13 /\ \A e : DOMAIN VlanEntry(e) = 1..13
BY DEF EntryLen, VlanEntry

LEMMA EntryInstructions ==
  ASSUME NEW e
  PROVE  /\ VlanEntry(e)[1] = Wr(2, TableCommand, FetchWord(e))
         /\ VlanEntry(e)[2] = WaitTable
         /\ VlanEntry(e)[3] = Wr(2, 211, Word(e))
         /\ VlanEntry(e)[4] = Rd(2, 212) /\ VlanEntry(e)[5] = WrOr(2, 212, {1})
         /\ VlanEntry(e)[6] = Rd(2, 216) /\ VlanEntry(e)[7] = WrOr(2, 216, {15})
         /\ VlanEntry(e)[8] = Rd(2, 212)
         /\ VlanEntry(e)[9] = WrOr(2, 212, {13, 14, 15})
         /\ VlanEntry(e)[10] = Rd(2, 213) /\ VlanEntry(e)[11] = WrOr(2, 213, 0..4)
         /\ VlanEntry(e)[12] = Wr(2, TableCommand, StoreWord(e))
         /\ VlanEntry(e)[13] = WaitTable
BY DEF VlanEntry

LEMMA TableAt ==
  ASSUME NEW e \in 1..LastEntry, NEW n \in 1..13
  PROVE  13 * (e - 1) + n \in 1..(LastEntry * 13)
         /\ Table[13 * (e - 1) + n] = VlanEntry(e)[n]
<1> DEFINE k == 13 * (e - 1) + n
<1>1. k \in 1..(LastEntry * 13)
  BY Ip1810Assumption
<1>2. (k - 1) \div 13 = e - 1 /\ (k - 1) % 13 = n - 1
  OBVIOUS
<1>3. Table[k] = VlanEntry(((k - 1) \div 13) + 1)[((k - 1) % 13) + 1]
  BY <1>1, EntryLength DEF Table
<1>4. ((k - 1) \div 13) + 1 = e /\ ((k - 1) % 13) + 1 = n
  BY <1>2
<1> QED
  BY <1>1, <1>3, <1>4

LEMMA DemoInitAt ==
  /\ DOMAIN DemoInit = 1..(2 + LastTag + 13 * LastEntry)
  /\ DemoInit[1] = Rd(2, 6) /\ DemoInit[2] = WrOr(2, 6, {1, 3})
  /\ \A i \in 1..LastTag : DemoInit[2 + i] = Wr(2, TagReg(i - 1), TagWord(i - 1))
  /\ \A e \in 1..LastEntry, n \in 1..13 : DemoInit[Base(e) + n] = VlanEntry(e)[n]
<1> DEFINE S == {Rd(2, 6), WrOr(2, 6, {1, 3})}
             \union {Ports[i] : i \in 1..LastTag} \union {Table[i] : i \in 1..(LastEntry * 13)}
           a == SetBits(2, 6, {1, 3})
           ab == a \o Ports
<1>0. LastTag \in Nat /\ LastEntry \in Nat /\ LastEntry * 13 \in Nat
  BY Ip1810Assumption
<1>1. a \in Seq(S) /\ Len(a) = 2 /\ a[1] = Rd(2, 6) /\ a[2] = WrOr(2, 6, {1, 3})
  BY DEF SetBits
<1>2. Ports \in Seq(S) /\ Len(Ports) = LastTag
  <2>1. \A i \in 1..LastTag : Ports[i] \in S
    OBVIOUS
  <2>2. Ports = [i \in 1..LastTag |-> Ports[i]]
    BY DEF Ports
  <2> HIDE DEF S
  <2> QED
    BY <1>0, <2>1, <2>2, IsASeq, LenProperties
<1>3. Table \in Seq(S) /\ Len(Table) = LastEntry * 13
  <2>1. \A i \in 1..(LastEntry * 13) : Table[i] \in S
    OBVIOUS
  <2>2. Table = [i \in 1..(LastEntry * 13) |-> Table[i]]
    BY EntryLength DEF Table
  <2> HIDE DEF S
  <2> QED
    BY <1>0, <2>1, <2>2, IsASeq, LenProperties
<1> HIDE DEF S, a
<1>4. ab \in Seq(S) /\ Len(ab) = 2 + LastTag
      /\ \A i \in 1..(2 + LastTag) : ab[i] = IF i <= 2 THEN a[i] ELSE Ports[i - 2]
  <2>1. /\ ab \in Seq(S) /\ Len(ab) = Len(a) + Len(Ports)
        /\ \A i \in 1..(Len(a) + Len(Ports)) :
             ab[i] = IF i <= Len(a) THEN a[i] ELSE Ports[i - Len(a)]
    BY ONLY <1>1, <1>2, ConcatProperties
  <2> QED
    BY <1>1, <1>2, <2>1
<1>5. DemoInit = ab \o Table
  BY DEF DemoInit, a
<1> HIDE DEF ab
<1>6. DemoInit \in Seq(S) /\ Len(DemoInit) = 2 + LastTag + LastEntry * 13
      /\ \A i \in 1..(2 + LastTag + LastEntry * 13) :
           DemoInit[i] = IF i <= 2 + LastTag THEN ab[i] ELSE Table[i - (2 + LastTag)]
  <2>1. /\ ab \o Table \in Seq(S) /\ Len(ab \o Table) = Len(ab) + Len(Table)
        /\ \A i \in 1..(Len(ab) + Len(Table)) :
             (ab \o Table)[i] = IF i <= Len(ab) THEN ab[i] ELSE Table[i - Len(ab)]
    BY ONLY <1>3, <1>4, ConcatProperties
  <2> QED
    BY <1>3, <1>4, <1>5, <2>1
<1>7. DOMAIN DemoInit = 1..(2 + LastTag + 13 * LastEntry)
  BY <1>0, <1>6, LenProperties
<1>8. DemoInit[1] = Rd(2, 6) /\ DemoInit[2] = WrOr(2, 6, {1, 3})
  BY <1>0, <1>1, <1>4, <1>6
<1>9. ASSUME NEW i \in 1..LastTag
      PROVE  DemoInit[2 + i] = Wr(2, TagReg(i - 1), TagWord(i - 1))
  <2>1. DemoInit[2 + i] = Ports[i]
    BY <1>0, <1>4, <1>6
  <2> QED
    BY <2>1 DEF Ports
<1>10. ASSUME NEW e \in 1..LastEntry, NEW n \in 1..13
       PROVE  DemoInit[Base(e) + n] = VlanEntry(e)[n]
  <2>1. DemoInit[2 + LastTag + (13 * (e - 1) + n)] = Table[13 * (e - 1) + n]
    BY <1>0, <1>6, TableAt
  <2>2. Base(e) + n = 2 + LastTag + (13 * (e - 1) + n)
    BY <1>0 DEF Base
  <2> QED
    BY <2>1, <2>2, TableAt
<1> QED
  BY <1>7, <1>8, <1>9, <1>10
-----------------------------------------------------------------------------
LEMMA Assumed ==
  /\ LastTag \in Nat \ {0} /\ LastEntry \in Nat \ {0} /\ 19 + LastTag - 1 < 210
  /\ Values = SUBSET (0..15) /\ {0, 2, 3} \subseteq Pages
  /\ {1, 6, 100, 101, 102, 210, 19, 20, 211, 212, 213, 216} \subseteq Regs
  /\ \A i \in 0..(LastTag - 1) : TagReg(i) \in Regs
BY Ip1810Assumption DEF TagReg, TableCommand, PhyCommand, PhyResult, Fields

(* What a thread in an ioctl, or in demo_init, executes. *)
LEMMA Executes ==
  ASSUME Gentle, HostType, NEW t \in Threads, Running(t)
  PROVE  \/ /\ t = Loader /\ op[t] = InitOp /\ Script(op[t]) = DemoInit
         \/ /\ t # Loader /\ op[t] \in UserOps
            /\ op[t].name = "read" /\ op[t].page \in Pages /\ op[t].reg \in Regs
            /\ Script(op[t]) = <<Rd(op[t].page, op[t].reg)>>
         \/ /\ t # Loader /\ op[t] \in UserOps
            /\ op[t].name = "write" /\ op[t].page \in Pages /\ op[t].reg \in Regs
            /\ op[t].val \in Values
            /\ Script(op[t]) = <<Wr(op[t].page, op[t].reg, op[t].val),
                                 Rd(op[t].page, op[t].reg)>>
         \/ /\ t # Loader /\ op[t] \in UserOps
            /\ op[t].name = "count" /\ op[t].cmd \in Values
            /\ Script(op[t]) = Count(op[t].cmd)
<1>1. CASE op[t] = InitOp
  BY <1>1 DEF HostType, InitOp, Script, Users
<1>2. CASE op[t] # InitOp
  <2>1. op[t] \in UserOps /\ op[t] \in Requests
    BY <1>2, Ip1810Assumption DEF HostType, Running
  <2>2. t # Loader
    BY <1>2 DEF HostType, Running
  <2>3. op[t].name \in {"read", "write", "count"}
    BY <2>1 DEF Gentle
  <2>4. CASE op[t].name = "read"
    BY <2>1, <2>2, <2>4 DEF Requests, Script
  <2>5. CASE op[t].name = "write"
    BY <2>1, <2>2, <2>5 DEF Requests, Script
  <2>6. CASE op[t].name = "count"
    BY <2>1, <2>2, <2>6 DEF Requests, Script
  <2> QED
    BY <2>3, <2>4, <2>5, <2>6
<1> QED
  BY <1>1, <1>2

LEMMA WordType == \A n : Word(n) \in SUBSET (0..15)
BY DEF Word

Instructions == [do: {"data", "tmp", "store", "or", "whileBusy"},
                 page: Pages, reg: Regs, val: Values]

(* Where an instruction of demo_init stands. *)
LEMMA Where ==
  ASSUME NEW k \in DOMAIN DemoInit
  PROVE  \/ k = 1 \/ k = 2
         \/ \E i \in 1..LastTag : k = 2 + i
         \/ \E e \in 1..LastEntry, n \in 1..13 : k = Base(e) + n
<1>1. k \in 1..(2 + LastTag + 13 * LastEntry) /\ LastTag \in Nat /\ LastEntry \in Nat
  BY DemoInitAt, Assumed
<1>2. CASE k <= 2 + LastTag
  <2>1. k > 2 => k - 2 \in 1..LastTag /\ k = 2 + (k - 2)
    BY <1>1, <1>2
  <2> QED
    BY <1>1, <2>1
<1>3. CASE k > 2 + LastTag
  <2> DEFINE m == k - (2 + LastTag) - 1
             e == (m \div 13) + 1
             n == (m % 13) + 1
  <2>1. m \in Nat /\ m < 13 * LastEntry /\ k = 2 + LastTag + m + 1
    BY <1>1, <1>3
  <2> HIDE DEF m
  <2>2. m = 13 * (m \div 13) + (m % 13) /\ m % 13 \in 0..12 /\ m \div 13 \in Nat
    BY <2>1
  <2>3. e \in 1..LastEntry /\ n \in 1..13
    BY <1>1, <2>1, <2>2
  <2>4. k = Base(e) + n
    BY <1>1, <2>1, <2>2 DEF Base
  <2> QED
    BY <2>3, <2>4
<1> QED
  BY <1>1, <1>2, <1>3

LEMMA InstructionType ==
  \A p \in Pages, r \in Regs, v \in Values :
    /\ Rd(p, r) \in Instructions /\ RdTmp(p, r) \in Instructions
    /\ Wr(p, r, v) \in Instructions /\ WrOr(p, r, v) \in Instructions
    /\ Rd(p, r).page = p /\ Wr(p, r, v).page = p /\ WrOr(p, r, v).page = p
BY Assumed DEF Rd, RdTmp, Wr, WrOr, Instruction, Instructions

LEMMA DemoInitType ==
  \A k \in DOMAIN DemoInit : DemoInit[k] \in Instructions /\ DemoInit[k].page = 2
<1> DEFINE S == {x \in Instructions : x.page = 2}
<1> SUFFICES ASSUME NEW k \in DOMAIN DemoInit PROVE DemoInit[k] \in S
  OBVIOUS
<1>0. /\ \A r \in Regs, v \in Values : Rd(2, r) \in S /\ Wr(2, r, v) \in S /\ WrOr(2, r, v) \in S
      /\ WaitTable \in S
  <2>1. WaitTable \in S
    BY Assumed DEF WaitTable, TableCommand, Instruction, Instructions
  <2> QED
    BY <2>1, Assumed, InstructionType
<1> HIDE DEF S
<1>1. CASE k = 1 \/ k = 2
  <2>1. {1, 3} \in Values /\ 6 \in Regs
    BY Assumed
  <2> QED
    BY <1>0, <1>1, <2>1, DemoInitAt
<1>2. ASSUME NEW i \in 1..LastTag, k = 2 + i PROVE DemoInit[k] \in S
  <2>1. TagReg(i - 1) \in Regs /\ TagWord(i - 1) \in Values
    BY Assumed, WordType DEF TagWord
  <2> QED
    BY <1>0, <1>2, <2>1, DemoInitAt
<1>3. ASSUME NEW e \in 1..LastEntry, NEW n \in 1..13, k = Base(e) + n
      PROVE  DemoInit[k] \in S
  <2>1. Word(e) \in Values /\ FetchWord(e) \in Values /\ StoreWord(e) \in Values
    BY Assumed, WordType DEF FetchWord, StoreWord
  <2>2. n \in {1, 2, 3, 4, 5, 6, 7, 8, 9, 10, 11, 12, 13}
    OBVIOUS
  <2>3. {1} \in Values /\ {15} \in Values /\ {13, 14, 15} \in Values /\ 0..4 \in Values
    BY Assumed
  <2>4. TableCommand \in Regs /\ {211, 212, 213, 216} \subseteq Regs
    BY Assumed DEF TableCommand
  <2>a. ASSUME n \in {1, 2, 3, 12, 13} PROVE VlanEntry(e)[n] \in S
    BY <1>0, <2>1, <2>4, <2>a, EntryInstructions
  <2>b. ASSUME n \in {4, 6, 8, 10} PROVE VlanEntry(e)[n] \in S
    BY <1>0, <2>3, <2>4, <2>b, EntryInstructions
  <2>c. ASSUME n \in {5, 7, 9, 11} PROVE VlanEntry(e)[n] \in S
    BY <1>0, <2>3, <2>4, <2>c, EntryInstructions
  <2>5. VlanEntry(e)[n] \in S
    BY <2>2, <2>a, <2>b, <2>c
  <2> QED
    BY <1>3, <2>5, DemoInitAt
<1> QED
  BY <1>1, <1>2, <1>3, Where

LEMMA CurrentType ==
  ASSUME Gentle, HostType, NEW t \in Threads, Running(t), Left(t)
  PROVE  Current(t) \in Instructions
<1> USE Assumed DEF Left, Current
<1>1. CASE Script(op[t]) = DemoInit
  BY <1>1, DemoInitType
<1>2. ASSUME op[t].page \in Pages, op[t].reg \in Regs,
             Script(op[t]) = <<Rd(op[t].page, op[t].reg)>>
      PROVE  Current(t) \in Instructions
  BY <1>2 DEF Instructions, Rd, Instruction
<1>3. ASSUME op[t].page \in Pages, op[t].reg \in Regs, op[t].val \in Values,
             Script(op[t]) = <<Wr(op[t].page, op[t].reg, op[t].val),
                               Rd(op[t].page, op[t].reg)>>
      PROVE  Current(t) \in Instructions
  BY <1>3 DEF Instructions, Rd, Wr, Instruction
<1>4. ASSUME op[t].cmd \in Values, Script(op[t]) = Count(op[t].cmd)
      PROVE  Current(t) \in Instructions
  <2>1. pc[t] \in {1, 2, 3, 4, 5, 6}
    BY <1>4 DEF Count
  <2>2. Current(t) \in {Rd(0, 1), WrOr(0, 1, {9}), Wr(0, 100, op[t].cmd),
                        Rd(0, 101), RdTmp(0, 102)}
    BY <1>4, <2>1 DEF Count
  <2> QED
    BY <1>4, <2>2 DEF Instructions, Rd, RdTmp, Wr, WrOr, Instruction
<1> QED
  BY <1>1, <1>2, <1>3, <1>4, Executes
-----------------------------------------------------------------------------
(* The initial states. *)
LEMMA HostInit == DriverInit => HostInv
<1> SUFFICES ASSUME DriverInit PROVE HostInv
  OBVIOUS
<1> USE Assumed DEF DriverInit
<1>1. AccessInit
  <2>1. {} \in Values /\ 0 \in Pages
    OBVIOUS
  <2> QED
    BY <2>1 DEF AccessInit
<1>2. TypeOK /\ LockInv /\ PageInv
  BY <1>1, TypeInit, LockInvInit, PageInvInit
<1>3. HostType
  <2>1. \A t \in Threads : op[t] = IF t = Loader THEN InitOp ELSE NoOp
    BY DEF InitOp
  <2>2. op \in [Threads -> UserOps \union {NoOp, InitOp}]
    BY DEF InitOp
  <2>3. NoOp # InitOp
    BY DEF NoOp, InitOp
  <2>4. local \in [Threads -> [data: Values, tmp: Values]]
    OBVIOUS
  <2>5. vlan \in [DOMAIN Factory -> [Fields -> Values]]
    BY Ip1810Assumption
  <2>6. pc \in [Threads -> Nat \ {0}] /\ Loader \in Threads
    BY Ip1810Assumption
  <2> QED
    BY <2>1, <2>2, <2>3, <2>4, <2>5, <2>6 DEF HostType, Users
<1>4. Match /\ Driven
  BY DEF Match, Matched, Driven, DrivenBy, NoAccess
<1> QED
  BY <1>2, <1>3, <1>4 DEF HostInv

-----------------------------------------------------------------------------
(* The steps of an access, when every frame arrives. *)
Moves(t, ph) ==
  /\ io[t].at \in Phases /\ Goto(t, ph)
  /\ <<io[t].at, ph>> \in {<<"lock", "page">>, <<"page", "pageBits">>,
                          <<"pageBits", "access">>, <<"access", "accessBits">>,
                          <<"unlock", "done">>}
  /\ mdcOut' = (mdcOut \/ (io[t].at = "page" /\ io[t].op = "read"))
  /\ UNCHANGED <<mem, hostVars, vlan>>

WriteEnds(t) ==
  /\ io[t].at = "accessBits" /\ io[t].op = "write" /\ Goto(t, "unlock")
  /\ mem' = IF mdcOut THEN [mem EXCEPT ![<<io[t].page, io[t].reg>>] = io[t].val] ELSE mem
  /\ UNCHANGED <<mdcOut, hostVars, vlan>>

ReadEnds(t) ==
  /\ io[t].at = "accessBits" /\ io[t].op = "read" /\ mdcOut
  /\ io' = [io EXCEPT ![t].at = "unlock", ![t].val = mem[<<io[t].page, io[t].reg>>]]
  /\ UNCHANGED <<mdcOut, mem, hostVars, vlan>>

LEMMA ShiftCases ==
  ASSUME HostInv, NEW t \in Threads, Shift(t)
  PROVE  (\E ph : Moves(t, ph)) \/ WriteEnds(t) \/ ReadEnds(t)
<1> USE DEF Shift, At
<1>a. clash = {} /\ stale = {}
  BY DEF HostInv, PageInv
<1>b. io[t].at \in Phases => io[t].op # "page"
  BY DEF HostInv, PageInv, NoAccess, Phases
<1>c. mdcOut \in BOOLEAN
  BY DEF HostInv, TypeOK
<1>1. CASE Acquire(t)
  <2>1. Moves(t, "page")
    BY <1>c, <1>1 DEF Acquire, Moves, Phases
  <2> QED
    BY <2>1
<1>2. CASE StartPage(t)
  <2>1. Moves(t, "pageBits")
    BY <1>c, <1>2 DEF StartPage, Moves, Phases
  <2> QED
    BY <2>1
<1>3. CASE EndPage(t)
  <2>1. io[t].op # "page" /\ io[t].at \in Phases /\ io[t].at = "pageBits"
    BY <1>b, <1>3 DEF EndPage, Phases
  <2>2. Moves(t, "access")
    BY <1>a, <1>c, <1>3, <2>1 DEF EndPage, Moves, Delivered
  <2> QED
    BY <2>2
<1>4. CASE StartAccess(t)
  <2>1. Moves(t, "accessBits")
    BY <1>c, <1>4 DEF StartAccess, Moves, Phases
  <2> QED
    BY <2>1
<1>5. CASE EndWrite(t)
  <2>1. mdcOut => page = io[t].page
    BY <1>5 DEF EndWrite, HostInv, PageInv, RightPage
  <2> QED
    BY <1>a, <1>5, <2>1 DEF EndWrite, WriteEnds, Delivered
<1>6. CASE EndRead(t)
  <2>1. mdcOut
    BY <1>6 DEF EndRead, HostInv, Driven, DrivenBy
  <2>2. page = io[t].page
    BY <1>6, <2>1 DEF EndRead, HostInv, PageInv, RightPage
  <2> QED
    BY <1>a, <1>6, <2>1, <2>2 DEF EndRead, ReadEnds, Delivered
<1>7. CASE Release(t)
  <2>1. Moves(t, "done")
    BY <1>c, <1>7 DEF Release, Moves, Phases
  <2> QED
    BY <2>1
<1>8. CASE WriteBack(t)
  BY <1>a, <1>8 DEF WriteBack
<1> QED
  BY <1>1, <1>2, <1>3, <1>4, <1>5, <1>6, <1>7, <1>8 DEF Transfer

(* A call the driver makes is one the access module knows. *)
LEMMA Calls ==
  ASSUME Gentle, HostInv, NEW t \in Threads, Issue(t)
  PROVE  CallSome(t)
<1> DEFINE i == Current(t)
           v == IF i.do = "or" THEN local[t].data \union i.val ELSE i.val
<1>1. i \in Instructions
  BY CurrentType DEF HostInv, Issue
<1>2. Call(t, Kind(i.do), i.page, i.reg, v)
  BY DEF Issue
<1>3. local[t].data \in Values
  BY DEF HostInv, HostType
<1> HIDE DEF i
<1>4. v \in Values
  BY <1>1, <1>3, Assumed DEF Instructions
<1>5. Kind(i.do) \in {"read", "write"} /\ i.page \in Pages /\ i.reg \in Regs
  BY <1>1 DEF Instructions, Kind
<1> HIDE DEF v
<1> QED
  BY <1>2, <1>4, <1>5 DEF CallSome

(* What the chip's engines do has the types of registers and of the table. *)
LEMMA Engines ==
  ASSUME HostInv, VlanEngine \/ PhyEngine
  PROVE  mem' \in [Addrs -> Values] /\ vlan' \in [DOMAIN Factory -> [Fields -> Values]]
         /\ UNCHANGED <<lock, mdcOut, page, io, bus, clash, stale, hostVars>>
<1>0. mem \in [Addrs -> Values] /\ vlan \in [DOMAIN Factory -> [Fields -> Values]]
  BY DEF HostInv, TypeOK, HostType
<1>1. CASE VlanEngine
  <2> DEFINE cmd == mem[<<2, TableCommand>>]
             done == [mem EXCEPT ![<<2, TableCommand>>] = cmd \ {15}]
             fields == [f \in Fields |-> mem[<<2, f>>]]
  <2>1. mem' = TableDone(mem, vlan).mem /\ vlan' = TableDone(mem, vlan).vlan
    BY <1>1 DEF VlanEngine
  <2>2. <<2, TableCommand>> \in Addrs /\ \A f \in Fields : <<2, f>> \in Addrs
    BY Assumed DEF Addrs, TableCommand, Fields
  <2>3. done \in [Addrs -> Values]
    BY <1>0, <2>2, Assumed
  <2>4. fields \in [Fields -> Values]
    BY <1>0, <2>2
  <2>5. TableDone(mem, vlan) =
          IF 14 \in cmd
          THEN [mem |-> done, vlan |-> [e \in DOMAIN vlan |->
                  IF e \in Entry(cmd, vlan) THEN fields ELSE vlan[e]]]
          ELSE IF Entry(cmd, vlan) # {}
          THEN LET e == CHOOSE x \in Entry(cmd, vlan) : TRUE
               IN [mem |-> [a \in DOMAIN mem |-> IF a[1] = 2 /\ a[2] \in Fields
                                                THEN vlan[e][a[2]] ELSE done[a]],
                   vlan |-> vlan]
          ELSE [mem |-> done, vlan |-> vlan]
    BY DEF TableDone
  <2> HIDE DEF done, fields, cmd
  <2>6. CASE 14 \in cmd
    <3> DEFINE w == [e \in DOMAIN vlan |->
                       IF e \in Entry(cmd, vlan) THEN fields ELSE vlan[e]]
    <3>1. w \in [DOMAIN Factory -> [Fields -> Values]]
      BY <1>0, <2>4
    <3>2. TableDone(mem, vlan) = [mem |-> done, vlan |-> w]
      BY <2>5, <2>6
    <3> HIDE DEF w
    <3> QED
      BY <1>1, <2>1, <2>3, <3>1, <3>2 DEF VlanEngine
  <2>7. CASE 14 \notin cmd /\ Entry(cmd, vlan) # {}
    <3> DEFINE e == CHOOSE x \in Entry(cmd, vlan) : TRUE
               m == [a \in DOMAIN mem |-> IF a[1] = 2 /\ a[2] \in Fields
                                         THEN vlan[e][a[2]] ELSE done[a]]
    <3>1. e \in DOMAIN vlan
      BY <2>7 DEF Entry
    <3>2. TableDone(mem, vlan) = [mem |-> m, vlan |-> vlan]
      BY <2>5, <2>7
    <3> HIDE DEF e
    <3>3. m \in [Addrs -> Values]
      BY <1>0, <2>3, <3>1
    <3> HIDE DEF m
    <3> QED
      BY <1>0, <1>1, <2>1, <3>2, <3>3 DEF VlanEngine
  <2>8. CASE 14 \notin cmd /\ Entry(cmd, vlan) = {}
    BY <1>0, <1>1, <2>1, <2>3, <2>5, <2>8 DEF VlanEngine
  <2> QED
    BY <1>1, <2>6, <2>7, <2>8 DEF VlanEngine
<1>2. CASE PhyEngine
  <2>1. PICK v \in {PhyData[a] : a \in {b \in DOMAIN PhyData :
                 PhyWord(b[1], b[2]) = mem[<<3, PhyCommand>>]}} \union {{}} :
          mem' = [mem EXCEPT ![<<3, PhyCommand>>] = @ \ {15}, ![<<3, PhyResult>>] = v]
    BY <1>2 DEF PhyEngine
  <2>2. v \in Values
    BY Assumed, Ip1810Assumption
  <2>3. <<3, PhyCommand>> \in Addrs
    BY Assumed DEF Addrs, PhyCommand
  <2>4. mem[<<3, PhyCommand>>] \ {15} \in Values
    BY <1>0, <2>3, Assumed
  <2> QED
    BY <1>0, <1>2, <2>1, <2>2, <2>4 DEF PhyEngine
<1> QED
  BY <1>1, <1>2
-----------------------------------------------------------------------------
LEMMA NoReset ==
  ASSUME Gentle, HostType, NEW t \in Threads PROVE op[t].name # "reset"
BY DEF Gentle, HostType, NoOp, InitOp

(* The steps of the driver that are not an engine's are steps of register  *)
(* access, so what holds of those holds of the driver.                     *)
LEMMA AccessStep ==
  ASSUME Gentle, HostInv, DriverNext PROVE (TypeOK /\ LockInv /\ PageInv)'
<1> USE DEF HostInv
<1>1. ASSUME [Next]_accessVars PROVE (TypeOK /\ LockInv /\ PageInv)'
  BY <1>1, TypeStep, LockInvStep, PageInvStep DEF Gentle
<1>2. ASSUME NEW t \in Threads, Host(t) PROVE [Next]_accessVars
  <2>1. CASE Issue(t)
    BY <2>1, Calls DEF Next
  <2>2. CASE Shift(t)
    BY <2>2 DEF Next, Shift
  <2>3. CASE Complete(t)
    BY <2>3 DEF Next, Complete
  <2>4. CASE Finish(t)
    BY <2>4 DEF Finish
  <2> QED
    BY <1>2, <2>1, <2>2, <2>3, <2>4 DEF Host
<1>3. ASSUME NEW t \in Users, Begin(t) PROVE [Next]_accessVars
  BY <1>3 DEF Begin
<1>4. ASSUME NEW t \in Users, PullReset(t) \/ ReleaseReset(t) PROVE FALSE
  BY <1>4, NoReset DEF PullReset, ReleaseReset, Users
<1>5. ASSUME VlanEngine \/ PhyEngine PROVE (TypeOK /\ LockInv /\ PageInv)'
  <2>1. /\ mem' \in [Addrs -> Values]
        /\ UNCHANGED <<lock, mdcOut, page, io, bus, clash, stale>>
    BY <1>5, Engines
  <2>2. TypeOK' /\ LockInv' /\ PageInv'
    BY <2>1 DEF TypeOK, LockInv, Inside, Shifting, PageInv, RightPage, At
  <2> QED
    BY <2>2
<1> QED
  BY <1>1, <1>2, <1>3, <1>4, <1>5 DEF DriverNext

(* What the steps of one thread do to its call and to those of the others. *)
LEMMA IssueEffect ==
  ASSUME Gentle, HostInv, NEW t \in Threads, Issue(t)
  PROVE  /\ io[t] = NoAccess /\ Running(t) /\ Left(t) /\ Current(t) \in Instructions
         /\ io'[t].at = "lock" /\ io'[t].op = Kind(Current(t).do)
         /\ io'[t].page = Current(t).page /\ io'[t].reg = Current(t).reg
         /\ Current(t).do = "store" => io'[t].val = Current(t).val
         /\ Current(t).do = "or" =>
              /\ io'[t].val = local'[t].data
              /\ local'[t].data = local[t].data \union Current(t).val
         /\ \A u \in Threads : u # t => io'[u] = io[u] /\ local'[u] = local[u]
         /\ local' \in [Threads -> [data: Values, tmp: Values]]
         /\ UNCHANGED <<lock, mdcOut, page, mem, bus, clash, stale, op, pc, result, used, vlan>>
<1> DEFINE i == Current(t)
           v == IF i.do = "or" THEN local[t].data \union i.val ELSE i.val
           p == IF Kind(i.do) = "page" THEN "page" ELSE "lock"
<1>1. i \in Instructions
  BY CurrentType DEF HostInv, Issue
<1>2. /\ Call(t, Kind(i.do), i.page, i.reg, v)
      /\ local' = IF i.do = "or" THEN [local EXCEPT ![t].data = v] ELSE local
      /\ Running(t) /\ Left(t)
      /\ UNCHANGED <<op, pc, result, used, vlan>>
  BY DEF Issue
<1>3. local \in [Threads -> [data: Values, tmp: Values]] /\ io \in [Threads -> Accesses \union {NoAccess}]
  BY DEF HostInv, HostType, TypeOK
<1> HIDE DEF i
<1>4. Kind(i.do) # "page" /\ p = "lock" /\ v \in Values
  BY <1>1, <1>3, Assumed DEF Kind, Instructions
<1>5. v = IF i.do = "or" THEN local[t].data \union i.val ELSE i.val
  OBVIOUS
<1> HIDE DEF v
<1>6. io[t] = NoAccess
  BY <1>2, <1>3 DEF Call, At, Accesses, Phases
<1>7. io' = [io EXCEPT ![t] = [at |-> "lock", op |-> Kind(i.do), page |-> i.page,
                             reg |-> i.reg, val |-> v]]
  BY <1>2, <1>4 DEF Call
<1>8. /\ io'[t].at = "lock" /\ io'[t].op = Kind(i.do)
      /\ io'[t].page = i.page /\ io'[t].reg = i.reg /\ io'[t].val = v
      /\ \A u \in Threads : u # t => io'[u] = io[u]
  BY <1>3, <1>7
<1>9. /\ local' \in [Threads -> [data: Values, tmp: Values]]
      /\ \A u \in Threads : u # t => local'[u] = local[u]
      /\ i.do = "or" => local'[t].data = v
  BY <1>2, <1>3, <1>4
<1>10. UNCHANGED <<lock, mdcOut, page, mem, bus, clash, stale, op, pc, result, used, vlan>>
  BY <1>2 DEF Call
<1>11. /\ i.do = "store" => io'[t].val = i.val
       /\ i.do = "or" => io'[t].val = local'[t].data
       /\ i.do = "or" => local'[t].data = local[t].data \union i.val
  BY <1>5, <1>8, <1>9
<1> QED
  BY <1>1, <1>2, <1>6, <1>8, <1>9, <1>10, <1>11 DEF i

LEMMA MovesEffect ==
  ASSUME HostInv, NEW t \in Threads, NEW ph, Moves(t, ph)
  PROVE  /\ io[t] # NoAccess /\ io'[t] # NoAccess /\ io'[t].at = ph
         /\ io'[t].op = io[t].op /\ io'[t].page = io[t].page
         /\ io'[t].reg = io[t].reg /\ io'[t].val = io[t].val
         /\ \A u \in Threads : u # t => io'[u] = io[u]
<1>1. io[t].at \in Phases /\ Goto(t, ph) /\ ph \in Phases
  BY DEF Moves, Phases
<1>2. /\ io'[t].at = ph
      /\ io'[t].op = io[t].op /\ io'[t].page = io[t].page
      /\ io'[t].reg = io[t].reg /\ io'[t].val = io[t].val
      /\ \A u \in Threads : u # t => io'[u] = io[u]
  BY <1>1, GotoEffect DEF HostInv
<1>3. NoAccess.at \notin Phases
  BY DEF NoAccess, Phases
<1> QED
  BY <1>1, <1>2, <1>3

LEMMA WriteEndsEffect ==
  ASSUME HostInv, NEW t \in Threads, WriteEnds(t)
  PROVE  /\ io[t] # NoAccess /\ io'[t] # NoAccess /\ io'[t].at = "unlock"
         /\ io'[t].op = io[t].op /\ io'[t].page = io[t].page
         /\ io'[t].reg = io[t].reg /\ io'[t].val = io[t].val
         /\ \A u \in Threads : u # t => io'[u] = io[u]
<1>1. io[t].at \in Phases /\ Goto(t, "unlock")
  BY DEF WriteEnds, Phases
<1>2. /\ io'[t].at = "unlock"
      /\ io'[t].op = io[t].op /\ io'[t].page = io[t].page
      /\ io'[t].reg = io[t].reg /\ io'[t].val = io[t].val
      /\ \A u \in Threads : u # t => io'[u] = io[u]
  BY <1>1, GotoEffect DEF HostInv
<1>3. NoAccess.at \notin Phases /\ "unlock" \in Phases
  BY DEF NoAccess, Phases
<1> QED
  BY <1>1, <1>2, <1>3

LEMMA ReadEndsEffect ==
  ASSUME HostInv, NEW t \in Threads, ReadEnds(t)
  PROVE  /\ io[t] # NoAccess /\ io'[t] # NoAccess /\ io'[t].at = "unlock"
         /\ io'[t].op = io[t].op /\ io'[t].page = io[t].page
         /\ io'[t].reg = io[t].reg
         /\ io'[t].val = mem[<<io[t].page, io[t].reg>>]
         /\ \A u \in Threads : u # t => io'[u] = io[u]
<1>1. io[t] \in Accesses
  BY NotIdle DEF HostInv, ReadEnds, Phases
<1> DEFINE v == mem[<<io[t].page, io[t].reg>>]
<1>2. io' = [io EXCEPT ![t].at = "unlock", ![t].val = v]
  BY DEF ReadEnds
<1> HIDE DEF v
<1>3. io'[t] = [[io[t] EXCEPT !.at = "unlock"] EXCEPT !.val = v]
      /\ \A u \in Threads : u # t => io'[u] = io[u]
  BY <1>2 DEF HostInv, TypeOK
<1>4. /\ io'[t].at = "unlock"
      /\ io'[t].op = io[t].op /\ io'[t].page = io[t].page
      /\ io'[t].reg = io[t].reg /\ io'[t].val = v
  BY <1>1, <1>3 DEF Accesses
<1>5. NoAccess.at \notin Phases /\ "unlock" \in Phases /\ io[t].at \in Phases
  BY DEF NoAccess, Phases, ReadEnds
<1> QED
  BY <1>3, <1>4, <1>5 DEF v
LEMMA CompleteEffect ==
  ASSUME Gentle, HostInv, NEW t \in Threads, Complete(t)
  PROVE  /\ io[t] # NoAccess /\ io[t].at = "done" /\ Running(t) /\ Left(t) /\ Asked(t)
         /\ Current(t) \in Instructions
         /\ io'[t] = NoAccess
         /\ pc'[t] = IF Current(t).do = "whileBusy" /\ 15 \in io[t].val
                     THEN pc[t] ELSE pc[t] + 1
         /\ local'[t].data = IF Current(t).do = "data" THEN io[t].val ELSE local[t].data
         /\ \A u \in Threads : u # t => /\ io'[u] = io[u] /\ pc'[u] = pc[u]
                                      /\ local'[u] = local[u]
         /\ pc' \in [Threads -> Nat \ {0}]
         /\ local' \in [Threads -> [data: Values, tmp: Values]]
         /\ UNCHANGED <<mdcOut, mem, op, result, used, vlan>>
<1> DEFINE i == Current(t)
<1>1. /\ io[t].at = "done" /\ io' = [io EXCEPT ![t] = NoAccess]
      /\ UNCHANGED <<mdcOut, mem, op, result, used, vlan>>
  BY DEF Complete, Return, At
<1>2. io[t] # NoAccess /\ io[t] \in Accesses
  BY <1>1, NotIdle DEF HostInv, NoAccess, Phases
<1>3. Running(t) /\ Left(t) /\ Asked(t)
  BY <1>2 DEF HostInv, Match, Matched
<1>4. i \in Instructions
  BY <1>3, CurrentType DEF HostInv
<1>5. /\ local' = IF Kind(i.do) # "read" THEN local
                  ELSE IF i.do = "data" THEN [local EXCEPT ![t].data = io[t].val]
                  ELSE [local EXCEPT ![t].tmp = io[t].val]
      /\ pc' = [pc EXCEPT ![t] = @ + 1 - Back(i.do, io[t].val)]
  BY DEF Complete
<1> HIDE DEF i
<1>6. io[t].val \in Values /\ i.do \in {"data", "tmp", "store", "or", "whileBusy"}
  BY <1>2, <1>4 DEF Accesses, Instructions
<1>7. Back(i.do, io[t].val) = IF i.do = "whileBusy" /\ 15 \in io[t].val THEN 1 ELSE 0
  BY <1>6 DEF Back
<1>8. pc \in [Threads -> Nat \ {0}] /\ local \in [Threads -> [data: Values, tmp: Values]]
      /\ io \in [Threads -> Accesses \union {NoAccess}]
  BY DEF HostInv, HostType, TypeOK
<1>9. /\ io'[t] = NoAccess
      /\ \A u \in Threads : u # t => io'[u] = io[u]
  BY <1>1, <1>8
<1>10. /\ pc'[t] = IF i.do = "whileBusy" /\ 15 \in io[t].val THEN pc[t] ELSE pc[t] + 1
       /\ \A u \in Threads : u # t => pc'[u] = pc[u]
       /\ pc' \in [Threads -> Nat \ {0}]
  BY <1>5, <1>7, <1>8
<1>11. /\ local'[t].data = IF i.do = "data" THEN io[t].val ELSE local[t].data
       /\ \A u \in Threads : u # t => local'[u] = local[u]
       /\ local' \in [Threads -> [data: Values, tmp: Values]]
  BY <1>5, <1>6, <1>8 DEF Kind
<1> QED
  BY <1>1, <1>2, <1>3, <1>4, <1>9, <1>10, <1>11 DEF i

(* A thread that is not touched keeps what is asked of it. *)
LEMMA Untouched ==
  ASSUME NEW u \in Threads, op'[u] = op[u], pc'[u] = pc[u], io'[u] = io[u],
         local'[u] = local[u]
  PROVE  /\ Running(u)' = Running(u) /\ Left(u)' = Left(u) /\ Current(u)' = Current(u)
         /\ Matched(u) => Matched(u)'
         /\ DrivenBy(u) /\ (mdcOut => mdcOut') => DrivenBy(u)'
         /\ Done(u)' = Done(u)
<1>1. Running(u)' = Running(u) /\ Left(u)' = Left(u) /\ Current(u)' = Current(u)
  BY DEF Running, Left, Current
<1> QED
  BY <1>1 DEF Matched, Asked, DrivenBy, ReadsFirst, Done

LEMMA HostStep ==
  ASSUME Gentle, HostInv, [DriverNext]_vars PROVE HostInv'
<1>0. ASSUME DriverNext PROVE (TypeOK /\ LockInv /\ PageInv)'
  BY <1>0, AccessStep
<1>1. ASSUME DriverNext PROVE (HostType /\ Match /\ Driven)'
  <2> USE DEF HostInv
  <2> SUFFICES ASSUME DriverNext PROVE HostType' /\ \A u \in Threads : Matched(u)' /\ DrivenBy(u)'
    BY <1>1 DEF Match, Driven
  <2>0. \A u \in Threads : Matched(u) /\ DrivenBy(u)
    BY DEF Match, Driven
  <2>1. ASSUME NEW t \in Users, Begin(t)
        PROVE  HostType' /\ \A u \in Threads : Matched(u)' /\ DrivenBy(u)'
    <3>1. t \in Threads /\ t # Loader /\ op[t] = NoOp
      BY <2>1 DEF Users, Begin
    <3>2. PICK o \in UserOps : op' = [op EXCEPT ![t] = o]
      BY <2>1 DEF Begin
    <3>3. o # InitOp /\ {} \in Values
      BY Assumed DEF Gentle, InitOp
    <3>4. /\ pc' = [pc EXCEPT ![t] = 1]
          /\ local' = [local EXCEPT ![t] = [data |-> {}, tmp |-> {}]]
          /\ UNCHANGED <<accessVars, vlan>>
      BY <2>1 DEF Begin
    <3>5. HostType'
      BY <3>1, <3>2, <3>3, <3>4 DEF HostType, Users
    <3>6. io[t] = NoAccess
      BY <2>0, <3>1 DEF Matched, Running
    <3>7. \A u \in Threads : u # t => Matched(u)' /\ DrivenBy(u)'
      BY <2>0, <3>1, <3>2, <3>4, Untouched DEF HostType, accessVars
    <3>8. Matched(t)' /\ DrivenBy(t)'
      BY <3>1, <3>4, <3>6 DEF Matched, DrivenBy, NoAccess, accessVars, HostType
    <3> QED
      BY <3>5, <3>7, <3>8
  <2>2. ASSUME NEW t \in Threads, Issue(t)
        PROVE  HostType' /\ \A u \in Threads : Matched(u)' /\ DrivenBy(u)'
    <3>1. HostType'
      BY <2>2, IssueEffect DEF HostType, Users
    <3>2. \A u \in Threads : u # t => Matched(u)' /\ DrivenBy(u)'
      BY <2>0, <2>2, IssueEffect, Untouched
    <3>3. Current(t)' = Current(t) /\ Running(t)' = Running(t) /\ Left(t)' = Left(t)
      BY <2>2, IssueEffect DEF Current, Running, Left
    <3>4. Matched(t)'
      BY <2>2, <3>3, IssueEffect DEF Matched, Asked
    <3>5. DrivenBy(t)'
      BY <2>0, <2>2, IssueEffect DEF DrivenBy, ReadsFirst
    <3> QED
      BY <3>1, <3>2, <3>4, <3>5
  <2>3. ASSUME NEW t \in Threads, Shift(t)
        PROVE  HostType' /\ \A u \in Threads : Matched(u)' /\ DrivenBy(u)'
    <3>1. UNCHANGED <<op, pc, local, vlan>>
      BY <2>3 DEF Shift, hostVars
    <3>2. HostType'
      BY <3>1 DEF HostType
    <3>3. /\ io[t] # NoAccess /\ io'[t].op = io[t].op
          /\ io'[t].page = io[t].page /\ io'[t].reg = io[t].reg
          /\ io[t].op = "write" => io'[t].val = io[t].val
          /\ \A u \in Threads : u # t => io'[u] = io[u]
      BY <2>3, ShiftCases, MovesEffect, WriteEndsEffect, ReadEndsEffect DEF ReadEnds
    <3>4. mdcOut => mdcOut'
      BY <2>3, ShiftCases DEF Moves, WriteEnds, ReadEnds
    <3>5. \A u \in Threads : u # t => Matched(u)' /\ DrivenBy(u)'
      BY <2>0, <3>1, <3>3, <3>4, Untouched
    <3>6. Current(t)' = Current(t) /\ Running(t)' = Running(t) /\ Left(t)' = Left(t)
      BY <3>1 DEF Current, Running, Left
    <3>7. Matched(t)'
      BY <2>0, <3>1, <3>3, <3>6 DEF Matched, Asked, Kind
    <3>8. DrivenBy(t)'
      <4>1. ReadsFirst(t)' /\ pc'[t] > 1 => mdcOut'
        BY <2>0, <3>1, <3>4 DEF DrivenBy, ReadsFirst
      <4>2. io'[t].at \in {"pageBits", "access", "accessBits", "unlock", "done"}
              /\ io'[t].op = "read" => mdcOut'
        <5>1. ASSUME NEW ph, Moves(t, ph), ph # "page", io[t].op = "read" PROVE mdcOut'
          BY <2>0, <5>1 DEF Moves, DrivenBy
        <5>2. ASSUME NEW ph, Moves(t, ph) PROVE io'[t].at = ph
          BY <5>2, MovesEffect
        <5>3. ReadEnds(t) => mdcOut'
          BY DEF ReadEnds
        <5>4. WriteEnds(t) => io'[t].op = "write"
          BY <3>3 DEF WriteEnds
        <5> QED
          BY <2>3, <3>3, <5>1, <5>2, <5>3, <5>4, ShiftCases
      <4> QED
        BY <4>1, <4>2 DEF DrivenBy
    <3> QED
      BY <3>2, <3>5, <3>7, <3>8
  <2>4. ASSUME NEW t \in Threads, Complete(t)
        PROVE  HostType' /\ \A u \in Threads : Matched(u)' /\ DrivenBy(u)'
    <3>1. HostType'
      BY <2>4, CompleteEffect DEF HostType
    <3>2. \A u \in Threads : u # t => Matched(u)' /\ DrivenBy(u)'
      BY <2>0, <2>4, CompleteEffect, Untouched
    <3>3. Matched(t)'
      BY <2>4, CompleteEffect DEF Matched
    <3>4. DrivenBy(t)'
      <4>1. io'[t].at = "idle" /\ mdcOut' = mdcOut /\ op' = op
        BY <2>4, CompleteEffect DEF NoAccess
      <4>2. ASSUME ReadsFirst(t) PROVE mdcOut
        <5>0. Running(t) /\ Asked(t)
          BY <2>4, CompleteEffect
        <5>1. pc[t] > 1 \/ pc[t] = 1
          <6>1. pc[t] \in Nat \ {0}
            BY DEF HostType
          <6> QED
            BY <6>1
        <5>2. CASE pc[t] = 1
          <6>0. Script(op[t]) = DemoInit \/ Script(op[t]) = Count(op[t].cmd)
            BY <4>2, <5>0, Executes DEF ReadsFirst
          <6>1. Current(t) = Rd(2, 6) \/ Current(t) = Rd(0, 1)
            <7>1. \A c : Count(c)[1] = Rd(0, 1)
              BY DEF Count
            <7> QED
              BY <5>2, <6>0, <7>1, DemoInitAt DEF Current
          <6>2. io[t].op = "read" /\ io[t].at = "done"
            BY <2>4, <5>0, <6>1, CompleteEffect DEF Asked, Kind, Rd, Instruction
          <6> QED
            BY <2>0, <6>2 DEF DrivenBy
        <5> QED
          BY <2>0, <4>2, <5>1, <5>2 DEF DrivenBy
      <4> QED
        BY <4>1, <4>2 DEF DrivenBy, ReadsFirst
    <3> QED
      BY <3>1, <3>2, <3>3, <3>4
  <2>5. ASSUME NEW t \in Threads, Finish(t)
        PROVE  HostType' /\ \A u \in Threads : Matched(u)' /\ DrivenBy(u)'
    <3>1. /\ op' = [op EXCEPT ![t] = NoOp] /\ ~Left(t)
          /\ UNCHANGED <<accessVars, pc, local, vlan>>
      BY <2>5 DEF Finish
    <3>2. HostType'
      BY <3>1 DEF HostType, Users, NoOp, InitOp
    <3>3. \A u \in Threads : u # t => Matched(u)' /\ DrivenBy(u)'
      BY <2>0, <3>1, Untouched DEF HostType, accessVars
    <3>4. Matched(t)'
      BY <2>0, <3>1 DEF Matched, accessVars
    <3>5. DrivenBy(t)'
      BY <2>0, <3>1 DEF DrivenBy, ReadsFirst, accessVars, NoOp, HostType
    <3> QED
      BY <3>2, <3>3, <3>4, <3>5
  <2>6. ASSUME NEW t \in Users, PullReset(t) \/ ReleaseReset(t) PROVE FALSE
    BY <2>6, NoReset DEF PullReset, ReleaseReset, Users
  <2>7. ASSUME VlanEngine \/ PhyEngine
        PROVE  HostType' /\ \A u \in Threads : Matched(u)' /\ DrivenBy(u)'
    <3>1. /\ vlan' \in [DOMAIN Factory -> [Fields -> Values]]
          /\ UNCHANGED <<mdcOut, io, op, pc, local>>
      BY <2>7, Engines DEF hostVars
    <3>2. HostType'
      BY <3>1 DEF HostType
    <3> QED
      BY <2>0, <3>1, <3>2, Untouched
  <2> QED
    BY <2>1, <2>2, <2>3, <2>4, <2>5, <2>6, <2>7 DEF DriverNext, Host
<1>2. CASE UNCHANGED vars
  <2>1. UNCHANGED <<accessVars, op, pc, local, vlan>>
    BY <1>2 DEF vars, hostVars
  <2>2. TypeOK' /\ LockInv' /\ PageInv' /\ HostType'
    BY <2>1 DEF HostInv, accessVars, TypeOK, LockInv, Inside, Shifting, PageInv,
                RightPage, At, HostType
  <2>3. \A u \in Threads : Matched(u)' /\ DrivenBy(u)'
    BY <2>1, Untouched DEF HostInv, Match, Driven, accessVars
  <2> QED
    BY <2>2, <2>3 DEF HostInv, Match, Driven
<1> QED
  BY <1>0, <1>1, <1>2 DEF HostInv

-----------------------------------------------------------------------------
(* How far a thread is before and after each of its steps. *)
LEMMA DoneBy ==
  ASSUME Gentle, HostInv, NEW t \in Threads
  PROVE  /\ pc[t] \in Nat \ {0}
         /\ io[t] = NoAccess => Done(t) = pc[t] - 1
         /\ Issue(t) => Done(t) = pc[t] - 1 /\ Done(t)' = Done(t)
         /\ \A ph : Moves(t, ph) => Done(t)' = Done(t)
         /\ ReadEnds(t) => Done(t) = pc[t] - 1 /\ Done(t)' = Done(t)
         /\ WriteEnds(t) => Done(t) = pc[t] - 1 /\ Done(t)' = pc[t]
         /\ Complete(t) =>
              IF io[t].op = "write" THEN Done(t) = pc[t] /\ Done(t)' = pc[t]
              ELSE Done(t) = pc[t] - 1 /\ Done(t)' = pc'[t] - 1
<1>1. pc[t] \in Nat \ {0}
  BY DEF HostInv, HostType
<1>2. io[t] = NoAccess => Done(t) = pc[t] - 1
  BY DEF NoAccess, Done
<1>3. Issue(t) => Done(t) = pc[t] - 1 /\ Done(t)' = Done(t)
  BY <1>2, IssueEffect DEF Done
<1>4. ASSUME NEW ph, Moves(t, ph) PROVE Done(t)' = Done(t)
  <2>1. io'[t].at = ph /\ io'[t].op = io[t].op
    BY <1>4, MovesEffect
  <2>2. pc' = pc /\ (io[t].at \in {"unlock", "done"} <=> ph \in {"unlock", "done"})
    BY <1>4 DEF Moves, hostVars
  <2> QED
    BY <2>1, <2>2 DEF Done
<1>5. ReadEnds(t) => Done(t) = pc[t] - 1 /\ Done(t)' = Done(t)
  BY ReadEndsEffect DEF ReadEnds, Done, hostVars
<1>6. WriteEnds(t) => Done(t) = pc[t] - 1 /\ Done(t)' = pc[t]
  BY WriteEndsEffect DEF WriteEnds, Done, hostVars
<1>7. ASSUME Complete(t)
      PROVE  IF io[t].op = "write" THEN Done(t) = pc[t] /\ Done(t)' = pc[t]
             ELSE Done(t) = pc[t] - 1 /\ Done(t)' = pc'[t] - 1
  <2>1. /\ io[t].at = "done" /\ io'[t] = NoAccess /\ Asked(t)
        /\ pc'[t] = IF Current(t).do = "whileBusy" /\ 15 \in io[t].val
                    THEN pc[t] ELSE pc[t] + 1
    BY <1>7, CompleteEffect
  <2>2. Done(t)' = pc'[t] - 1
    BY <2>1 DEF Done, NoAccess
  <2>3. io[t].op = "write" => pc'[t] = pc[t] + 1
    BY <2>1 DEF Asked, Kind
  <2>4. Done(t) = IF io[t].op = "write" THEN pc[t] ELSE pc[t] - 1
    BY <2>1 DEF Done
  <2> QED
    BY <1>1, <2>2, <2>3, <2>4
<1> QED
  BY <1>1, <1>2, <1>3, <1>4, <1>5, <1>6, <1>7

(* What a write that ends has stored, and where. *)
LEMMA WritesWhat ==
  ASSUME Gentle, HostInv, NEW t \in Threads, WriteEnds(t)
  PROVE  \/ t = Loader /\ io[t].page = 2
         \/ /\ t # Loader /\ op[t] \in UserOps /\ op[t].name = "write"
            /\ io[t].page = op[t].page /\ io[t].reg = op[t].reg
         \/ /\ t # Loader /\ op[t].name = "count" /\ pc[t] \in {2, 3}
            /\ io[t].page = 0 /\ io[t].reg = 1
         \/ /\ t # Loader /\ op[t].name = "count" /\ pc[t] = 4
            /\ io[t].page = 0 /\ io[t].reg = 100 /\ io[t].val = op[t].cmd
<1>1. Running(t) /\ Left(t) /\ Asked(t) /\ io[t].op = "write"
  BY WriteEndsEffect DEF HostInv, Match, Matched, WriteEnds
<1>2. Kind(Current(t).do) = "write"
  BY <1>1 DEF Asked
<1>3. io[t].page = Current(t).page /\ io[t].reg = Current(t).reg
      /\ (Current(t).do = "store" => io[t].val = Current(t).val)
  BY <1>1 DEF Asked
<1>4. CASE t = Loader /\ Script(op[t]) = DemoInit
  <2>1. Current(t).page = 2
    BY <1>1, <1>4, DemoInitType DEF Current, Left
  <2> QED
    BY <1>3, <1>4, <2>1
<1>5. CASE Script(op[t]) = <<Rd(op[t].page, op[t].reg)>>
  BY <1>1, <1>2, <1>5 DEF Current, Left, Rd, Instruction, Kind
<1>6. CASE /\ t # Loader /\ op[t] \in UserOps /\ op[t].name = "write"
           /\ Script(op[t]) = <<Wr(op[t].page, op[t].reg, op[t].val),
                                Rd(op[t].page, op[t].reg)>>
  <2>1. Current(t) \in {Wr(op[t].page, op[t].reg, op[t].val), Rd(op[t].page, op[t].reg)}
    BY <1>1, <1>6 DEF Current, Left
  <2>2. Current(t).page = op[t].page /\ Current(t).reg = op[t].reg
    BY <2>1 DEF Wr, Rd, Instruction
  <2> QED
    BY <1>3, <1>6, <2>2
<1>7. CASE t # Loader /\ op[t].name = "count" /\ Script(op[t]) = Count(op[t].cmd)
  <2>1. pc[t] \in {1, 2, 3, 4, 5, 6}
    BY <1>1, <1>7 DEF Left, Count
  <2>2. /\ Count(op[t].cmd)[1] = Rd(0, 1) /\ Count(op[t].cmd)[2] = WrOr(0, 1, {9})
        /\ Count(op[t].cmd)[3] = WrOr(0, 1, {9}) /\ Count(op[t].cmd)[4] = Wr(0, 100, op[t].cmd)
        /\ Count(op[t].cmd)[5] = Rd(0, 101) /\ Count(op[t].cmd)[6] = RdTmp(0, 102)
    BY DEF Count
  <2>3. pc[t] \notin {1, 5, 6}
    BY <1>2, <1>7, <2>2 DEF Current, Rd, RdTmp, Instruction, Kind
  <2>4. CASE pc[t] \in {2, 3}
    <3>1. Current(t) = WrOr(0, 1, {9})
      BY <1>7, <2>2, <2>4 DEF Current
    <3> QED
      BY <1>3, <1>7, <2>4, <3>1 DEF WrOr, Instruction
  <2>5. CASE pc[t] = 4
    <3>1. Current(t) = Wr(0, 100, op[t].cmd)
      BY <1>7, <2>2, <2>5 DEF Current
    <3> QED
      BY <1>3, <1>7, <2>5, <3>1 DEF Wr, Instruction
  <2> QED
    BY <2>1, <2>3, <2>4, <2>5
<1> QED
  BY <1>1, <1>4, <1>5, <1>6, <1>7, Executes DEF HostInv
-----------------------------------------------------------------------------
(* The chip's engines write to pages 2 and 3 only. *)
LEMMA EnginePages ==
  ASSUME HostInv, NEW p \in Pages, NEW r \in Regs
  PROVE  /\ PhyEngine /\ p # 3 => mem'[<<p, r>>] = mem[<<p, r>>]
         /\ VlanEngine /\ p # 2 => mem'[<<p, r>>] = mem[<<p, r>>]
<1>0. mem \in [Addrs -> Values] /\ <<p, r>> \in Addrs
  BY DEF HostInv, TypeOK, Addrs
<1>1. ASSUME PhyEngine, p # 3 PROVE mem'[<<p, r>>] = mem[<<p, r>>]
  <2>1. \E v : mem' = [mem EXCEPT ![<<3, PhyCommand>>] = @ \ {15}, ![<<3, PhyResult>>] = v]
    BY <1>1 DEF PhyEngine
  <2>2. <<p, r>> # <<3, PhyCommand>> /\ <<p, r>> # <<3, PhyResult>>
    BY <1>1
  <2> QED
    BY <1>0, <2>1, <2>2
<1>2. ASSUME VlanEngine, p # 2 PROVE mem'[<<p, r>>] = mem[<<p, r>>]
  <2> DEFINE cmd == mem[<<2, TableCommand>>]
             done == [mem EXCEPT ![<<2, TableCommand>>] = cmd \ {15}]
  <2>1. done[<<p, r>>] = mem[<<p, r>>] /\ DOMAIN mem = Addrs
    BY <1>0, <1>2
  <2>2. mem' = TableDone(mem, vlan).mem
    BY <1>2 DEF VlanEngine
  <2>3. \/ TableDone(mem, vlan).mem = done
        \/ \E e : TableDone(mem, vlan).mem =
             [a \in DOMAIN mem |-> IF a[1] = 2 /\ a[2] \in Fields
                                   THEN vlan[e][a[2]] ELSE done[a]]
    BY DEF TableDone
  <2> HIDE DEF done
  <2>4. <<p, r>>[1] # 2
    BY <1>2
  <2> QED
    BY <1>0, <2>1, <2>2, <2>3, <2>4
<1> QED
  BY <1>1, <1>2

(* What one step may do to a count that has selected its counter. *)
CountKept(u) ==
  Selected(u)' =>
    \/ mem'[<<0, 100>>] = op'[u].cmd
    \/ Selected(u) /\ mem[<<0, 100>>] # op[u].cmd
    \/ \E t \in Users \ {u} : ~Selected(t) /\ Selected(t)'

(* Register 0x64 of page 0 is written by the fourth access of a count, and *)
(* by nothing else.                                                        *)
LEMMA CountStep ==
  ASSUME Gentle, CommandLeftAlone, HostInv, [DriverNext]_vars, NEW u \in Users
  PROVE  CountKept(u)
<1> SUFFICES ASSUME op'[u].name = "count", Done(u)' >= 4
             PROVE  CountKept(u)
  BY DEF CountKept, Selected
<1>0. /\ u \in Threads /\ 0 \in Pages /\ 100 \in Regs
      /\ mem \in [Addrs -> Values]
  BY Assumed DEF Users, HostInv, TypeOK
<1>1. ASSUME op'[u] = op[u], Done(u) >= 4, mem'[<<0, 100>>] = mem[<<0, 100>>]
      PROVE  CountKept(u)
  BY <1>0, <1>1 DEF CountKept, Selected
<1>2. ASSUME NEW t \in Users, Begin(t) PROVE CountKept(u)
  <2>1. mem' = mem /\ t \in Threads /\ io' = io
    BY <1>2 DEF Begin, accessVars, Users
  <2>2. CASE u # t
    <3>1. op'[u] = op[u] /\ pc'[u] = pc[u] /\ local'[u] = local[u] /\ io'[u] = io[u]
      BY <1>0, <1>2, <2>1, <2>2 DEF Begin, HostInv, HostType
    <3> QED
      BY <1>0, <1>1, <2>1, <3>1, Untouched
  <2>3. CASE u = t
    <3>1. io[u] = NoAccess
      BY <1>0, <1>2, <2>3 DEF Begin, HostInv, Match, Matched, Running
    <3>2. pc'[u] = 1
      BY <1>0, <1>2, <2>3 DEF Begin, HostInv, HostType
    <3> QED
      BY <2>1, <3>1, <3>2 DEF Done, NoAccess
  <2> QED
    BY <2>2, <2>3
<1>3. ASSUME NEW t \in Threads, Issue(t) PROVE CountKept(u)
  <2>1. mem' = mem /\ op' = op /\ pc' = pc
    BY <1>3, IssueEffect
  <2>2. Done(u)' = Done(u)
    BY <1>0, <1>3, <2>1, IssueEffect, DoneBy, Untouched
  <2> QED
    BY <1>1, <2>1, <2>2
<1>4. ASSUME NEW t \in Threads, Shift(t) PROVE CountKept(u)
  <2>0. op' = op /\ pc' = pc /\ local' = local
    BY <1>4 DEF Shift, hostVars
  <2>1. CASE \E ph : Moves(t, ph)
    <3>1. mem' = mem /\ Done(u)' = Done(u)
      BY <1>0, <2>0, <2>1, MovesEffect, DoneBy, Untouched DEF Moves
    <3> QED
      BY <1>1, <2>0, <3>1
  <2>2. CASE ReadEnds(t)
    <3>1. u # t => Done(u)' = Done(u)
      BY <1>0, <2>0, <2>2, ReadEndsEffect, Untouched
    <3>2. Done(t)' = Done(t) /\ mem' = mem
      BY <2>2, DoneBy DEF ReadEnds
    <3> QED
      BY <1>1, <2>0, <3>1, <3>2
  <2>3. CASE WriteEnds(t)
    <3>1. mem' = IF mdcOut THEN [mem EXCEPT ![<<io[t].page, io[t].reg>>] = io[t].val] ELSE mem
      BY <2>3 DEF WriteEnds
    <3>2. u # t => Done(u)' = Done(u)
      BY <1>0, <2>0, <2>3, WriteEndsEffect, Untouched
    <3>3. Done(t)' = pc[t] /\ Done(t) = pc[t] - 1 /\ pc[t] \in Nat
      BY <2>3, DoneBy
    <3>4. CASE op[t].name = "count" /\ pc[t] = 4 /\ t # Loader
               /\ io[t].page = 0 /\ io[t].reg = 100 /\ io[t].val = op[t].cmd
      <4>1. mdcOut
        BY <3>4 DEF HostInv, Driven, DrivenBy, ReadsFirst
      <4>2. mem'[<<0, 100>>] = op[t].cmd
        BY <1>0, <3>1, <3>4, <4>1 DEF Addrs
      <4>3. t \in Users /\ ~Selected(t) /\ Selected(t)'
        BY <2>0, <3>3, <3>4 DEF Selected, Users
      <4> QED
        BY <2>0, <4>2, <4>3 DEF CountKept
    <3>5. CASE (io[t].page # 0 \/ io[t].reg # 100)
               /\ ~(t # Loader /\ op[t].name = "count" /\ pc[t] = 4)
      <4>1. mem'[<<0, 100>>] = mem[<<0, 100>>]
        BY <1>0, <3>1, <3>5 DEF Addrs
      <4>2. Done(u) >= 4
        BY <2>0, <3>2, <3>3, <3>5 DEF Users
      <4> QED
        BY <1>1, <2>0, <4>1, <4>2
    <3>6. \/ op[t].name = "count" /\ pc[t] = 4 /\ t # Loader
             /\ io[t].page = 0 /\ io[t].reg = 100 /\ io[t].val = op[t].cmd
          \/ /\ io[t].page # 0 \/ io[t].reg # 100
             /\ ~(t # Loader /\ op[t].name = "count" /\ pc[t] = 4)
      BY <2>3, WritesWhat DEF CommandLeftAlone
    <3> QED
      BY <3>4, <3>5, <3>6
  <2> QED
    BY <1>4, <2>1, <2>2, <2>3, ShiftCases
<1>5. ASSUME NEW t \in Threads, Complete(t) PROVE CountKept(u)
  <2>1. mem' = mem /\ op' = op
    BY <1>5, CompleteEffect
  <2>2. CASE u # t
    <3>1. Done(u)' = Done(u)
      BY <1>0, <1>5, <2>1, <2>2, CompleteEffect, Untouched
    <3> QED
      BY <1>1, <2>1, <3>1
  <2>3. CASE u = t /\ Done(t) < 4
    <3>1. /\ io[t].op # "write" /\ Done(t) = pc[t] - 1 /\ Done(t)' = pc'[t] - 1
          /\ pc[t] \in Nat \ {0} /\ pc'[t] \in {pc[t], pc[t] + 1}
      BY <1>5, <2>3, CompleteEffect, DoneBy
    <3>2. pc[t] = 4
      BY <2>3, <3>1
    <3>3. Script(op[t]) = Count(op[t].cmd) /\ Asked(t)
      BY <1>5, <2>1, <2>3, CompleteEffect, Executes DEF HostInv, Users
    <3>4. Count(op[t].cmd)[4] = Wr(0, 100, op[t].cmd)
      BY DEF Count
    <3>5. Current(t) = Wr(0, 100, op[t].cmd)
      BY <3>2, <3>3, <3>4 DEF Current
    <3> QED
      BY <3>1, <3>3, <3>5 DEF Asked, Kind, Wr, Instruction
  <2>4. u = t /\ ~(Done(t) < 4) => Done(t) >= 4
    BY <1>5, DoneBy
  <2> QED
    BY <1>1, <2>1, <2>2, <2>3, <2>4
<1>6. ASSUME NEW t \in Threads, Finish(t) PROVE CountKept(u)
  <2>1. op' = [op EXCEPT ![t] = NoOp] /\ UNCHANGED <<accessVars, pc, local>>
    BY <1>6 DEF Finish
  <2>2. u # t
    BY <1>0, <2>1 DEF HostInv, HostType, NoOp
  <2>3. op'[u] = op[u]
    BY <1>0, <2>1, <2>2 DEF HostInv, HostType
  <2>4. Done(u)' = Done(u) /\ mem' = mem
    BY <1>0, <2>1, <2>3, Untouched DEF accessVars
  <2> QED
    BY <1>1, <2>3, <2>4
<1>7. ASSUME NEW t \in Users, PullReset(t) \/ ReleaseReset(t) PROVE FALSE
  BY <1>7, NoReset DEF PullReset, ReleaseReset, Users, HostInv
<1>8. ASSUME VlanEngine \/ PhyEngine PROVE CountKept(u)
  <2>1. mem'[<<0, 100>>] = mem[<<0, 100>>]
    BY <1>0, <1>8, EnginePages
  <2>2. UNCHANGED <<io, op, pc, local>>
    BY <1>8, Engines DEF hostVars
  <2> QED
    BY <1>0, <1>1, <2>1, <2>2, Untouched
<1>9. ASSUME UNCHANGED vars PROVE CountKept(u)
  BY <1>0, <1>1, <1>9, Untouched DEF vars, hostVars, accessVars
<1> QED
  BY <1>2, <1>3, <1>4, <1>5, <1>6, <1>7, <1>8, <1>9 DEF DriverNext, Host

(* Whatever threads there are, whatever counters they count, and however   *)
(* their accesses interleave: as long as nobody sends IP2Page without the  *)
(* lock, resets the chip or writes the command register with MDIO_WRITE,   *)
(* the counter that an MDIO_COUNT of mdio.c selected is taken away from it *)
(* by no access but the select of another MDIO_COUNT.                      *)
THEOREM Counts == ASSUME Gentle, CommandLeftAlone PROVE DriverSpec => CounterSelected
<1>1. HostInv /\ [DriverNext]_vars => [\A t \in Users : Selected(t)' =>
        \/ mem'[<<0, 100>>] = op'[t].cmd
        \/ Selected(t) /\ mem[<<0, 100>>] # op[t].cmd
        \/ \E u \in Users \ {t} : ~Selected(u) /\ Selected(u)']_vars
  BY CountStep DEF CountKept
<1> QED
  BY <1>1, HostInit, HostStep, PTL DEF DriverSpec, CounterSelected
-----------------------------------------------------------------------------
(* The words of the table's commands. *)
LEMMA Words ==
  ASSUME NEW e \in DOMAIN Factory
  PROVE  /\ e \in Nat
         /\ 14 \notin Word(e) /\ 15 \notin Word(e)
         /\ 14 \notin FetchWord(e) /\ 15 \in FetchWord(e)
         /\ FetchWord(e) \ {15} = Word(e) /\ FetchWord(e) \ {14, 15} = Word(e)
         /\ 14 \in StoreWord(e) /\ 15 \in StoreWord(e)
         /\ StoreWord(e) \ {14, 15} = Word(e)
         /\ \A f \in DOMAIN Factory : Word(f) = Word(e) => f = e
<1>1. \A f \in DOMAIN Factory : f \in Nat /\ f < 16384
  <2>1. \A f \in DOMAIN Factory : f \in Nat /\ f < 2^14
    BY Ip1810Assumption
  <2> QED
    BY <2>1
<1>2. \A f \in DOMAIN Factory : Word(f) = Word(e) => f = e
  BY <1>1, WordInjective
<1> QED
  BY <1>1, <1>2, CommandWords

LEMMA EntriesNamed == 1..LastEntry \subseteq DOMAIN Factory
BY Ip1810Assumption

(* What the table engine does when the command names an entry. *)
LEMMA VlanEffect ==
  ASSUME HostInv, VlanEngine, NEW e \in DOMAIN Factory, Command \ {14, 15} = Word(e)
  PROVE  /\ Command' = Command \ {15}
         /\ \A r \in Regs : r # TableCommand /\ r \notin Fields
                              => mem'[<<2, r>>] = mem[<<2, r>>]
         /\ 14 \in Command =>
              /\ \A f \in Fields : mem'[<<2, f>>] = mem[<<2, f>>]
              /\ vlan' = [vlan EXCEPT ![e] = [f \in Fields |-> mem[<<2, f>>]]]
         /\ 14 \notin Command =>
              /\ \A f \in Fields : mem'[<<2, f>>] = vlan[e][f]
              /\ vlan' = vlan
<1>1. /\ mem \in [Addrs -> Values] /\ vlan \in [DOMAIN Factory -> [Fields -> Values]]
      /\ \A r \in Regs : <<2, r>> \in Addrs
      /\ TableCommand \in Regs /\ Fields \subseteq Regs /\ TableCommand \notin Fields
      /\ \A a \in Addrs : a = <<a[1], a[2]>>
  BY Assumed DEF HostInv, TypeOK, HostType, Addrs, TableCommand, Fields
<1>2. Names(mem, vlan, e)
  <2>1. \A f \in DOMAIN Factory : Word(f) = Word(e) => f = e
    BY Words
  <2>2. mem[<<2, TableCommand>>] \ {14, 15} = Word(e)
    BY DEF Command
  <2>3. DOMAIN mem = Addrs /\ DOMAIN vlan = DOMAIN Factory
    BY <1>1
  <2> QED
    BY <1>1, <2>1, <2>2, <2>3 DEF Names
<1>3. Carries(mem, vlan, e, TableDone(mem, vlan))
  BY <1>2, TableEffect
<1>4. mem' = TableDone(mem, vlan).mem /\ vlan' = TableDone(mem, vlan).vlan
  BY DEF VlanEngine
<1>5. Command = mem[<<2, TableCommand>>] /\ Command' = mem'[<<2, TableCommand>>]
  BY DEF Command
<1>6. \A r \in Regs : r # TableCommand /\ r \notin Fields => mem'[<<2, r>>] = mem[<<2, r>>]
  BY <1>1, <1>3, <1>4 DEF Carries
<1> QED
  BY <1>3, <1>4, <1>5, <1>6 DEF Carries, Puts, Fetches

LEMMA BaseUnique ==
  ASSUME NEW e \in 1..LastEntry, NEW f \in 1..LastEntry,
         NEW n \in 1..13, NEW m \in 1..13
  PROVE  /\ Base(e) \in Nat /\ Base(e) >= 2 + LastTag
         /\ Base(e) + n <= 2 + LastTag + 13 * LastEntry
         /\ Base(e) + n = Base(f) + m => e = f /\ n = m
         /\ e > f => Base(e) >= Base(f) + 13
<1>1. LastTag \in Nat /\ LastEntry \in Nat
  BY Assumed
<1>2. Base(e) \in Nat /\ Base(e) >= 2 + LastTag /\ Base(e) + 13 <= 2 + LastTag + 13 * LastEntry
  BY <1>1 DEF Base
<1>3. e > f => Base(e) >= Base(f) + 13
  BY <1>1 DEF Base
<1>4. f > e => Base(f) >= Base(e) + 13
  BY <1>1 DEF Base
<1>5. e = f \/ e > f \/ f > e
  OBVIOUS
<1>6. Base(f) \in Nat
  BY <1>1 DEF Base
<1> QED
  BY <1>1, <1>2, <1>3, <1>4, <1>5, <1>6
-----------------------------------------------------------------------------
(* What an instruction of demo_init has done to the registers when it has  *)
(* taken effect: a read leaves them alone, and a wait ends when it reads   *)
(* that the chip is ready.                                                 *)
TakesEffect(i) ==
  /\ vlan' = vlan
  /\ i.do = "store" => mem' = [mem EXCEPT ![<<2, i.reg>>] = i.val]
  /\ i.do = "or" => mem' = [mem EXCEPT ![<<2, i.reg>>] = @ \union i.val]
  /\ i.do \notin {"store", "or"} => mem' = mem
  /\ i.do = "whileBusy" => 15 \notin mem[<<2, i.reg>>]

LEMMA EffectAt ==
  ASSUME HostInv, NEW i, TakesEffect(i), i.reg \in Regs
  PROVE  /\ \A r \in Regs : r # i.reg => mem'[<<2, r>>] = mem[<<2, r>>]
         /\ i.do = "store" => mem'[<<2, i.reg>>] = i.val
         /\ i.do = "or" => mem'[<<2, i.reg>>] = mem[<<2, i.reg>>] \union i.val
         /\ i.do \notin {"store", "or"} => mem' = mem
<1>1. /\ mem \in [Addrs -> Values]
      /\ \A r \in Regs : <<2, r>> \in Addrs
  BY Assumed DEF HostInv, TypeOK, Addrs
<1>2. \A r \in Regs : r # i.reg => <<2, r>> # <<2, i.reg>>
  OBVIOUS
<1>3. i.do = "store" \/ i.do = "or" \/ i.do \notin {"store", "or"}
  OBVIOUS
<1>4. CASE i.do = "store"
  BY <1>1, <1>2, <1>4 DEF TakesEffect
<1>5. CASE i.do = "or"
  BY <1>1, <1>2, <1>5 DEF TakesEffect
<1>6. CASE i.do \notin {"store", "or"}
  BY <1>1, <1>2, <1>6 DEF TakesEffect
<1> QED
  BY <1>3, <1>4, <1>5, <1>6

(* The fields of an entry change with five of the 13 instructions. *)
LEMMA FieldStep ==
  ASSUME NEW e, NEW f \in Fields
  PROVE  /\ Field(e, f, 2) = Field(e, f, 1)
         /\ Field(e, f, 3) = IF f = 211 THEN Word(e) ELSE Field(e, f, 2)
         /\ Field(e, f, 4) = Field(e, f, 3)
         /\ Field(e, f, 5) = IF f = 212 THEN Field(e, f, 4) \union {1} ELSE Field(e, f, 4)
         /\ Field(e, f, 6) = Field(e, f, 5)
         /\ Field(e, f, 7) = IF f = 216 THEN Field(e, f, 6) \union {15} ELSE Field(e, f, 6)
         /\ Field(e, f, 8) = Field(e, f, 7)
         /\ Field(e, f, 9) = IF f = 212 THEN Field(e, f, 8) \union {13, 14, 15}
                             ELSE Field(e, f, 8)
         /\ Field(e, f, 10) = Field(e, f, 9)
         /\ Field(e, f, 11) = IF f = 213 THEN Field(e, f, 10) \union 0..4
                              ELSE Field(e, f, 10)
         /\ Field(e, f, 12) = Field(e, f, 11)
<1>1. f = 211 \/ f = 212 \/ f = 213 \/ f = 216
  BY DEF Fields
<1>2. CASE f = 211
  BY <1>2 DEF Field
<1>3. CASE f = 212
  BY <1>3 DEF Field
<1>4. CASE f = 213
  BY <1>4 DEF Field
<1>5. CASE f = 216
  BY <1>5 DEF Field
<1> QED
  BY <1>1, <1>2, <1>3, <1>4, <1>5

(* Before and after the chip's part: what it fetches and what it stores.   *)
LEMMA FieldEnds ==
  ASSUME NEW e \in DOMAIN Factory
  PROVE  /\ \A f \in Fields : Field(e, f, 1) = Factory[e][f]
         /\ [f \in Fields |-> Field(e, f, 12)] = Programmed(e)
<1>1. Factory[e] \in [Fields -> Values]
  BY Ip1810Assumption
<1>2. ASSUME NEW f \in Fields
      PROVE  Field(e, f, 1) = Factory[e][f] /\ Field(e, f, 12) = Programmed(e)[f]
  <2>1. f = 211 \/ f = 212 \/ f = 213 \/ f = 216
    BY DEF Fields
  <2>2. CASE f = 211
    BY <1>1, <2>2 DEF Field, Programmed, Fields
  <2>3. CASE f = 212
    BY <1>1, <2>3 DEF Field, Programmed, Fields
  <2>4. CASE f = 213
    BY <1>1, <2>4 DEF Field, Programmed, Fields
  <2>5. CASE f = 216
    BY <1>1, <2>5 DEF Field, Programmed, Fields
  <2> QED
    BY <2>1, <2>2, <2>3, <2>4, <2>5
<1>3. Programmed(e) = [f \in Fields |-> Programmed(e)[f]]
  BY <1>1 DEF Programmed
<1> QED
  BY <1>2, <1>3

(* One instruction of the 13 of an entry after another. *)
LEMMA EntryStep ==
  ASSUME HostInv, NEW e \in 1..LastEntry, NEW n \in 1..13,
         n > 1 => EntryState(e, n - 1), TakesEffect(VlanEntry(e)[n])
  PROVE  EntryState(e, n)'
<1> DEFINE i == VlanEntry(e)[n]
<1>0. /\ TableCommand \in Regs /\ Fields \subseteq Regs /\ TableCommand \notin Fields
      /\ {211, 212, 213, 216} = Fields /\ e \in DOMAIN Factory
  BY Assumed, EntriesNamed DEF TableCommand, Fields
<1>1. n \in {1, 2, 3, 4, 5, 6, 7, 8, 9, 10, 11, 12, 13}
  OBVIOUS
<1>2. ASSUME n \in {4, 6, 8, 10} PROVE EntryState(e, n)'
  <2>1. mem' = mem
    BY <1>2, EntryInstructions DEF TakesEffect, Rd, Instruction
  <2>2. Command = Word(e) /\ InFields(e, n - 1)
    BY <1>2 DEF EntryState
  <2>3. \A f \in Fields : Field(e, f, n) = Field(e, f, n - 1)
    BY <1>2, FieldStep
  <2> QED
    BY <1>2, <2>1, <2>2, <2>3 DEF EntryState, InFields, Command
<1>3. ASSUME NEW r \in Fields, NEW v, i = WrOr(2, r, v), n \in {5, 7, 9, 11},
             \A f \in Fields : Field(e, f, n) = IF f = r THEN Field(e, f, n - 1) \union v
                                               ELSE Field(e, f, n - 1)
      PROVE  EntryState(e, n)'
  <2>1. i.do = "or" /\ i.reg = r /\ i.val = v
    BY <1>3 DEF WrOr, Instruction
  <2>2. Command = Word(e) /\ InFields(e, n - 1)
    BY <1>3 DEF EntryState
  <2> HIDE DEF i
  <2>3. /\ \A x \in Regs : x # r => mem'[<<2, x>>] = mem[<<2, x>>]
        /\ mem'[<<2, r>>] = mem[<<2, r>>] \union v
    BY <1>0, <2>1, EffectAt DEF i
  <2>4. Command' = Word(e)
    BY <1>0, <2>2, <2>3 DEF Command
  <2>5. InFields(e, n)'
    <3> SUFFICES ASSUME NEW f \in Fields PROVE mem'[<<2, f>>] = Field(e, f, n)
      BY DEF InFields
    <3>1. mem[<<2, f>>] = Field(e, f, n - 1) /\ f \in Regs
      BY <1>0, <2>2 DEF InFields
    <3> QED
      BY <1>3, <2>3, <3>1
  <2> QED
    BY <1>3, <2>4, <2>5 DEF EntryState
<1>4. CASE n = 5
  BY <1>0, <1>3, <1>4, EntryInstructions, FieldStep
<1>5. CASE n = 7
  BY <1>0, <1>3, <1>5, EntryInstructions, FieldStep
<1>6. CASE n = 9
  BY <1>0, <1>3, <1>6, EntryInstructions, FieldStep
<1>7. CASE n = 11
  BY <1>0, <1>3, <1>7, EntryInstructions, FieldStep
<1>8. CASE n = 3
  <2>1. i = Wr(2, 211, Word(e))
    BY <1>8, EntryInstructions
  <2>2. i.do = "store" /\ i.reg = 211 /\ i.val = Word(e)
    BY <2>1 DEF Wr, Instruction
  <2>3. Command = Word(e) /\ InFields(e, 2)
    BY <1>8 DEF EntryState
  <2> HIDE DEF i
  <2>4. /\ \A x \in Regs : x # 211 => mem'[<<2, x>>] = mem[<<2, x>>]
        /\ mem'[<<2, 211>>] = Word(e)
    BY <1>0, <2>2, EffectAt DEF i
  <2>5. Command' = Word(e)
    BY <1>0, <2>3, <2>4 DEF Command
  <2>6. InFields(e, 3)'
    <3> SUFFICES ASSUME NEW f \in Fields PROVE mem'[<<2, f>>] = Field(e, f, 3)
      BY DEF InFields
    <3>1. mem[<<2, f>>] = Field(e, f, 2) /\ f \in Regs
      BY <1>0, <2>3 DEF InFields
    <3>2. Field(e, f, 3) = IF f = 211 THEN Word(e) ELSE Field(e, f, 2)
      BY FieldStep
    <3> QED
      BY <2>4, <3>1, <3>2
  <2> QED
    BY <1>8, <2>5, <2>6 DEF EntryState
<1>9. CASE n = 1 \/ n = 12
  <2>1. i = Wr(2, TableCommand, IF n = 1 THEN FetchWord(e) ELSE StoreWord(e))
    BY <1>9, EntryInstructions
  <2>2. /\ i.do = "store" /\ i.reg = TableCommand
        /\ i.val = IF n = 1 THEN FetchWord(e) ELSE StoreWord(e)
    BY <2>1 DEF Wr, Instruction
  <2>3. n = 12 => InFields(e, 11)
    BY DEF EntryState
  <2> HIDE DEF i
  <2>4. /\ \A x \in Regs : x # TableCommand => mem'[<<2, x>>] = mem[<<2, x>>]
        /\ mem'[<<2, TableCommand>>] = IF n = 1 THEN FetchWord(e) ELSE StoreWord(e)
    BY <1>0, <2>2, EffectAt DEF i
  <2>5. ASSUME n = 12 PROVE InFields(e, 12)'
    <3> SUFFICES ASSUME NEW f \in Fields PROVE mem'[<<2, f>>] = Field(e, f, 12)
      BY DEF InFields
    <3>1. mem[<<2, f>>] = Field(e, f, 11) /\ f \in Regs /\ f # TableCommand
      BY <1>0, <2>3, <2>5 DEF InFields
    <3>2. Field(e, f, 12) = Field(e, f, 11)
      BY FieldStep
    <3> QED
      BY <2>4, <3>1, <3>2
  <2> QED
    BY <1>9, <2>4, <2>5 DEF EntryState, Command
<1>10. CASE n = 2 \/ n = 13
  <2>1. i = WaitTable
    BY <1>10, EntryInstructions
  <2>2. i.do = "whileBusy" /\ i.reg = TableCommand
    BY <2>1 DEF WaitTable, Instruction
  <2> HIDE DEF i
  <2>3. mem' = mem /\ 15 \notin Command
    BY <2>2 DEF TakesEffect, Command, i
  <2>4. n = 2 => Command = Word(e) /\ InFields(e, 1)
    BY <1>0, <2>3, Words DEF EntryState
  <2>5. ASSUME n = 2 PROVE InFields(e, 2)
    <3>1. \A f \in Fields : Field(e, f, 2) = Field(e, f, 1)
      BY FieldStep
    <3> QED
      BY <2>4, <2>5, <3>1 DEF InFields
  <2> QED
    BY <1>10, <2>3, <2>4, <2>5 DEF EntryState, InFields, Command
<1> QED
  BY <1>1, <1>2, <1>4, <1>5, <1>6, <1>7, <1>8, <1>9, <1>10

(* Which registers the instructions of an entry write. *)
LEMMA EntryRegisters ==
  ASSUME NEW e \in 1..LastEntry, NEW n \in 1..13
  PROVE  /\ VlanEntry(e)[n].reg \in Fields \union {TableCommand}
         /\ n = 12 => VlanEntry(e)[n] = Wr(2, TableCommand, StoreWord(e))
         /\ VlanEntry(e)[n].do \in {"data", "store", "or", "whileBusy"}
<1>1. n \in {1, 2, 3, 4, 5, 6, 7, 8, 9, 10, 11, 12, 13}
  OBVIOUS
<1>a. CASE n \in {1, 2, 3, 12, 13}
  <2>1. VlanEntry(e)[n] \in {Wr(2, TableCommand, FetchWord(e)), WaitTable,
                             Wr(2, 211, Word(e)), Wr(2, TableCommand, StoreWord(e))}
    BY <1>a, EntryInstructions
  <2>2. n = 12 => VlanEntry(e)[n] = Wr(2, TableCommand, StoreWord(e))
    BY EntryInstructions
  <2> QED
    BY <2>1, <2>2 DEF Wr, WaitTable, Instruction, Fields
<1>b. CASE n \in {4, 6, 8, 10}
  BY <1>b, EntryInstructions DEF Rd, Instruction, Fields
<1>c. CASE n \in {5, 7, 9, 11}
  BY <1>c, EntryInstructions DEF WrOr, Instruction, Fields
<1> QED
  BY <1>1, <1>a, <1>b, <1>c

(* One more instruction of demo_init takes effect.                         *)
LEMMA EarlyStep ==
  ASSUME HostInv, Loaded, NEW k \in 1..(2 + LastTag),
         Done(Loader) = k - 1, Done(Loader)' = k, TakesEffect(DemoInit[k])
  PROVE  Loaded'
<1> DEFINE i == DemoInit[k]
<1>0. /\ LastTag \in Nat \ {0} /\ LastEntry \in Nat /\ k \in Nat /\ k >= 1 /\ k <= 2 + LastTag
      /\ TableCommand \in Regs /\ 6 \in Regs /\ TableCommand # 6
      /\ \A j \in 0..(LastTag - 1) : /\ TagReg(j) \in Regs /\ TagReg(j) # TableCommand
                                     /\ TagReg(j) # 6
  BY Assumed DEF TableCommand, TagReg
<1>k. k \in DOMAIN DemoInit
  BY <1>0, DemoInitAt
<1>1. \A e \in 1..LastEntry, n \in 1..13 : k # Base(e) + n
  <2>1. \A e \in 1..LastEntry, n \in 1..13 : Base(e) >= 2 + LastTag /\ Base(e) \in Nat
    BY BaseUnique
  <2> QED
    BY <1>0, <2>1
<1>2. \A e \in 1..LastEntry : ~EntryStored(e) /\ ~EntryStored(e)'
  <2>1. \A e \in 1..LastEntry : Base(e) >= 2 + LastTag /\ Base(e) \in Nat
    BY BaseUnique
  <2> QED
    BY <1>0, <2>1 DEF EntryStored
<1>3. vlan' = vlan
  BY DEF TakesEffect
<1>4. \A e \in DOMAIN Factory :
        vlan'[e] = IF e \in 1..LastEntry /\ EntryStored(e)' THEN Programmed(e) ELSE Factory[e]
  BY <1>2, <1>3 DEF Loaded
<1>5. i.reg \in Regs
  BY <1>k, DemoInitType DEF Instructions
<1>6. \/ k = 1 /\ i = Rd(2, 6)
      \/ k = 2 /\ i = WrOr(2, 6, {1, 3})
      \/ k > 2 /\ i = Wr(2, TagReg(k - 3), TagWord(k - 3)) /\ k - 3 \in 0..(LastTag - 1)
  <2>1. k > 2 => k - 2 \in 1..LastTag /\ 2 + (k - 2) = k /\ (k - 2) - 1 = k - 3
    BY <1>0
  <2>2. ASSUME k > 2 PROVE i = Wr(2, TagReg(k - 3), TagWord(k - 3))
    <3>1. DemoInit[2 + (k - 2)] = Wr(2, TagReg((k - 2) - 1), TagWord((k - 2) - 1))
      BY <2>1, <2>2, DemoInitAt
    <3> QED
      BY <2>1, <2>2, <3>1
  <2>3. k > 2 => k - 3 \in 0..(LastTag - 1)
    BY <1>0
  <2>4. (k = 1 => i = Rd(2, 6)) /\ (k = 2 => i = WrOr(2, 6, {1, 3}))
    BY DemoInitAt
  <2>5. k = 1 \/ k = 2 \/ k > 2
    BY <1>0
  <2> HIDE DEF i
  <2> QED
    BY <2>2, <2>3, <2>4, <2>5
<1>7. /\ 15 \notin Command
      /\ k > 2 => {1, 3} \subseteq mem[<<2, 6>>]
      /\ \A j \in 0..(LastTag - 1) : k - 1 >= 3 + j => mem[<<2, TagReg(j)>>] = TagWord(j)
  BY <1>0 DEF Loaded
<1> DEFINE After ==
      /\ k >= 2 => {1, 3} \subseteq mem'[<<2, 6>>]
      /\ \A j \in 0..(LastTag - 1) : k >= 3 + j => mem'[<<2, TagReg(j)>>] = TagWord(j)
      /\ 15 \notin Command'
<1> HIDE DEF i
<1>e. /\ \A r \in Regs : r # i.reg => mem'[<<2, r>>] = mem[<<2, r>>]
      /\ i.do = "store" => mem'[<<2, i.reg>>] = i.val
      /\ i.do = "or" => mem'[<<2, i.reg>>] = mem[<<2, i.reg>>] \union i.val
      /\ i.do \notin {"store", "or"} => mem' = mem
  BY <1>5, EffectAt DEF i
<1>8. CASE k = 1 /\ i = Rd(2, 6)
  <2>1. mem' = mem
    BY <1>8, <1>e DEF Rd, Instruction
  <2>2. After
    BY <1>0, <1>7, <1>8, <2>1 DEF Command
  <2> QED
    BY <1>1, <1>4, <2>2 DEF Loaded
<1>9. CASE k = 2 /\ i = WrOr(2, 6, {1, 3})
  <2>1. i.do = "or" /\ i.reg = 6 /\ i.val = {1, 3}
    BY <1>9 DEF WrOr, Instruction
  <2>2. mem'[<<2, 6>>] = mem[<<2, 6>>] \union {1, 3} /\ Command' = Command
    BY <1>0, <1>e, <2>1 DEF Command
  <2>3. After
    BY <1>0, <1>7, <1>9, <2>2
  <2> QED
    BY <1>1, <1>4, <2>3 DEF Loaded
<1>10. CASE /\ k > 2 /\ i = Wr(2, TagReg(k - 3), TagWord(k - 3))
            /\ k - 3 \in 0..(LastTag - 1)
  <2>1. i.do = "store" /\ i.reg = TagReg(k - 3) /\ i.val = TagWord(k - 3)
    BY <1>10 DEF Wr, Instruction
  <2>2. /\ mem'[<<2, TagReg(k - 3)>>] = TagWord(k - 3)
        /\ mem'[<<2, 6>>] = mem[<<2, 6>>] /\ Command' = Command
    BY <1>0, <1>10, <1>e, <2>1 DEF Command
  <2>3. ASSUME NEW j \in 0..(LastTag - 1), k >= 3 + j
        PROVE  mem'[<<2, TagReg(j)>>] = TagWord(j)
    <3>1. CASE j = k - 3
      BY <2>2, <3>1
    <3>2. CASE j # k - 3
      <4>1. TagReg(j) # TagReg(k - 3) /\ TagReg(j) \in Regs
        BY <1>0, <1>10, <3>2 DEF TagReg
      <4>2. k - 1 >= 3 + j
        BY <1>0, <2>3, <3>2
      <4> QED
        BY <1>7, <1>e, <2>1, <4>1, <4>2
    <3> QED
      BY <3>1, <3>2
  <2>4. After
    BY <1>7, <1>10, <2>2, <2>3
  <2> QED
    BY <1>1, <1>4, <2>4 DEF Loaded
<1> QED
  BY <1>6, <1>8, <1>9, <1>10

LEMMA TableStep ==
  ASSUME HostInv, Loaded, NEW e \in 1..LastEntry, NEW n \in 1..13,
         Done(Loader) = Base(e) + n - 1, Done(Loader)' = Base(e) + n,
         TakesEffect(VlanEntry(e)[n])
  PROVE  Loaded'
<1> DEFINE i == VlanEntry(e)[n]
<1>0. /\ LastTag \in Nat \ {0} /\ LastEntry \in Nat /\ e \in Nat
      /\ Base(e) \in Nat /\ Base(e) >= 2 + LastTag
      /\ TableCommand \in Regs /\ Fields \subseteq Regs
      /\ 6 \in Regs /\ 6 \notin Fields \union {TableCommand}
      /\ \A j \in 0..(LastTag - 1) : /\ TagReg(j) \in Regs
                                     /\ TagReg(j) \notin Fields \union {TableCommand}
  BY Assumed, BaseUnique DEF TableCommand, TagReg, Fields
<1>1. i.reg \in Fields \union {TableCommand}
  BY EntryRegisters
<1>2. \A r \in Regs : r \notin Fields \union {TableCommand} => mem'[<<2, r>>] = mem[<<2, r>>]
  BY <1>0, <1>1, EffectAt
<1>3. {1, 3} \subseteq mem'[<<2, 6>>]
  <2>1. Done(Loader) >= 2
    BY <1>0
  <2> QED
    BY <1>0, <1>2, <2>1 DEF Loaded
<1>4. \A j \in 0..(LastTag - 1) : mem'[<<2, TagReg(j)>>] = TagWord(j)
  <2>1. \A j \in 0..(LastTag - 1) : Done(Loader) >= 3 + j
    BY <1>0
  <2> QED
    BY <1>0, <1>2, <2>1 DEF Loaded
<1>5. ~(Done(Loader)' <= 2 + LastTag)
  BY <1>0
<1>6. n > 1 => EntryState(e, n - 1)
  <2>1. n > 1 => n - 1 \in 1..13 /\ Done(Loader) = Base(e) + (n - 1)
    BY <1>0
  <2> QED
    BY <2>1 DEF Loaded
<1>7. EntryState(e, n)'
  BY <1>6, EntryStep
<1>8. \A f \in 1..LastEntry, m \in 1..13 : Done(Loader)' = Base(f) + m => f = e /\ m = n
  BY BaseUnique
<1>9. ASSUME NEW f \in 1..LastEntry PROVE EntryStored(f)' <=> EntryStored(f)
  <2>1. Base(f) \in Nat /\ (f > e => Base(f) >= Base(e) + 13) /\ (e > f => Base(e) >= Base(f) + 13)
    BY BaseUnique
  <2>2. CASE f > e
    BY <1>0, <2>1, <2>2 DEF EntryStored
  <2>3. CASE e > f
    BY <1>0, <2>1, <2>3 DEF EntryStored
  <2>4. CASE f = e /\ n < 12
    BY <1>0, <2>4 DEF EntryStored
  <2>5. CASE f = e /\ n = 12
    <3>0. i = Wr(2, TableCommand, StoreWord(e))
      BY <2>5, EntryRegisters
    <3>1. i.do = "store" /\ i.reg = TableCommand /\ i.val = StoreWord(e)
      BY <3>0 DEF Wr, Instruction
    <3>2. Command' = StoreWord(e)
      BY <1>0, <3>1, EffectAt DEF Command
    <3>3. 15 \in Command'
      BY <3>2 DEF StoreWord
    <3> QED
      BY <1>0, <2>5, <3>3 DEF EntryStored
  <2>6. CASE f = e /\ n = 13
    <3>1. i.do = "whileBusy" /\ i.reg = TableCommand
      BY <2>6, EntryInstructions DEF WaitTable, Instruction
    <3>2. 15 \notin Command
      BY <3>1 DEF TakesEffect, Command
    <3> QED
      BY <1>0, <2>6, <3>2 DEF EntryStored
  <2> QED
    BY <1>0, <2>2, <2>3, <2>4, <2>5, <2>6
<1>10. vlan' = vlan
  BY DEF TakesEffect
<1>11. \A f \in DOMAIN Factory :
         vlan'[f] = IF f \in 1..LastEntry /\ EntryStored(f)' THEN Programmed(f) ELSE Factory[f]
  BY <1>9, <1>10 DEF Loaded
<1> QED
  BY <1>3, <1>4, <1>5, <1>7, <1>8, <1>11 DEF Loaded

LEMMA Advance ==
  ASSUME HostInv, Loaded, NEW k \in DOMAIN DemoInit,
         Done(Loader) = k - 1, Done(Loader)' = k, TakesEffect(DemoInit[k])
  PROVE  Loaded'
<1>1. LastTag \in Nat \ {0} /\ k \in Nat /\ k >= 1
  BY Assumed, DemoInitAt
<1>2. CASE k <= 2 + LastTag
  <2>1. k \in 1..(2 + LastTag)
    BY <1>1, <1>2
  <2> QED
    BY <2>1, EarlyStep
<1>3. CASE ~(k <= 2 + LastTag)
  <2>1. PICK e \in 1..LastEntry, n \in 1..13 : k = Base(e) + n
    <3>1. \A j \in 1..LastTag : k # 2 + j
      BY <1>1, <1>3
    <3> QED
      BY <1>1, <1>3, <3>1, Where
  <2>2. DemoInit[k] = VlanEntry(e)[n]
    BY <2>1, DemoInitAt
  <2>3. Done(Loader) = Base(e) + n - 1 /\ Done(Loader)' = Base(e) + n
    <3>1. Base(e) \in Nat
      BY BaseUnique
    <3> QED
      BY <1>1, <2>1, <3>1
  <2>4. TakesEffect(VlanEntry(e)[n])
    BY <2>2
  <2> QED
    BY <2>3, <2>4, TableStep
<1> QED
  BY <1>2, <1>3
-----------------------------------------------------------------------------
(* The loader executes demo_init, on page 2. *)
LEMMA LoaderCurrent ==
  ASSUME Gentle, HostInv, Running(Loader), Left(Loader)
  PROVE  /\ pc[Loader] \in DOMAIN DemoInit /\ Current(Loader) = DemoInit[pc[Loader]]
         /\ Script(op[Loader]) = DemoInit
         /\ Current(Loader).page = 2 /\ Current(Loader).reg \in Regs
<1>1. Script(op[Loader]) = DemoInit
  BY Executes, Ip1810Assumption DEF HostInv
<1>2. pc[Loader] \in DOMAIN DemoInit /\ Current(Loader) = DemoInit[pc[Loader]]
  BY <1>1 DEF Left, Current
<1> QED
  BY <1>1, <1>2, DemoInitType DEF Instructions

LEMMA NextScript ==
  op[Loader] = InitOp => Running(Loader) /\ Script(op[Loader]) = DemoInit
BY DEF Running, InitOp, NoOp, Script

(* Data is put together right after it is read. *)
LEMMA OrAfterRead ==
  ASSUME NEW k \in DOMAIN DemoInit, DemoInit[k].do = "or"
  PROVE  k - 1 \in DOMAIN DemoInit /\ DemoInit[k - 1] = Rd(2, DemoInit[k].reg)
<1>0. LastTag \in Nat \ {0} /\ LastEntry \in Nat /\ LastTag \in Int
  BY Assumed
<1>1. CASE k = 1
  BY <1>1, DemoInitAt DEF Rd, Instruction
<1>2. CASE k = 2
  <2>1. 1 \in DOMAIN DemoInit /\ k - 1 = 1
    BY <1>0, <1>2, DemoInitAt
  <2> QED
    BY <1>2, <2>1, DemoInitAt DEF WrOr, Instruction
<1>3. ASSUME NEW i \in 1..LastTag, k = 2 + i PROVE FALSE
  <2>1. DemoInit[k] = Wr(2, TagReg(i - 1), TagWord(i - 1))
    BY <1>3, DemoInitAt
  <2> QED
    BY <2>1 DEF Wr, Instruction
<1>4. ASSUME NEW e \in 1..LastEntry, NEW n \in 1..13, k = Base(e) + n
      PROVE  k - 1 \in DOMAIN DemoInit /\ DemoInit[k - 1] = Rd(2, DemoInit[k].reg)
  <2>1. DemoInit[k] = VlanEntry(e)[n]
    BY <1>4, DemoInitAt
  <2>2. n \in {1, 2, 3, 4, 5, 6, 7, 8, 9, 10, 11, 12, 13}
    OBVIOUS
  <2>a. ASSUME n \in {1, 2, 3, 12, 13} PROVE FALSE
    <3>1. VlanEntry(e)[n] \in {Wr(2, TableCommand, FetchWord(e)), WaitTable,
                               Wr(2, 211, Word(e)), Wr(2, TableCommand, StoreWord(e))}
      BY <2>a, EntryInstructions
    <3>2. VlanEntry(e)[n].do \in {"store", "whileBusy"}
      BY <3>1 DEF Wr, WaitTable, Instruction
    <3> QED
      BY <2>1, <3>2
  <2>b. n \notin {4, 6, 8, 10}
    BY <2>1, EntryInstructions DEF Rd, Instruction
  <2>3. n \in {5, 7, 9, 11}
    BY <2>2, <2>a, <2>b
  <2>4. VlanEntry(e)[n - 1] = Rd(2, VlanEntry(e)[n].reg)
    BY <2>3, EntryInstructions DEF WrOr, Instruction
  <2>5. n - 1 \in 1..13 /\ Base(e) + (n - 1) = k - 1
    <3>1. Base(e) \in Nat
      BY BaseUnique
    <3> QED
      BY <1>4, <2>3, <3>1
  <2>6. DemoInit[k - 1] = VlanEntry(e)[n - 1]
    BY <2>5, DemoInitAt
  <2>7. k - 1 \in DOMAIN DemoInit
    <3>1. k \in 1..(2 + LastTag + 13 * LastEntry) /\ k > 1
      <4>1. Base(e) \in Nat
        BY BaseUnique
      <4> QED
        BY <1>4, <2>3, <4>1, DemoInitAt
    <3>2. 2 + LastTag + 13 * LastEntry \in Int
      BY <1>0
    <3> HIDE DEF Base
    <3> QED
      BY <3>1, <3>2, DemoInitAt
  <2> QED
    BY <2>1, <2>4, <2>6, <2>7
<1> QED
  BY <1>1, <1>2, <1>3, <1>4, Where

(* Where nothing happens to page 2 nor to the place in demo_init, what     *)
(* holds of them stays.                                                    *)
LEMMA LoadedSame ==
  ASSUME Loaded, Done(Loader)' = Done(Loader), vlan' = vlan,
         \A r \in Regs : mem'[<<2, r>>] = mem[<<2, r>>]
  PROVE  Loaded'
<1>1. /\ 6 \in Regs /\ TableCommand \in Regs /\ Fields \subseteq Regs
      /\ \A i \in 0..(LastTag - 1) : TagReg(i) \in Regs
  BY Assumed DEF TableCommand, Fields
<1>2. Command' = Command
  BY <1>1 DEF Command
<1>3. \A e, n : EntryState(e, n) => EntryState(e, n)'
  BY <1>1, <1>2 DEF EntryState, InFields
<1>4. \A e : EntryStored(e)' <=> EntryStored(e)
  BY <1>2 DEF EntryStored
<1>5. /\ Done(Loader)' >= 2 => {1, 3} \subseteq mem'[<<2, 6>>]
      /\ \A i \in 0..(LastTag - 1) :
           Done(Loader)' >= 3 + i => mem'[<<2, TagReg(i)>>] = TagWord(i)
      /\ Done(Loader)' <= 2 + LastTag => 15 \notin Command'
  BY <1>1, <1>2 DEF Loaded
<1>6. \A e \in 1..LastEntry, n \in 1..13 :
        Done(Loader)' = Base(e) + n => EntryState(e, n)'
  BY <1>3 DEF Loaded
<1>7. \A e \in DOMAIN Factory :
        vlan'[e] = IF e \in 1..LastEntry /\ EntryStored(e)' THEN Programmed(e) ELSE Factory[e]
  BY <1>4 DEF Loaded
<1> QED
  BY <1>5, <1>6, <1>7 DEF Loaded

LEMMA LoaderIdle ==
  ASSUME Gentle, HostInv, LoaderInv, vlan' = vlan,
         op'[Loader] = op[Loader], pc'[Loader] = pc[Loader],
         io'[Loader] = io[Loader], local'[Loader] = local[Loader],
         \A r \in Regs : mem'[<<2, r>>] = mem[<<2, r>>]
  PROVE  LoaderInv'
<1>1. /\ Running(Loader)' = Running(Loader) /\ Left(Loader)' = Left(Loader)
      /\ Current(Loader)' = Current(Loader) /\ Done(Loader)' = Done(Loader)
  BY Untouched, Ip1810Assumption
<1>2. Loaded'
  BY <1>1, LoadedSame DEF LoaderInv
<1>3. Fetched'
  <2>1. Running(Loader) /\ Left(Loader) => FetchedFor(Current(Loader))
    BY DEF LoaderInv, Fetched
  <2>2. Running(Loader) /\ Left(Loader) => Current(Loader).reg \in Regs
    BY LoaderCurrent
  <2> QED
    BY <1>1, <2>1, <2>2 DEF Fetched, FetchedFor
<1>4. Finished'
  BY DEF LoaderInv, Finished
<1> QED
  BY <1>2, <1>3, <1>4 DEF LoaderInv
-----------------------------------------------------------------------------
(* The steps of the loader. *)
LEMMA LoaderIssue ==
  ASSUME Gentle, HostInv, LoaderInv, Issue(Loader) PROVE LoaderInv'
<1>0. Loader \in Threads
  BY Ip1810Assumption
<1>1. /\ io[Loader] = NoAccess /\ Running(Loader) /\ Left(Loader)
      /\ io'[Loader].at = "lock"
      /\ Current(Loader).do = "or" =>
           local'[Loader].data = local[Loader].data \union Current(Loader).val
      /\ UNCHANGED <<mem, op, pc, vlan>>
  BY <1>0, IssueEffect
<1>2. Done(Loader)' = Done(Loader)
  BY <1>0, DoneBy
<1>3. Loaded'
  BY <1>1, <1>2, LoadedSame DEF LoaderInv
<1>4. Current(Loader)' = Current(Loader)
  BY <1>1 DEF Current
<1>5. FetchedFor(Current(Loader))
  BY <1>1 DEF LoaderInv, Fetched
<1>6. io'[Loader] # NoAccess
  BY <1>1 DEF NoAccess
<1>7. Fetched'
  BY <1>1, <1>4, <1>5, <1>6 DEF Fetched, FetchedFor
<1>8. Finished'
  BY <1>1 DEF LoaderInv, Finished
<1> QED
  BY <1>3, <1>7, <1>8 DEF LoaderInv

LEMMA LoaderShift ==
  ASSUME Gentle, HostInv, LoaderInv, Shift(Loader) PROVE LoaderInv'
<1>0. /\ Loader \in Threads /\ UNCHANGED <<op, pc, local, vlan>>
  BY Ip1810Assumption DEF Shift, hostVars
<1>1. Current(Loader)' = Current(Loader) /\ Left(Loader)' = Left(Loader)
      /\ Running(Loader)' = Running(Loader)
  BY <1>0 DEF Current, Left, Running
<1>2. Finished'
  BY <1>0 DEF LoaderInv, Finished
<1>3. Running(Loader) /\ Left(Loader) => FetchedFor(Current(Loader))
  BY DEF LoaderInv, Fetched
<1>4. ASSUME NEW ph, Moves(Loader, ph) PROVE LoaderInv'
  <2>1. mem' = mem /\ Done(Loader)' = Done(Loader)
    BY <1>0, <1>4, DoneBy DEF Moves
  <2>2. io'[Loader].at = ph /\ io'[Loader].val = io[Loader].val
        /\ io[Loader] # NoAccess /\ io'[Loader] # NoAccess
    BY <1>0, <1>4, MovesEffect
  <2>3. <<io[Loader].at, ph>> \in {<<"lock", "page">>, <<"page", "pageBits">>,
                  <<"pageBits", "access">>, <<"access", "accessBits">>, <<"unlock", "done">>}
    BY <1>4 DEF Moves
  <2>4. /\ ph \in {"unlock", "done"} => io[Loader].at \in {"unlock", "done"}
        /\ ph \in {"lock", "page", "pageBits", "access", "accessBits"}
             => io[Loader].at \in {"lock", "page", "pageBits", "access", "accessBits"}
    BY <2>3
  <2>5. Fetched'
    BY <1>0, <1>1, <1>3, <2>1, <2>2, <2>4 DEF Fetched, FetchedFor
  <2>6. Loaded'
    BY <1>0, <2>1, LoadedSame DEF LoaderInv
  <2> QED
    BY <1>2, <2>5, <2>6 DEF LoaderInv
<1>5. ASSUME ReadEnds(Loader) PROVE LoaderInv'
  <2>1. mem' = mem /\ Done(Loader)' = Done(Loader)
    BY <1>0, <1>5, DoneBy DEF ReadEnds
  <2>2. /\ io[Loader] # NoAccess /\ io'[Loader] # NoAccess /\ io'[Loader].at = "unlock"
        /\ io'[Loader].val = mem[<<io[Loader].page, io[Loader].reg>>]
    BY <1>0, <1>5, ReadEndsEffect
  <2>3. Running(Loader) /\ Left(Loader) /\ Asked(Loader)
    BY <1>0, <2>2 DEF HostInv, Match, Matched
  <2>4. io'[Loader].val = mem[<<2, Current(Loader).reg>>]
    BY <2>2, <2>3, LoaderCurrent DEF Asked
  <2>5. Fetched'
    BY <1>1, <2>1, <2>2, <2>4 DEF Fetched, FetchedFor
  <2>6. Loaded'
    BY <1>0, <2>1, LoadedSame DEF LoaderInv
  <2> QED
    BY <1>2, <2>5, <2>6 DEF LoaderInv
<1>6. ASSUME WriteEnds(Loader) PROVE LoaderInv'
  <2> DEFINE i == Current(Loader)
  <2>1. /\ io[Loader] # NoAccess /\ io'[Loader] # NoAccess /\ io'[Loader].at = "unlock"
        /\ io[Loader].at = "accessBits" /\ io[Loader].op = "write"
        /\ mem' = IF mdcOut THEN [mem EXCEPT ![<<io[Loader].page, io[Loader].reg>>] = io[Loader].val]
                  ELSE mem
    BY <1>0, <1>6, WriteEndsEffect DEF WriteEnds
  <2>2. Running(Loader) /\ Left(Loader) /\ Asked(Loader)
    BY <1>0, <2>1 DEF HostInv, Match, Matched
  <2>3. /\ pc[Loader] \in DOMAIN DemoInit /\ i = DemoInit[pc[Loader]]
        /\ i.page = 2 /\ i.reg \in Regs
    BY <2>2, LoaderCurrent
  <2>4. Done(Loader) = pc[Loader] - 1 /\ Done(Loader)' = pc[Loader] /\ pc[Loader] \in Nat \ {0}
    BY <1>0, <1>6, DoneBy
  <2>5. Kind(i.do) = "write" /\ io[Loader].page = 2 /\ io[Loader].reg = i.reg
        /\ (i.do = "store" => io[Loader].val = i.val)
        /\ (i.do = "or" => io[Loader].val = local[Loader].data)
    BY <2>1, <2>2, <2>3 DEF Asked
  <2> HIDE DEF i
  <2>6. i.do \in {"store", "or"}
    BY <2>5 DEF Kind
  <2>7. pc[Loader] > 1
    <3>1. CASE pc[Loader] = 1
      BY <2>3, <2>6, <3>1, DemoInitAt DEF Rd, Instruction
    <3> QED
      BY <2>4, <3>1
  <2>8. mdcOut
    BY <1>0, <2>7 DEF HostInv, Driven, DrivenBy, ReadsFirst
  <2>9. i.do = "or" => local[Loader].data = mem[<<2, i.reg>>] \union i.val
    BY <1>3, <2>1, <2>2 DEF FetchedFor, i
  <2>10. TakesEffect(i)
    BY <1>0, <2>1, <2>5, <2>6, <2>8, <2>9 DEF TakesEffect
  <2>11. Loaded'
    BY <2>3, <2>4, <2>10, Advance DEF LoaderInv
  <2>12. Current(Loader)' = i
    BY <1>1 DEF i
  <2>13. Fetched'
    BY <2>1, <2>6, <2>12 DEF Fetched, FetchedFor
  <2> QED
    BY <1>2, <2>11, <2>13 DEF LoaderInv
<1> QED
  BY <1>0, <1>4, <1>5, <1>6, ShiftCases

LEMMA LoaderComplete ==
  ASSUME Gentle, HostInv, LoaderInv, Complete(Loader) PROVE LoaderInv'
<1> DEFINE i == Current(Loader)
<1>0. Loader \in Threads
  BY Ip1810Assumption
<1>1. /\ io[Loader].at = "done" /\ Running(Loader) /\ Left(Loader) /\ Asked(Loader)
      /\ io'[Loader] = NoAccess
      /\ pc'[Loader] = IF i.do = "whileBusy" /\ 15 \in io[Loader].val
                       THEN pc[Loader] ELSE pc[Loader] + 1
      /\ local'[Loader].data = IF i.do = "data" THEN io[Loader].val ELSE local[Loader].data
      /\ UNCHANGED <<mem, op, vlan>>
  BY <1>0, CompleteEffect
<1>2. /\ pc[Loader] \in DOMAIN DemoInit /\ i = DemoInit[pc[Loader]]
      /\ Script(op[Loader]) = DemoInit
  BY <1>1, LoaderCurrent
<1>3. FetchedFor(i)
  BY <1>1 DEF LoaderInv, Fetched
<1>4. /\ pc[Loader] \in Nat \ {0}
      /\ IF io[Loader].op = "write" THEN Done(Loader) = pc[Loader] /\ Done(Loader)' = pc[Loader]
         ELSE Done(Loader) = pc[Loader] - 1 /\ Done(Loader)' = pc'[Loader] - 1
  BY <1>0, DoneBy
<1>5. io[Loader].op = Kind(i.do)
  BY <1>1 DEF Asked
<1>6. Script(op[Loader])' = DemoInit /\ Current(Loader)' = DemoInit[pc'[Loader]]
  BY <1>1, <1>2 DEF Current
<1>f. Left(Loader)' <=> pc'[Loader] \in DOMAIN DemoInit
  BY <1>6 DEF Left
<1> HIDE DEF i
<1>7. Loaded'
  <2>1. CASE io[Loader].op # "write" /\ pc'[Loader] = pc[Loader] + 1
    <3>1. Done(Loader) = pc[Loader] - 1 /\ Done(Loader)' = pc[Loader]
      BY <1>4, <2>1
    <3>2. i.do \notin {"store", "or"}
      BY <1>5, <2>1 DEF Kind
    <3>3. i.do = "whileBusy" => 15 \notin mem[<<2, i.reg>>]
      BY <1>1, <1>3, <1>4, <2>1 DEF FetchedFor
    <3>4. TakesEffect(i)
      BY <1>1, <3>2, <3>3 DEF TakesEffect
    <3> QED
      BY <1>2, <3>1, <3>4, Advance DEF LoaderInv
  <2>2. CASE ~(io[Loader].op # "write" /\ pc'[Loader] = pc[Loader] + 1)
    <3>1. Done(Loader)' = Done(Loader)
      BY <1>1, <1>4, <2>2
    <3> QED
      BY <1>1, <3>1, LoadedSame DEF LoaderInv
  <2> QED
    BY <2>1, <2>2
<1>8. Fetched'
  <2> SUFFICES ASSUME NEW k \in DOMAIN DemoInit, k = pc'[Loader]
               PROVE  FetchedFor(DemoInit[k])'
    <3>1. ASSUME Running(Loader)', Left(Loader)' PROVE FetchedFor(Current(Loader))'
      <4>1. PICK k \in DOMAIN DemoInit : k = pc'[Loader]
        BY <1>f, <3>1
      <4>2. Current(Loader)' = DemoInit[k]
        BY <1>6, <4>1
      <4>3. FetchedFor(DemoInit[k])'
        BY <4>1
      <4> QED
        BY <4>2, <4>3 DEF FetchedFor
    <3> QED
      BY <3>1 DEF Fetched
  <2> DEFINE j == DemoInit[k]
  <2>1. io'[Loader].at = "idle"
    BY <1>1 DEF NoAccess
  <2>2. ASSUME j.do = "or" PROVE local'[Loader].data = mem'[<<2, j.reg>>]
    <3>1. pc'[Loader] - 1 \in DOMAIN DemoInit /\ DemoInit[pc'[Loader] - 1] = Rd(2, j.reg)
      BY <2>2, OrAfterRead
    <3>2. CASE pc'[Loader] = pc[Loader] + 1
      <4>1. i = Rd(2, j.reg)
        BY <1>2, <1>4, <3>1, <3>2
      <4>2. i.do = "data" /\ i.reg = j.reg
        BY <4>1 DEF Rd, Instruction
      <4> QED
        BY <1>1, <1>3, <4>2 DEF FetchedFor
    <3>3. CASE pc'[Loader] # pc[Loader] + 1
      <4>1. pc'[Loader] = pc[Loader] /\ i.do = "whileBusy"
        BY <1>1, <3>3
      <4> QED
        BY <1>2, <2>2, <4>1
    <3> QED
      BY <3>2, <3>3
  <2> QED
    BY <2>1, <2>2 DEF FetchedFor
<1>9. Finished'
  <2>1. pc[Loader] <= 2 + LastTag + 13 * LastEntry /\ LastTag \in Int /\ 13 * LastEntry \in Int
    BY <1>2, DemoInitAt, Assumed
  <2>2. op[Loader] # NoOp
    BY <1>1 DEF Running
  <2>3. pc'[Loader] <= pc[Loader] + 1 /\ pc'[Loader] \in Nat
    BY <1>1, <1>4
  <2> QED
    BY <1>1, <1>4, <2>1, <2>2, <2>3 DEF Finished
<1> QED
  BY <1>7, <1>8, <1>9 DEF LoaderInv

LEMMA LoaderFinish ==
  ASSUME Gentle, HostInv, LoaderInv, Finish(Loader) PROVE LoaderInv'
<1>0. /\ Loader \in Threads /\ Running(Loader) /\ ~Left(Loader)
      /\ op' = [op EXCEPT ![Loader] = NoOp]
      /\ UNCHANGED <<accessVars, pc, local, vlan>>
  BY Ip1810Assumption DEF Finish
<1>1. op'[Loader] = NoOp /\ UNCHANGED <<mem, io>>
  BY <1>0 DEF HostInv, HostType, accessVars
<1>2. Loaded'
  BY <1>0, <1>1, LoadedSame DEF Done, LoaderInv
<1>3. Fetched'
  BY <1>1 DEF Fetched, Running
<1>4. pc[Loader] \notin DOMAIN DemoInit
  BY <1>0, Executes DEF HostInv, Left
<1>5. pc[Loader] = 3 + LastTag + 13 * LastEntry
  <2>1. pc[Loader] \in Nat \ {0} /\ pc[Loader] <= 3 + LastTag + 13 * LastEntry
        /\ LastTag \in Int /\ 13 * LastEntry \in Int
    BY <1>0, Assumed DEF HostInv, HostType, LoaderInv, Finished
  <2> QED
    BY <1>4, <2>1, DemoInitAt
<1>6. Finished'
  BY <1>0, <1>5 DEF Finished, LoaderInv
<1> QED
  BY <1>2, <1>3, <1>6 DEF LoaderInv
-----------------------------------------------------------------------------
(* The table engine runs when demo_init has asked it to fetch an entry or  *)
(* to store one, and demo_init is then about to wait for it.               *)
LEMMA EngineTurn ==
  ASSUME Gentle, HostInv, LoaderInv, VlanEngine
  PROVE  \E e \in 1..LastEntry :
           \/ Done(Loader) = Base(e) + 1 /\ Command = FetchWord(e)
           \/ Done(Loader) = Base(e) + 12 /\ Command = StoreWord(e) /\ InFields(e, 12)
<1>1. 15 \in Command
  BY DEF VlanEngine, Command
<1> DEFINE d == Done(Loader)
<1>2. pc[Loader] \in Nat \ {0} /\ d \in {pc[Loader] - 1, pc[Loader]}
  BY Ip1810Assumption DEF HostInv, HostType, Done
<1>3. d \in Nat /\ d > 2 + LastTag /\ LastTag \in Nat /\ LastEntry \in Nat
  <2>1. d \in Nat /\ LastTag \in Nat /\ LastEntry \in Nat
    BY <1>2, Assumed
  <2>2. ~(d <= 2 + LastTag)
    BY <1>1 DEF LoaderInv, Loaded
  <2> QED
    BY <2>1, <2>2
<1>4. d \in DOMAIN DemoInit
  <2>1. io[Loader] # NoAccess => pc[Loader] \in 1..(2 + LastTag + 13 * LastEntry)
    <3>1. io[Loader] # NoAccess => Running(Loader) /\ Left(Loader)
      BY Ip1810Assumption DEF HostInv, Match, Matched
    <3> QED
      BY <3>1, LoaderCurrent, DemoInitAt
  <2>2. io[Loader] = NoAccess => d = pc[Loader] - 1
    BY DEF Done, NoAccess
  <2>3. pc[Loader] <= 3 + LastTag + 13 * LastEntry /\ 13 * LastEntry \in Int
    BY <1>3 DEF LoaderInv, Finished
  <2>4. d <= 2 + LastTag + 13 * LastEntry
    BY <1>2, <1>3, <2>1, <2>2, <2>3
  <2> QED
    BY <1>3, <2>3, <2>4, DemoInitAt
<1>5. PICK e \in 1..LastEntry, n \in 1..13 : d = Base(e) + n
  <2>1. \A j \in 1..LastTag : d # 2 + j
    BY <1>3
  <2>2. d # 1 /\ d # 2
    BY <1>3
  <2> QED
    BY <1>4, <2>1, <2>2, Where
<1>6. EntryState(e, n) /\ e \in DOMAIN Factory
  BY <1>5, EntriesNamed DEF LoaderInv, Loaded
<1>7. n \notin 2..11 /\ n # 13
  BY <1>1, <1>6, Words DEF EntryState
<1>8. n = 1 \/ n = 12
  BY <1>7
<1>9. CASE n = 1
  <2>1. Command = FetchWord(e)
    BY <1>1, <1>6, <1>9, Words DEF EntryState
  <2> QED
    BY <1>5, <1>9, <2>1
<1>10. CASE n = 12
  <2>1. Command = StoreWord(e) /\ InFields(e, 12)
    BY <1>1, <1>6, <1>10 DEF EntryState
  <2> QED
    BY <1>5, <1>10, <2>1
<1> QED
  BY <1>8, <1>9, <1>10

LEMMA EngineStep ==
  ASSUME Gentle, HostInv, LoaderInv, VlanEngine PROVE LoaderInv'
<1>1. PICK e \in 1..LastEntry :
        \/ Done(Loader) = Base(e) + 1 /\ Command = FetchWord(e)
        \/ Done(Loader) = Base(e) + 12 /\ Command = StoreWord(e) /\ InFields(e, 12)
  BY EngineTurn
<1>2. /\ UNCHANGED <<mdcOut, io, op, pc, local>> /\ Loader \in Threads
  BY Engines, Ip1810Assumption DEF hostVars
<1>3. /\ Done(Loader)' = Done(Loader) /\ Current(Loader)' = Current(Loader)
      /\ Left(Loader)' = Left(Loader) /\ Running(Loader)' = Running(Loader)
  BY <1>2, Untouched
<1>4. /\ e \in DOMAIN Factory /\ Base(e) \in Nat /\ Base(e) >= 2 + LastTag /\ LastTag \in Nat \ {0}
      /\ \A f \in 1..LastEntry : (f > e => Base(f) >= Base(e) + 13)
                                 /\ (e > f => Base(e) >= Base(f) + 13)
                                 /\ Base(f) \in Nat
      /\ \A f \in 1..LastEntry, n, m \in 1..13 : Base(e) + n = Base(f) + m => f = e /\ m = n
  BY BaseUnique, EntriesNamed, Assumed
<1>5. /\ 14 \notin Word(e) /\ 15 \notin Word(e)
      /\ 14 \notin FetchWord(e) /\ 15 \in FetchWord(e)
      /\ FetchWord(e) \ {15} = Word(e) /\ FetchWord(e) \ {14, 15} = Word(e)
      /\ 14 \in StoreWord(e) /\ 15 \in StoreWord(e)
      /\ StoreWord(e) \ {14, 15} = Word(e)
  BY <1>4, Words
<1>6. Command \ {14, 15} = Word(e)
  BY <1>1, <1>5
<1>7. /\ Command' = Command \ {15}
      /\ \A r \in Regs : r # TableCommand /\ r \notin Fields
                           => mem'[<<2, r>>] = mem[<<2, r>>]
      /\ 14 \in Command =>
           /\ \A f \in Fields : mem'[<<2, f>>] = mem[<<2, f>>]
           /\ vlan' = [vlan EXCEPT ![e] = [f \in Fields |-> mem[<<2, f>>]]]
      /\ 14 \notin Command =>
           /\ \A f \in Fields : mem'[<<2, f>>] = vlan[e][f]
           /\ vlan' = vlan
  BY <1>4, <1>6, VlanEffect
<1>8. 15 \notin Command'
  BY <1>7
<1>9. Finished'
  BY <1>2 DEF LoaderInv, Finished
<1>10. Fetched'
  <2> SUFFICES ASSUME Running(Loader), Left(Loader) PROVE FetchedFor(Current(Loader))'
    BY <1>3 DEF Fetched, FetchedFor
  <2> DEFINE k == pc[Loader]
  <2>1. k \in DOMAIN DemoInit /\ Current(Loader) = DemoInit[k]
    BY LoaderCurrent
  <2>2. k = Done(Loader) \/ k = Done(Loader) + 1
    BY <1>2 DEF Done, HostInv, HostType
  <2>3. PICK n \in {1, 2, 12, 13} : k = Base(e) + n
    BY <1>1, <1>4, <2>2
  <2>4. Current(Loader) = VlanEntry(e)[n]
    BY <2>1, <2>3, DemoInitAt
  <2>5. \/ Current(Loader).do = "store"
        \/ Current(Loader).do = "whileBusy" /\ Current(Loader).reg = TableCommand
    <3>1. Current(Loader) \in {Wr(2, TableCommand, FetchWord(e)), WaitTable,
                              Wr(2, TableCommand, StoreWord(e))}
      BY <2>4, EntryInstructions
    <3> QED
      BY <3>1 DEF Wr, WaitTable, Instruction
  <2> QED
    BY <1>3, <1>8, <2>5 DEF FetchedFor, Command
<1>11. /\ Done(Loader)' >= 2 => {1, 3} \subseteq mem'[<<2, 6>>]
       /\ \A i \in 0..(LastTag - 1) :
            Done(Loader)' >= 3 + i => mem'[<<2, TagReg(i)>>] = TagWord(i)
       /\ Done(Loader)' <= 2 + LastTag => 15 \notin Command'
  <2>1. /\ 6 \in Regs /\ 6 # TableCommand /\ 6 \notin Fields
        /\ \A i \in 0..(LastTag - 1) : /\ TagReg(i) \in Regs /\ TagReg(i) # TableCommand
                                       /\ TagReg(i) \notin Fields
    BY Assumed DEF TableCommand, TagReg, Fields
  <2> QED
    BY <1>3, <1>7, <1>8, <2>1 DEF LoaderInv, Loaded
<1>12. vlan \in [DOMAIN Factory -> [Fields -> Values]]
       /\ \A f \in DOMAIN Factory :
            vlan[f] = IF f \in 1..LastEntry /\ EntryStored(f) THEN Programmed(f) ELSE Factory[f]
  BY DEF HostInv, HostType, LoaderInv, Loaded
<1>13. \A f \in 1..LastEntry : f # e => (EntryStored(f)' <=> EntryStored(f))
  BY <1>1, <1>3, <1>4 DEF EntryStored
<1>14. CASE Done(Loader) = Base(e) + 1 /\ Command = FetchWord(e)
  <2>1. vlan' = vlan /\ (\A f \in Fields : mem'[<<2, f>>] = vlan[e][f]) /\ Command' = Word(e)
    BY <1>5, <1>7, <1>14
  <2>2. ~EntryStored(e) /\ ~EntryStored(e)'
    BY <1>3, <1>4, <1>14 DEF EntryStored
  <2>3. vlan[e] = Factory[e]
    BY <1>4, <1>12, <2>2
  <2>4. \A f \in Fields : Field(e, f, 1) = Factory[e][f]
    BY <1>4, FieldEnds
  <2>5. InFields(e, 1)'
    BY <2>1, <2>3, <2>4 DEF InFields
  <2>6. EntryState(e, 1)'
    BY <2>1, <2>5 DEF EntryState
  <2>7. \A f \in 1..LastEntry, m \in 1..13 : Done(Loader)' = Base(f) + m => f = e /\ m = 1
    BY <1>3, <1>4, <1>14
  <2>8. \A f \in DOMAIN Factory :
          vlan'[f] = IF f \in 1..LastEntry /\ EntryStored(f)' THEN Programmed(f) ELSE Factory[f]
    BY <1>12, <1>13, <2>1, <2>2
  <2>9. Loaded'
    BY <1>11, <2>6, <2>7, <2>8 DEF Loaded
  <2> QED
    BY <1>9, <1>10, <2>9 DEF LoaderInv
<1>15. CASE Done(Loader) = Base(e) + 12 /\ Command = StoreWord(e) /\ InFields(e, 12)
  <2>1. /\ vlan' = [vlan EXCEPT ![e] = [f \in Fields |-> mem[<<2, f>>]]]
        /\ \A f \in Fields : mem'[<<2, f>>] = mem[<<2, f>>]
        /\ Command' = StoreWord(e) \ {15}
    BY <1>5, <1>7, <1>15
  <2>2. EntryStored(e)'
    BY <1>3, <1>4, <1>8, <1>15 DEF EntryStored
  <2>3. [f \in Fields |-> mem[<<2, f>>]] = Programmed(e)
    <3>1. [f \in Fields |-> mem[<<2, f>>]] = [f \in Fields |-> Field(e, f, 12)]
      BY <1>15 DEF InFields
    <3> QED
      BY <1>4, <3>1, FieldEnds
  <2>4. InFields(e, 12)'
    BY <1>15, <2>1 DEF InFields
  <2>5. EntryState(e, 12)'
    BY <2>1, <2>4 DEF EntryState
  <2>7. \A f \in 1..LastEntry, m \in 1..13 : Done(Loader)' = Base(f) + m => f = e /\ m = 12
    BY <1>3, <1>4, <1>15
  <2>8. \A f \in DOMAIN Factory :
          vlan'[f] = IF f \in 1..LastEntry /\ EntryStored(f)' THEN Programmed(f) ELSE Factory[f]
    <3>1. vlan' = [vlan EXCEPT ![e] = Programmed(e)]
      BY <2>1, <2>3
    <3>2. \A f \in DOMAIN Factory : vlan'[f] = IF f = e THEN Programmed(e) ELSE vlan[f]
      BY <1>12, <3>1
    <3> QED
      BY <1>12, <1>13, <2>2, <3>2
  <2>9. Loaded'
    BY <1>11, <2>5, <2>7, <2>8 DEF Loaded
  <2> QED
    BY <1>9, <1>10, <2>9 DEF LoaderInv
<1> QED
  BY <1>1, <1>14, <1>15
-----------------------------------------------------------------------------
(* The initial states, and the steps of everybody. *)
LEMMA LoaderInit == DriverInit => LoaderInv
<1> SUFFICES ASSUME DriverInit PROVE LoaderInv
  OBVIOUS
<1>0. /\ Loader \in Threads /\ LastTag \in Nat \ {0} /\ LastEntry \in Nat \ {0}
      /\ op[Loader] = InitOp /\ pc[Loader] = 1 /\ io[Loader] = NoAccess
      /\ mem = [a \in Addrs |-> {}] /\ vlan = Factory
  BY Ip1810Assumption DEF DriverInit, InitOp
<1>1. Done(Loader) = 0
  BY <1>0 DEF Done, NoAccess
<1>2. Fetched
  <2>1. Current(Loader) = Rd(2, 6)
    BY <1>0, NextScript, DemoInitAt DEF Current
  <2>2. Current(Loader).do = "data"
    BY <2>1 DEF Rd, Instruction
  <2> QED
    BY <1>0, <2>2 DEF Fetched, FetchedFor, NoAccess
<1>3. Finished
  <2>1. 13 * LastEntry \in Nat
    BY <1>0
  <2> QED
    BY <1>0, <2>1 DEF Finished, InitOp, NoOp
<1>4. 15 \notin Command
  BY <1>0, Assumed DEF Command, Addrs, TableCommand
<1>5. \A e \in 1..LastEntry, n \in 1..13 : Done(Loader) # Base(e) + n
  <2>1. \A e \in 1..LastEntry : Base(e) \in Nat /\ Base(e) >= 2 + LastTag
    BY BaseUnique
  <2> QED
    BY <1>0, <1>1, <2>1
<1>6. \A e \in 1..LastEntry : ~EntryStored(e)
  <2>1. \A e \in 1..LastEntry : Base(e) \in Nat /\ Base(e) >= 2 + LastTag
    BY BaseUnique
  <2> QED
    BY <1>0, <1>1, <2>1 DEF EntryStored
<1>7. Loaded
  BY <1>0, <1>1, <1>4, <1>5, <1>6 DEF Loaded
<1> QED
  BY <1>2, <1>3, <1>7 DEF LoaderInv

LEMMA LoaderStep ==
  ASSUME Gentle, TableLeftAlone, HostInv, LoaderInv, [DriverNext]_vars
  PROVE  LoaderInv'
<1>0. /\ Loader \in Threads /\ 2 \in Pages
      /\ op \in [Threads -> UserOps \union {NoOp, InitOp}]
      /\ mem \in [Addrs -> Values]
      /\ pc \in [Threads -> Nat \ {0}] /\ local \in [Threads -> [data: Values, tmp: Values]]
  BY Ip1810Assumption, Assumed DEF HostInv, HostType, TypeOK
<1>1. ASSUME NEW t \in Users, Begin(t) PROVE LoaderInv'
  <2>1. t # Loader /\ UNCHANGED <<mem, io, vlan>>
    BY <1>1 DEF Begin, Users, accessVars
  <2>2. op'[Loader] = op[Loader] /\ pc'[Loader] = pc[Loader] /\ local'[Loader] = local[Loader]
    BY <1>0, <1>1, <2>1 DEF Begin
  <2> QED
    BY <2>1, <2>2, LoaderIdle
<1>2. ASSUME NEW t \in Users, PullReset(t) \/ ReleaseReset(t) PROVE FALSE
  BY <1>2, NoReset DEF PullReset, ReleaseReset, Users, HostInv
<1>3. ASSUME NEW t \in Threads, Issue(t) PROVE LoaderInv'
  <2>1. CASE t = Loader
    BY <1>3, <2>1, LoaderIssue
  <2>2. CASE t # Loader
    BY <1>0, <1>3, <2>2, IssueEffect, LoaderIdle
  <2> QED
    BY <2>1, <2>2
<1>4. ASSUME NEW t \in Threads, Shift(t) PROVE LoaderInv'
  <2>1. CASE t = Loader
    BY <1>4, <2>1, LoaderShift
  <2>2. CASE t # Loader
    <3>1. UNCHANGED <<op, pc, local, vlan>>
      BY <1>4 DEF Shift, hostVars
    <3>2. io'[Loader] = io[Loader]
      BY <1>0, <1>4, <2>2, ShiftCases, MovesEffect, WriteEndsEffect, ReadEndsEffect
    <3>3. ASSUME WriteEnds(t), NEW r \in Regs PROVE mem'[<<2, r>>] = mem[<<2, r>>]
      <4>1. io[t].page # 2
        BY <2>2, <3>3, WritesWhat DEF TableLeftAlone
      <4>2. <<2, r>> # <<io[t].page, io[t].reg>>
        BY <4>1
      <4> QED
        BY <1>0, <3>3, <4>2 DEF WriteEnds, Addrs
    <3>4. \A r \in Regs : mem'[<<2, r>>] = mem[<<2, r>>]
      <4>1. WriteEnds(t) \/ mem' = mem
        BY <1>4, ShiftCases DEF Moves, ReadEnds
      <4> QED
        BY <3>3, <4>1
    <3> QED
      BY <3>1, <3>2, <3>4, LoaderIdle
  <2> QED
    BY <2>1, <2>2
<1>5. ASSUME NEW t \in Threads, Complete(t) PROVE LoaderInv'
  <2>1. CASE t = Loader
    BY <1>5, <2>1, LoaderComplete
  <2>2. CASE t # Loader
    BY <1>0, <1>5, <2>2, CompleteEffect, LoaderIdle
  <2> QED
    BY <2>1, <2>2
<1>6. ASSUME NEW t \in Threads, Finish(t) PROVE LoaderInv'
  <2>1. CASE t = Loader
    BY <1>6, <2>1, LoaderFinish
  <2>2. CASE t # Loader
    <3>1. op'[Loader] = op[Loader] /\ UNCHANGED <<mem, io, pc, local, vlan>>
      BY <1>0, <1>6, <2>2 DEF Finish, accessVars
    <3> QED
      BY <3>1, LoaderIdle
  <2> QED
    BY <2>1, <2>2
<1>7. CASE VlanEngine
  BY <1>7, EngineStep
<1>8. CASE PhyEngine
  <2>1. UNCHANGED <<io, op, pc, local, vlan>>
    BY <1>8, Engines DEF hostVars, PhyEngine
  <2>2. \A r \in Regs : mem'[<<2, r>>] = mem[<<2, r>>]
    BY <1>0, <1>8, EnginePages
  <2> QED
    BY <2>1, <2>2, LoaderIdle
<1>9. CASE UNCHANGED vars
  <2>1. UNCHANGED <<io, op, pc, local, vlan, mem>>
    BY <1>9 DEF vars, hostVars, accessVars
  <2> QED
    BY <2>1, LoaderIdle
<1> QED
  BY <1>1, <1>2, <1>3, <1>4, <1>5, <1>6, <1>7, <1>8, <1>9 DEF DriverNext, Host

(* As long as users write nothing to page 2, send no IP2Page without the   *)
(* lock and reset nothing, demo_init of mdio.c, however its accesses and   *)
(* the chip's work interleave with theirs, leaves the switch with tag      *)
(* based VLANs on, every port tagged and every entry of the VLAN table as  *)
(* its comments say, for any number of ports and entries.                  *)
THEOREM Programs ==
  ASSUME Gentle, TableLeftAlone PROVE DriverSpec => []SwitchProgrammed
<1>1. HostInv /\ LoaderInv => SwitchProgrammed
  <2> SUFFICES ASSUME HostInv, LoaderInv, op[Loader] = NoOp
               PROVE  /\ {1, 3} \subseteq mem[<<2, 6>>]
                      /\ \A i \in 0..(LastTag - 1) : mem[<<2, TagReg(i)>>] = TagWord(i)
                      /\ \A i \in DOMAIN Factory :
                           vlan[i] = IF i \in 1..LastEntry THEN Programmed(i) ELSE Factory[i]
    BY DEF SwitchProgrammed
  <2>1. /\ LastTag \in Nat \ {0} /\ LastEntry \in Nat \ {0} /\ Loader \in Threads
        /\ 13 * LastEntry \in Nat
    BY Ip1810Assumption
  <2>2. io[Loader] = NoAccess
    BY <2>1 DEF HostInv, Match, Matched, Running
  <2>3. Done(Loader) = 2 + LastTag + 13 * LastEntry
    BY <2>1, <2>2 DEF Done, NoAccess, LoaderInv, Finished
  <2>4. \A e \in 1..LastEntry : EntryStored(e)
    <3>1. \A e \in 1..LastEntry : Base(e) \in Nat
                                  /\ Base(e) + 13 <= 2 + LastTag + 13 * LastEntry
      BY BaseUnique
    <3> QED
      BY <2>1, <2>3, <3>1 DEF EntryStored
  <2>5. Done(Loader) >= 2 /\ \A i \in 0..(LastTag - 1) : Done(Loader) >= 3 + i
    BY <2>1, <2>3
  <2> QED
    BY <2>4, <2>5 DEF LoaderInv, Loaded
<1> QED
  BY <1>1, HostInit, HostStep, LoaderInit, LoaderStep, PTL DEF DriverSpec
=============================================================================
