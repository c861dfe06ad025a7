-------------------------- MODULE Ip1810AppProofs --------------------------
(***************************************************************************)
(* Proofs about app.c: what its option -e does to the VLAN table, for any  *)
(* number of processes, command lines, ports and entries.                  *)
(***************************************************************************)
EXTENDS Ip1810App, Ip1810ScriptProofs, SequenceTheorems

(* How many instructions come before the loop over the entries, and before *)
(* entry e in it.                                                          *)
Ahead == 9 + LastTag

Base(e) == Ahead + 7 * (e - 1)

(* The member set of entry e. *)
MembersOf(e) == IF e = LastEntry THEN 0..7 ELSE {e - 1}

LEMMA Assumed ==
  /\ LastTag \in Nat \ {0} /\ LastEntry \in Nat \ {0} /\ Ahead \in Nat
  /\ \A e \in 1..LastEntry : Base(e) \in Nat /\ Base(e) >= Ahead
  /\ \A i \in 1..LastTag : TagReg(i - 1) \in 19..46
  /\ TableCommand = 210 /\ Fields = {211, 212, 213, 216}
BY AppAssumption DEF Ahead, Base, TagReg, TableCommand, Fields
-----------------------------------------------------------------------------
(* The instructions of -e, one by one. *)
LEMMA MemberAt ==
  ASSUME NEW e
  PROVE  /\ DOMAIN Member(e) = 1..7 /\ Len(Member(e)) = 7
         /\ Member(e)[1] = Wr(2, TableCommand, FetchWord(e))
         /\ Member(e)[2] = WaitTable
         /\ Member(e)[3] = Wr(2, 211, MembersOf(e))
         /\ Member(e)[4] = Wr(2, 212, Word(4352))
         /\ Member(e)[5] = Wr(2, 216, {15})
         /\ Member(e)[6] = Wr(2, TableCommand, StoreWord(e))
         /\ Member(e)[7] = WaitTable
BY DEF Member, MembersOf, me_mdio_write

LEMMA MemberLength == MemberLen = 7
BY MemberAt DEF MemberLen

LEMMA MembersAt ==
  ASSUME NEW e \in 1..LastEntry, NEW n \in 1..7
  PROVE  7 * (e - 1) + n \in 1..(LastEntry * 7)
         /\ Members(LastEntry)[7 * (e - 1) + n] = Member(e)[n]
<1> DEFINE k == 7 * (e - 1) + n
<1>1. k \in 1..(LastEntry * 7)
  BY AppAssumption
<1>2. (k - 1) \div 7 = e - 1 /\ (k - 1) % 7 = n - 1
  OBVIOUS
<1>3. Members(LastEntry)[k] = Member(((k - 1) \div 7) + 1)[((k - 1) % 7) + 1]
  BY <1>1, MemberLength DEF Members
<1>4. ((k - 1) \div 7) + 1 = e /\ ((k - 1) % 7) + 1 = n
  BY <1>2
<1> QED
  BY <1>1, <1>3, <1>4

(* The first six instructions and those after the ports. *)
First == <<Wr(3, 18, Word(315)), Wr(12, 10, Word(1458)), Rd(2, 6), WrOr(2, 6, {1}),
           Rd(3, 23), Instruction("clear", 3, 23, {6, 7})>>

Third == <<Wr(2, 47, Word(10)), Wr(2, 205, Word(4352)), Wr(2, 206, 0..7)>>

LEMMA FlushParts == Flush = ((First \o PortMembers) \o Third) \o Members(LastEntry)
BY DEF Flush, Setup, First, Third, SetBits, ClearBits, me_mdio_write

(* Two sequences one after the other, element by element. *)
IsSeq(s, S, n) == s \in Seq(S) /\ Len(s) = n /\ n \in Nat

IsJoined(st, s, t, S, n, m) ==
  /\ IsSeq(st, S, n + m)
  /\ \A i \in 1..n : st[i] = s[i]
  /\ \A i \in 1..m : st[n + i] = t[i]

LEMMA Joined ==
  ASSUME NEW S, NEW s, NEW t, NEW n, NEW m, IsSeq(s, S, n), IsSeq(t, S, m)
  PROVE  IsJoined(s \o t, s, t, S, n, m)
<1> USE DEF IsSeq, IsJoined
<1>1. /\ s \o t \in Seq(S) /\ Len(s \o t) = Len(s) + Len(t)
      /\ \A i \in 1..(Len(s) + Len(t)) :
           (s \o t)[i] = IF i <= Len(s) THEN s[i] ELSE t[i - Len(s)]
  BY ConcatProperties
<1>2. \A i \in 1..(n + m) : (s \o t)[i] = IF i <= n THEN s[i] ELSE t[i - n]
  BY <1>1
<1>3. ASSUME NEW i \in 1..m PROVE (s \o t)[n + i] = t[i]
  <2>1. n + i \in 1..(n + m) /\ ~(n + i <= n) /\ (n + i) - n = i
    OBVIOUS
  <2> QED
    BY <1>2, <2>1
<1> QED
  BY <1>1, <1>2, <1>3

LEMMA FlushAt ==
  /\ DOMAIN Flush = 1..(Ahead + 7 * LastEntry)
  /\ \A i \in 1..6 : Flush[i] = First[i]
  /\ \A i \in 1..LastTag : Flush[6 + i] = Wr(2, TagReg(i - 1), Word(i))
  /\ \A i \in 1..3 : Flush[6 + LastTag + i] = Third[i]
  /\ \A e \in 1..LastEntry, n \in 1..7 : Flush[Base(e) + n] = Member(e)[n]
<1> DEFINE S == {First[i] : i \in 1..6} \union {PortMembers[i] : i \in 1..LastTag}
             \union {Third[i] : i \in 1..3}
             \union {Members(LastEntry)[i] : i \in 1..(LastEntry * 7)}
           a == First \o PortMembers
           b == a \o Third
<1>0. LastTag \in Nat /\ LastEntry \in Nat /\ LastEntry * 7 \in Nat
  BY AppAssumption
<1>1. IsSeq(First, S, 6)
  <2>1. First = [i \in 1..6 |-> First[i]]
    BY DEF First
  <2>2. \A i \in 1..6 : First[i] \in S
    OBVIOUS
  <2> HIDE DEF S
  <2> QED
    BY <2>1, <2>2, IsASeq, LenProperties DEF IsSeq
<1>2. IsSeq(PortMembers, S, LastTag)
  <2>1. \A i \in 1..LastTag : PortMembers[i] \in S
    OBVIOUS
  <2>2. PortMembers = [i \in 1..LastTag |-> PortMembers[i]]
    BY DEF PortMembers
  <2> HIDE DEF S
  <2> QED
    BY <1>0, <2>1, <2>2, IsASeq, LenProperties DEF IsSeq
<1>3. IsSeq(Third, S, 3)
  <2>1. Third = [i \in 1..3 |-> Third[i]]
    BY DEF Third
  <2>2. \A i \in 1..3 : Third[i] \in S
    OBVIOUS
  <2> HIDE DEF S
  <2> QED
    BY <2>1, <2>2, IsASeq, LenProperties DEF IsSeq
<1>4. IsSeq(Members(LastEntry), S, LastEntry * 7)
  <2>1. \A i \in 1..(LastEntry * 7) : Members(LastEntry)[i] \in S
    OBVIOUS
  <2>2. Members(LastEntry) = [i \in 1..(LastEntry * 7) |-> Members(LastEntry)[i]]
    BY MemberLength DEF Members
  <2> HIDE DEF S
  <2> QED
    BY <1>0, <2>1, <2>2, IsASeq, LenProperties DEF IsSeq
<1> HIDE DEF S
<1>5. IsJoined(a, First, PortMembers, S, 6, LastTag)
  BY <1>1, <1>2, Joined
<1>6. IsJoined(b, a, Third, S, 6 + LastTag, 3)
  <2>1. IsSeq(a, S, 6 + LastTag)
    BY <1>5 DEF IsJoined
  <2> HIDE DEF a
  <2> QED
    BY <1>3, <2>1, Joined
<1>7. IsJoined(b \o Members(LastEntry), b, Members(LastEntry), S, 6 + LastTag + 3, LastEntry * 7)
  <2>1. IsSeq(b, S, 6 + LastTag + 3)
    BY <1>6 DEF IsJoined
  <2> HIDE DEF b
  <2> QED
    BY <1>4, <2>1, Joined
<1>8. Flush = b \o Members(LastEntry)
  BY FlushParts
<1> HIDE DEF a, b
<1> USE DEF IsJoined, IsSeq
<1>9. DOMAIN Flush = 1..(Ahead + 7 * LastEntry)
  BY <1>0, <1>7, <1>8, LenProperties DEF Ahead
<1>10. \A i \in 1..6 : Flush[i] = First[i]
  BY <1>0, <1>5, <1>6, <1>7, <1>8
<1>11. ASSUME NEW i \in 1..LastTag PROVE Flush[6 + i] = Wr(2, TagReg(i - 1), Word(i))
  <2>1. Flush[6 + i] = PortMembers[i]
    BY <1>0, <1>5, <1>6, <1>7, <1>8
  <2> QED
    BY <2>1 DEF PortMembers, me_mdio_write
<1>12. \A i \in 1..3 : Flush[6 + LastTag + i] = Third[i]
  BY <1>0, <1>6, <1>7, <1>8
<1>13. ASSUME NEW e \in 1..LastEntry, NEW n \in 1..7
       PROVE  Flush[Base(e) + n] = Member(e)[n]
  <2>1. Flush[6 + LastTag + 3 + (7 * (e - 1) + n)] = Members(LastEntry)[7 * (e - 1) + n]
    BY <1>7, <1>8, MembersAt
  <2>2. Base(e) + n = 6 + LastTag + 3 + (7 * (e - 1) + n)
    BY <1>0 DEF Base, Ahead
  <2> QED
    BY <2>1, <2>2, MembersAt
<1> QED
  BY <1>9, <1>10, <1>11, <1>12, <1>13

LEMMA CommandReg == <<2, TableCommand>> \in FlushRegs
<1> DEFINE k == Base(1) + 1
<1>1. 1 \in 1..LastEntry /\ 1 \in 1..7
  BY Assumed
<1>2. Flush[k] = Wr(2, TableCommand, FetchWord(1))
  BY <1>1, FlushAt, MemberAt
<1>3. k \in 1..(Ahead + 7 * LastEntry)
  BY Assumed DEF Base
<1> HIDE DEF k
<1>4. k \in DOMAIN Flush
  BY <1>3, FlushAt
<1> QED
  BY <1>2, <1>4 DEF FlushRegs, Stores, Wr, Instruction

(* Every instruction of -e is one of those. *)
LEMMA Where ==
  ASSUME NEW k \in DOMAIN Flush
  PROVE  \/ k \in 1..6
         \/ \E i \in 1..LastTag : k = 6 + i
         \/ \E i \in 1..3 : k = 6 + LastTag + i
         \/ \E e \in 1..LastEntry, n \in 1..7 : k = Base(e) + n
<1>1. k \in 1..(Ahead + 7 * LastEntry) /\ LastTag \in Nat /\ LastEntry \in Nat
      /\ Ahead = 9 + LastTag
  BY FlushAt, Assumed DEF Ahead
<1>2. CASE k <= 6
  BY <1>1, <1>2
<1>3. CASE k > 6 /\ k <= 6 + LastTag
  <2>1. k - 6 \in 1..LastTag /\ k = 6 + (k - 6)
    BY <1>1, <1>3
  <2> QED
    BY <2>1
<1>4. CASE k > 6 + LastTag /\ k <= 9 + LastTag
  <2>1. k - 6 - LastTag \in 1..3 /\ k = 6 + LastTag + (k - 6 - LastTag)
    BY <1>1, <1>4
  <2> QED
    BY <2>1
<1>5. CASE k > 9 + LastTag
  <2> DEFINE m == k - Ahead - 1
             e == (m \div 7) + 1
             n == (m % 7) + 1
  <2>1. m \in Nat /\ m < 7 * LastEntry /\ k = Ahead + m + 1
    BY <1>1, <1>5
  <2> HIDE DEF m
  <2>2. m = 7 * (m \div 7) + (m % 7) /\ m % 7 \in 0..6 /\ m \div 7 \in Nat
    BY <2>1
  <2>3. e \in 1..LastEntry /\ n \in 1..7
    BY <1>1, <2>1, <2>2
  <2>4. k = Base(e) + n
    BY <1>1, <2>1, <2>2 DEF Base
  <2> QED
    BY <2>3, <2>4
<1> QED
  BY <1>1, <1>2, <1>3, <1>4, <1>5
-----------------------------------------------------------------------------
(* What the steps of a program can do to the chip. *)
Target(i) == <<i.page, i.reg>>

(* An instruction of a command line that spoils no -e. *)
Mild(i) ==
  /\ ~Unlocked(i)
  /\ Stores(i) => Target(i) \notin FlushRegs
  /\ Stores(i) /\ Target(i) = <<12, 0>> => i.do = "store" /\ 4 \notin i.val

LEMMA MildProgram ==
  ASSUME NEW o, ~Harmful(o), NEW k \in DOMAIN Program(o)
  PROVE  Mild(Program(o)[k])
<1>1. Program(o)[k] \in Range(Program(o))
  BY DEF Range
<1> QED
  BY <1>1 DEF Harmful, Mild, Target

(* An instruction of -e: it has the lock, and a table command that it      *)
(* writes names one of the entries of -e.                                  *)
Tame(i) ==
  /\ ~Unlocked(i) /\ i.do # "whileOne"
  /\ Stores(i) => Target(i) # <<12, 0>> /\ Target(i) # <<3, PhyCommand>>
  /\ Stores(i) /\ Target(i) = <<2, TableCommand>> =>
       i.do = "store" /\ \E e \in 1..LastEntry : i.val \in {FetchWord(e), StoreWord(e)}

LEMMA MemberKinds ==
  ASSUME NEW e, NEW n \in 1..7
  PROVE  \/ \E v \in {FetchWord(e), StoreWord(e)} : Member(e)[n] = Wr(2, TableCommand, v)
         \/ Member(e)[n] = WaitTable
         \/ \E f \in {211, 212, 216} : \E v : Member(e)[n] = Wr(2, f, v)
<1>1. n \in {1, 2, 3, 4, 5, 6, 7}
  OBVIOUS
<1> QED
  BY <1>1, MemberAt

LEMMA TameFlush == ASSUME NEW k \in DOMAIN Flush PROVE Tame(Flush[k])
<1> USE DEF Tame, Unlocked, Stores, Target, Instruction, Wr, Rd, WrOr, WaitTable
<1>0. TableCommand = 210 /\ PhyCommand = 19
  BY DEF TableCommand, PhyCommand
<1>1. CASE k \in 1..6
  BY <1>0, <1>1, FlushAt DEF First
<1>2. ASSUME NEW i \in 1..LastTag, k = 6 + i PROVE Tame(Flush[k])
  <2>1. Flush[k] = Wr(2, TagReg(i - 1), Word(i)) /\ TagReg(i - 1) \in 19..46
    BY <1>2, FlushAt, Assumed
  <2> QED
    BY <1>0, <2>1
<1>3. CASE \E i \in 1..3 : k = 6 + LastTag + i
  BY <1>0, <1>3, FlushAt DEF Third
<1>4. ASSUME NEW e \in 1..LastEntry, NEW n \in 1..7, k = Base(e) + n PROVE Tame(Flush[k])
  <2>1. Flush[k] = Member(e)[n]
    BY <1>4, FlushAt
  <2>2. CASE \E v \in {FetchWord(e), StoreWord(e)} : Flush[k] = Wr(2, TableCommand, v)
    BY <1>0, <2>2
  <2>3. CASE Flush[k] = WaitTable
    BY <2>3
  <2>4. CASE \E f \in {211, 212, 216} : \E v : Flush[k] = Wr(2, f, v)
    BY <1>0, <2>4
  <2> HIDE DEF Tame, Unlocked, Stores, Target, Instruction, Wr, Rd, WrOr, WaitTable
  <2> QED
    BY <2>1, <2>2, <2>3, <2>4, MemberKinds
<1> QED
  BY <1>1, <1>2, <1>3, <1>4, Where

LEMMA FlushProgram == ASSUME NEW o, o.name = "-e" PROVE Program(o) = Flush
BY DEF Program
-----------------------------------------------------------------------------
(* The invariant that everything below needs: the shapes of the variables, *)
(* and who may be in a register access.                                    *)
Shaped(table) == table = [e \in DOMAIN Factory |-> [f \in Fields |-> table[e][f]]]

Shapes ==
  /\ mem = [a \in Regs |-> mem[a]] /\ Shaped(vlan)
  /\ run = [c \in Clients |-> run[c]] /\ status = [c \in Clients |-> status[c]]
  /\ pc = [c \in Clients |-> pc[c]] /\ opened = [c \in Clients |-> opened[c]]
  /\ was = [c \in Clients |-> was[c]] /\ \A c \in Clients : Shaped(was[c])

Roles ==
  /\ \A c \in Clients : status[c] = "new" => run[c] = NotRun /\ pc[c] = 1
  /\ \A c \in Clients : status[c] # "new" => run[c] \in CommandLines[c]
  /\ \A c \in busy : c \in Running /\ opened[c] /\ Left(c)

Sound == Shapes /\ Roles

LEMMA SoundInit == Init => Sound
<1> SUFFICES ASSUME Init PROVE Sound
  OBVIOUS
<1>1. Shaped(Factory)
  BY AppAssumption DEF Shaped
<1>2. Shapes
  BY <1>1 DEF Init, Shapes
<1>3. Roles
  BY DEF Init, Roles
<1> QED
  BY <1>2, <1>3 DEF Sound

(* The table engine keeps the shapes, and changes registers of the table   *)
(* only; without a command to store it changes no entry.                   *)
LEMMA EngineShapes ==
  ASSUME Shapes, VlanEngine
  PROVE  /\ mem' = [a \in Regs |-> mem'[a]] /\ Shaped(vlan')
         /\ mem'[<<2, TableCommand>>] = mem[<<2, TableCommand>>] \ {15}
         /\ mem'[<<12, 0>>] = mem[<<12, 0>>]
         /\ 14 \notin mem[<<2, TableCommand>>] => vlan' = vlan
<1> DEFINE cmd == mem[<<2, TableCommand>>]
           idle == [mem EXCEPT ![<<2, TableCommand>>] = cmd \ {15}]
           fields == [f \in Fields |-> mem[<<2, f>>]]
           x == CHOOSE x \in Entry(cmd, vlan) : TRUE
           fetched == [a \in DOMAIN mem |-> IF a[1] = 2 /\ a[2] \in Fields
                                            THEN vlan[x][a[2]] ELSE idle[a]]
           stored == [i \in DOMAIN vlan |-> IF i \in Entry(cmd, vlan) THEN fields ELSE vlan[i]]
<1>0. /\ mem = [a \in Regs |-> mem[a]] /\ DOMAIN mem = Regs
      /\ Shaped(vlan) /\ DOMAIN vlan = DOMAIN Factory
      /\ <<2, TableCommand>> \in Regs /\ <<12, 0>> \in Regs
      /\ TableCommand = 210 /\ Fields = {211, 212, 213, 216}
  BY CommandReg, AppAssumption, Assumed DEF Shapes, Shaped
<1>1. /\ idle[<<2, TableCommand>>] = cmd \ {15} /\ idle[<<12, 0>>] = mem[<<12, 0>>]
      /\ idle = [a \in Regs |-> idle[a]]
  BY <1>0
<1>2. /\ fetched[<<2, TableCommand>>] = cmd \ {15} /\ fetched[<<12, 0>>] = mem[<<12, 0>>]
      /\ fetched = [a \in Regs |-> fetched[a]]
  <2> HIDE DEF x, idle
  <2>1. \A a \in Regs : fetched[a] = IF a[1] = 2 /\ a[2] \in Fields
                                      THEN vlan[x][a[2]] ELSE idle[a]
    BY <1>0
  <2>2. fetched = [a \in Regs |-> fetched[a]]
    BY <1>0
  <2> HIDE DEF fetched
  <2> QED
    BY <1>0, <1>1, <2>1, <2>2
<1>3. Shaped(stored)
  <2>1. \A i \in DOMAIN Factory : vlan[i] = [f \in Fields |-> vlan[i][f]]
    BY <1>0 DEF Shaped
  <2> DEFINE In(i) == i \in Entry(cmd, vlan)
  <2>2. stored = [i \in DOMAIN Factory |-> IF In(i) THEN fields ELSE vlan[i]]
    BY <1>0
  <2>3. fields = [f \in Fields |-> fields[f]]
    OBVIOUS
  <2> HIDE DEF In, fields, stored
  <2>4. \A i \in DOMAIN Factory : stored[i] = [f \in Fields |-> stored[i][f]]
    BY <2>1, <2>2, <2>3
  <2> QED
    BY <2>2, <2>4 DEF Shaped
<1>4. mem' = TableDone(mem, vlan).mem /\ vlan' = TableDone(mem, vlan).vlan
  BY DEF VlanEngine
<1>5. \/ 14 \in cmd /\ TableDone(mem, vlan) = [mem |-> idle, vlan |-> stored]
      \/ TableDone(mem, vlan) = [mem |-> fetched, vlan |-> vlan]
      \/ TableDone(mem, vlan) = [mem |-> idle, vlan |-> vlan]
  BY DEF TableDone
<1> HIDE DEF idle, stored, fetched
<1>6. \/ 14 \in cmd /\ mem' = idle /\ vlan' = stored
      \/ mem' = fetched /\ vlan' = vlan
      \/ mem' = idle /\ vlan' = vlan
  BY <1>4, <1>5
<1>7. (mem' = idle \/ mem' = fetched)
  BY <1>6
<1>8. Shaped(vlan') /\ (14 \notin cmd => vlan' = vlan)
  BY <1>0, <1>3, <1>6
<1> QED
  BY <1>1, <1>2, <1>7, <1>8 DEF cmd

(* The steps of process c in the three ways they can touch what Roles is   *)
(* about: it ends, its access ends, or nothing of it changes.              *)
Ends(c) ==
  /\ status[c] = "running" /\ (~opened[c] \/ c \notin busy \/ ~Left(c))
  /\ \E how : status' = [status EXCEPT ![c] = how] /\ how # "new" /\ how # "running"
  /\ UNCHANGED <<mem, vlan, run, pc, opened, busy, exposed, disturbed, was>>

Done(c) ==
  /\ c \in busy /\ Leave(c) /\ \E n : pc' = [pc EXCEPT ![c] = n]
  /\ UNCHANGED <<run, status, opened, disturbed, was>>

LEMMA Endings ==
  ASSUME NEW c, NoDevice(c) \/ NullArgument(c) \/ Exit(c)
  PROVE  Ends(c)
<1> USE DEF End, Ends, chipVars, historyVars
<1>1. CASE NoDevice(c)
  BY <1>1 DEF NoDevice
<1>2. CASE NullArgument(c)
  BY <1>2 DEF NullArgument
<1>3. CASE Exit(c)
  <2> DEFINE how == IF run[c].name = "-p" THEN "failed" ELSE "ended"
  <2>1. status' = [status EXCEPT ![c] = how]
    BY <1>3 DEF Exit
  <2>2. how \in {"failed", "ended"}
    OBVIOUS
  <2> HIDE DEF how
  <2> QED
    BY <1>3, <2>1, <2>2 DEF Exit
<1> QED
  BY <1>1, <1>2, <1>3

LEMMA Accesses ==
  ASSUME NEW c, Write(c) \/ Read(c) \/ EndUnlocked(c)
  PROVE  Done(c)
<1> USE DEF Done, historyVars, chipVars
<1>1. CASE Write(c)
  BY <1>1 DEF Write
<1>2. CASE Read(c)
  BY <1>2 DEF Read
<1>3. CASE EndUnlocked(c)
  BY <1>3 DEF EndUnlocked
<1> QED
  BY <1>1, <1>2, <1>3

(* The chip's own steps leave the processes alone. *)
Chip == VlanEngine \/ PhyEngine \/ SoftReset

LEMMA ChipAlone ==
  ASSUME Chip
  PROVE  UNCHANGED <<run, status, pc, data, opened, busy, exposed, spoilt, disturbed, was>>
BY DEF Chip, VlanEngine, PhyEngine, SoftReset, historyVars

LEMMA RolesStep == ASSUME Sound, [Next]_vars PROVE Roles'
<1> USE DEF Sound, Running
<1>1. ASSUME NEW c \in Clients, Exec(c) PROVE Roles'
  BY <1>1 DEF Roles, Shapes, Exec, Left
<1>2. ASSUME NEW c \in Clients, Ends(c) PROVE Roles'
  <2>1. PICK how : status' = [status EXCEPT ![c] = how] /\ how # "new" /\ how # "running"
    BY <1>2 DEF Ends
  <2>2. /\ status[c] = "running" /\ (~opened[c] \/ c \notin busy \/ ~Left(c))
        /\ UNCHANGED <<run, pc, opened, busy>>
    BY <1>2 DEF Ends
  <2>3. \A u \in Clients : status'[u] = IF u = c THEN how ELSE status[u]
    BY <2>1 DEF Shapes
  <2>4. \A u \in Clients : Left(u)' <=> Left(u)
    BY <2>2 DEF Left
  <2> QED
    BY <2>1, <2>2, <2>3, <2>4 DEF Roles
<1>3. ASSUME NEW c \in Clients, Issue(c) PROVE Roles'
  BY <1>3 DEF Roles, Shapes, Issue, Left, historyVars
<1>4. ASSUME NEW c \in Clients, Done(c) PROVE Roles'
  BY <1>4 DEF Roles, Shapes, Done, Left, Leave
<1>5. CASE Chip
  BY <1>5, ChipAlone DEF Roles, Left
<1>6. CASE UNCHANGED vars
  BY <1>6 DEF vars, Roles, Left, historyVars
<1> QED
  BY <1>1, <1>2, <1>3, <1>4, <1>5, <1>6, Endings, Accesses DEF Next, Main, Chip

LEMMA ShapesStep == ASSUME Sound, [Next]_vars PROVE Shapes'
<1> USE DEF Sound
<1>0. Shaped(Factory)
  BY AppAssumption DEF Shaped
<1>1. ASSUME NEW c \in Clients, Exec(c) PROVE Shapes'
  BY <1>1 DEF Shapes, Exec, chipVars
<1>2. ASSUME NEW c \in Clients, Ends(c) PROVE Shapes'
  BY <1>2 DEF Shapes, Ends
<1>3. ASSUME NEW c \in Clients, Issue(c) PROVE Shapes'
  BY <1>3 DEF Shapes, Issue, chipVars, historyVars
<1>4. ASSUME NEW c \in Clients, Write(c) \/ Read(c) \/ EndUnlocked(c) PROVE Shapes'
  <2>1. mem' = [a \in Regs |-> mem'[a]] /\ Shaped(vlan')
    <3>1. CASE Write(c)
      BY <3>1 DEF Write, Shapes
    <3>2. CASE Read(c)
      BY <3>2 DEF Read, Shapes, chipVars
    <3>3. CASE EndUnlocked(c)
      BY <1>0, <3>3 DEF EndUnlocked, Shapes, chipVars
    <3> QED
      BY <1>4, <3>1, <3>2, <3>3
  <2>2. Done(c)
    BY <1>4, Accesses
  <2> QED
    BY <2>1, <2>2 DEF Shapes, Done
<1>5. CASE Chip
  <2>1. mem' = [a \in Regs |-> mem'[a]] /\ Shaped(vlan')
    <3>1. CASE VlanEngine
      BY <3>1, EngineShapes
    <3>2. CASE PhyEngine
      BY <3>2 DEF PhyEngine, Shapes
    <3>3. CASE SoftReset
      BY <1>0, <3>3 DEF SoftReset, Shapes
    <3> QED
      BY <1>5, <3>1, <3>2, <3>3 DEF Chip
  <2> QED
    BY <1>5, <2>1, ChipAlone DEF Shapes
<1>6. CASE UNCHANGED vars
  BY <1>6 DEF vars, Shapes, chipVars, historyVars
<1> QED
  BY <1>1, <1>2, <1>3, <1>4, <1>5, <1>6, Endings DEF Next, Main, Chip

LEMMA SoundStep == ASSUME Sound, [Next]_vars PROVE Sound'
BY RolesStep, ShapesStep DEF Sound
-----------------------------------------------------------------------------
(* Nothing but -e and what cannot spoil it has been started: then no       *)
(* access is ever garbled, nothing resets the chip, and a command to store *)
(* names an entry of -e.                                                   *)
Clean == \A c \in Clients : run[c].name \in {"none", "-e"} \/ ~Harmful(run[c])

Command == mem[<<2, TableCommand>>]

Tidy ==
  /\ exposed = {} /\ 4 \notin mem[<<12, 0>>]
  /\ 14 \in Command => \E e \in 1..LastEntry : Command \ {14, 15} = Word(e)
  /\ \A i \in DOMAIN Factory \ 1..LastEntry : vlan[i] = Factory[i]

LEMMA CleanBack == ASSUME Sound, [Next]_vars, Clean' PROVE Clean
<1>1. ASSUME NEW c \in Clients, Exec(c) PROVE Clean
  <2>1. run[c].name = "none"
    BY <1>1 DEF Exec, Sound, Roles, NotRun
  <2>2. \A u \in Clients : u # c => run'[u] = run[u]
    BY <1>1 DEF Exec, Sound, Shapes
  <2> QED
    BY <2>1, <2>2 DEF Clean
<1>2. CASE run' = run
  BY <1>2 DEF Clean
<1>3. ASSUME NEW c \in Clients, Ends(c) \/ Issue(c) \/ Done(c) PROVE run' = run
  BY <1>3 DEF Ends, Issue, Done
<1>4. CASE Chip
  BY <1>2, <1>4, ChipAlone
<1>5. CASE UNCHANGED vars
  BY <1>2, <1>5 DEF vars
<1> QED
  BY <1>1, <1>2, <1>3, <1>4, <1>5, Endings, Accesses DEF Next, Main, Chip

(* What an instruction of a clean program is like. *)
Gentle(i) ==
  /\ ~Unlocked(i)
  /\ Stores(i) /\ Target(i) = <<12, 0>> => i.do = "store" /\ 4 \notin i.val
  /\ Stores(i) /\ Target(i) = <<2, TableCommand>> =>
       i.do = "store" /\ \E e \in 1..LastEntry : i.val \in {FetchWord(e), StoreWord(e)}

LEMMA GentleSteps ==
  ASSUME Sound, Clean, NEW c \in Running, Left(c)
  PROVE  Gentle(Current(c))
<1>1. run[c].name # "none"
  BY AppAssumption DEF Sound, Roles, Running
<1>2. CASE run[c].name = "-e"
  BY <1>2, FlushProgram, TameFlush DEF Left, Current, Gentle, Tame
<1>3. CASE ~Harmful(run[c])
  BY <1>3, MildProgram, CommandReg DEF Left, Current, Gentle, Mild
<1> QED
  BY <1>1, <1>2, <1>3 DEF Clean, Running

(* No access overlaps unlocked frames, if no process sends any. *)
LEMMA StaysUnexposed ==
  ASSUME Sound, exposed = {}, NEW c \in Clients, Issue(c),
         \A u \in Running : Left(u) => ~Unlocked(Current(u))
  PROVE  exposed' = {}
BY DEF Sound, Roles, Issue, Running

(* A command register that names an entry of -e names no other one. *)
LEMMA Indexed ==
  ASSUME Sound, NEW e \in 1..LastEntry, Command \ {14, 15} = Word(e)
  PROVE  Names(mem, vlan, e)
<1>1. /\ mem = [a \in Regs |-> mem[a]] /\ \A a \in Regs : a = <<a[1], a[2]>>
      /\ vlan = [i \in DOMAIN Factory |-> vlan[i]] /\ e \in DOMAIN Factory
      /\ <<2, TableCommand>> \in Regs /\ \A f \in Fields : <<2, f>> \in Regs
  BY CommandReg, AppAssumption DEF Sound, Shapes, Shaped, FlushRegs
<1>2. \A f \in DOMAIN Factory : Word(f) = Word(e) => f = e
  BY <1>1, WordInjective, AppAssumption
<1> QED
  BY <1>1, <1>2 DEF Names, Command

LEMMA TidyStep == ASSUME Sound, Clean, Tidy, [Next]_vars PROVE Tidy'
<1> USE DEF Command
<1>0. /\ mem = [a \in Regs |-> mem[a]] /\ <<2, TableCommand>> \in Regs /\ <<12, 0>> \in Regs
      /\ <<2, TableCommand>> # <<12, 0>> /\ <<2, TableCommand>> # <<3, PhyCommand>>
      /\ <<12, 0>> # <<3, PhyCommand>>
  BY CommandReg, AppAssumption DEF Sound, Shapes
<1>1. ASSUME UNCHANGED <<mem, vlan, exposed>> PROVE Tidy'
  BY <1>1 DEF Tidy
<1>2. ASSUME NEW c \in Clients, Issue(c) PROVE Tidy'
  <2>1. exposed' = {}
    BY <1>2, GentleSteps, StaysUnexposed DEF Tidy, Gentle
  <2> QED
    BY <1>2, <2>1 DEF Tidy, Issue, chipVars
<1>3. ASSUME NEW c \in Clients, Write(c) PROVE Tidy'
  <2> DEFINE i == Current(c)
  <2>1. Gentle(i) /\ Stores(i)
    BY <1>3, GentleSteps DEF Write, Sound, Roles
  <2>2. /\ mem' = [mem EXCEPT ![Target(i)] = Written(c)] /\ vlan' = vlan
        /\ exposed' = {}
    BY <1>3 DEF Write, Spoilt, Tidy, Target, Leave
  <2>3. i.do = "store" => Written(c) = i.val
    BY DEF Written
  <2> HIDE DEF i
  <2>4. 4 \notin mem'[<<12, 0>>]
    <3>1. CASE Target(i) = <<12, 0>>
      BY <1>0, <2>1, <2>2, <2>3, <3>1 DEF Gentle
    <3>2. CASE Target(i) # <<12, 0>>
      BY <1>0, <2>2, <3>2 DEF Tidy
    <3> QED
      BY <3>1, <3>2
  <2>5. (14 \in Command => \E e \in 1..LastEntry : Command \ {14, 15} = Word(e))'
    <3>1. CASE Target(i) = <<2, TableCommand>>
      <4>1. PICK e \in 1..LastEntry : i.val \in {FetchWord(e), StoreWord(e)}
        BY <2>1, <3>1 DEF Gentle
      <4>2. e \in Nat /\ e < 16384
        BY AppAssumption
      <4>3. i.val \ {14, 15} = Word(e)
        BY <4>1, <4>2, CommandWords
      <4>4. mem'[<<2, TableCommand>>] = i.val
        BY <1>0, <2>1, <2>2, <2>3, <3>1 DEF Gentle
      <4> QED
        BY <4>3, <4>4
    <3>2. CASE Target(i) # <<2, TableCommand>>
      <4>1. mem'[<<2, TableCommand>>] = mem[<<2, TableCommand>>]
        BY <1>0, <2>2, <3>2
      <4> QED
        BY <4>1 DEF Tidy
    <3> QED
      BY <3>1, <3>2
  <2> QED
    BY <2>2, <2>4, <2>5 DEF Tidy
<1>4. ASSUME NEW c \in Clients, Read(c) PROVE Tidy'
  BY <1>4 DEF Read, Leave, chipVars, Tidy
<1>5. ASSUME NEW c \in Clients, EndUnlocked(c) PROVE Tidy'
  BY <1>5, GentleSteps DEF EndUnlocked, Sound, Roles, Gentle
<1>6. CASE VlanEngine
  <2>1. /\ mem'[<<2, TableCommand>>] = mem[<<2, TableCommand>>] \ {15}
        /\ mem'[<<12, 0>>] = mem[<<12, 0>>]
        /\ 14 \notin mem[<<2, TableCommand>>] => vlan' = vlan
    BY <1>6, EngineShapes DEF Sound
  <2>2. exposed' = exposed
    BY <1>6, ChipAlone DEF Chip
  <2>3. (14 \in Command => \E e \in 1..LastEntry : Command \ {14, 15} = Word(e))'
    <3>1. (Command \ {14, 15})' = Command \ {14, 15} /\ (14 \in Command' <=> 14 \in Command)
      BY <2>1
    <3> QED
      BY <3>1 DEF Tidy
  <2>4. ASSUME NEW i \in DOMAIN Factory \ 1..LastEntry PROVE vlan'[i] = vlan[i]
    <3>1. CASE 14 \in Command
      <4>1. PICK e \in 1..LastEntry : Command \ {14, 15} = Word(e)
        BY <3>1 DEF Tidy
      <4>2. Names(mem, vlan, e)
        BY <4>1, Indexed DEF Sound
      <4>3. Carries(mem, vlan, e, TableDone(mem, vlan))
        BY <4>2, TableEffect
      <4>4. vlan' = [vlan EXCEPT ![e] = [f \in Fields |-> mem[<<2, f>>]]]
        BY <1>6, <3>1, <4>3 DEF VlanEngine, Carries, Puts
      <4> QED
        BY <4>4 DEF Sound, Shapes, Shaped
    <3>2. CASE 14 \notin Command
      BY <2>1, <3>2
    <3> QED
      BY <3>1, <3>2
  <2> QED
    BY <2>1, <2>2, <2>3, <2>4 DEF Tidy
<1>7. CASE PhyEngine
  BY <1>0, <1>7 DEF PhyEngine, Tidy
<1>8. CASE SoftReset
  BY <1>0, <1>8 DEF SoftReset, Tidy
<1>9. ASSUME NEW c \in Clients, Exec(c) \/ Ends(c) PROVE Tidy'
  BY <1>1, <1>9 DEF Exec, Ends, chipVars
<1>10. CASE UNCHANGED vars
  BY <1>1, <1>10 DEF vars, chipVars
<1> QED
  BY <1>2, <1>3, <1>4, <1>5, <1>6, <1>7, <1>8, <1>9, <1>10, Endings DEF Next, Main

KeptInv == Sound /\ (Clean => Tidy)

(* Processes that flush at the same time may mix up the entries they name, *)
(* but no entry beyond those is ever touched (the loop of -e in app.c):    *)
(* for any number of processes, entries and command lines.                 *)
THEOREM NeverBeyond == Spec => []OthersKept
<1>1. Init => KeptInv
  <2>1. Init => Tidy
    BY CommandReg, AppAssumption DEF Init, Tidy, Command
  <2> QED
    BY <2>1, SoundInit DEF KeptInv
<1>2. KeptInv /\ [Next]_vars => KeptInv'
  BY SoundStep, CleanBack, TidyStep DEF KeptInv
<1>3. KeptInv => OthersKept
  BY DEF KeptInv, Clean, Tidy, OthersKept
<1> QED
  BY <1>1, <1>2, <1>3, PTL DEF Spec
-----------------------------------------------------------------------------
(* What is true of the chip when a -e that nothing disturbs has carried    *)
(* out its first k instructions; old is the VLAN table it began with.      *)
Cmd(regs) == regs[<<2, TableCommand>>]

(* The fields of entry e when its first n instructions have been carried   *)
(* out and the chip has fetched it.                                        *)
SetBy(f) == IF f = 211 THEN 3 ELSE IF f = 212 THEN 4 ELSE IF f = 216 THEN 5 ELSE 9

NewField(e, f) ==
  IF f = 211 THEN MembersOf(e) ELSE IF f = 212 THEN Word(4352) ELSE {15}

FieldsAt(old, e, n) ==
  [f \in Fields |-> IF n >= SetBy(f) THEN NewField(e, f) ELSE old[e][f]]

EntryState(regs, old, e, n) ==
  /\ n = 1 => Cmd(regs) \in {FetchWord(e), Word(e)}
  /\ n \in 2..5 => Cmd(regs) = Word(e)
  /\ n = 6 => Cmd(regs) \in {StoreWord(e), StoreWord(e) \ {15}}
  /\ n = 7 => 15 \notin Cmd(regs)
  /\ n \in 1..6 /\ Cmd(regs) # FetchWord(e) =>
       \A f \in Fields : regs[<<2, f>>] = FieldsAt(old, e, n)[f]

(* The chip has stored entry i. *)
Stored(regs, k, i) ==
  i \in 1..LastEntry /\ (k >= Base(i) + 7 \/ (k = Base(i) + 6 /\ 15 \notin Cmd(regs)))

PortsState(regs, k) ==
  /\ k >= 4 => 1 \in regs[<<2, 6>>]
  /\ k >= 6 => regs[<<3, 23>>] \intersect {6, 7} = {}
  /\ \A i \in 1..LastTag : k >= 6 + i => regs[<<2, TagReg(i - 1)>>] = Word(i)

CommandState(regs, old, k) ==
  /\ k <= Ahead => 15 \notin Cmd(regs)
  /\ \A e \in 1..LastEntry, n \in 1..7 : k = Base(e) + n => EntryState(regs, old, e, n)

TableState(regs, table, old, k) ==
  \A i \in DOMAIN Factory :
    table[i] = IF Stored(regs, k, i) THEN FieldsAt(old, i, 7) ELSE old[i]

FlushState(regs, table, old, k) ==
  /\ PortsState(regs, k) /\ CommandState(regs, old, k) /\ TableState(regs, table, old, k)

LastStep == Ahead + 7 * LastEntry

(* Registers of the state, and that they are registers of -e. *)
LEMMA StateRegs ==
  /\ <<2, 6>> \in FlushRegs /\ <<3, 23>> \in FlushRegs
  /\ \A i \in 1..LastTag : <<2, TagReg(i - 1)>> \in FlushRegs
  /\ <<2, TableCommand>> \in FlushRegs /\ \A f \in Fields : <<2, f>> \in FlushRegs
<1> USE DEF FlushRegs
<1>0. 4 \in DOMAIN Flush /\ 6 \in DOMAIN Flush /\ \A i \in 1..LastTag : 6 + i \in DOMAIN Flush
  <2>1. LastTag \in Nat /\ LastEntry \in Nat /\ Ahead = 9 + LastTag
    BY Assumed DEF Ahead
  <2> QED
    BY <2>1, FlushAt
<1>1. Flush[4] = WrOr(2, 6, {1}) /\ Flush[6] = Instruction("clear", 3, 23, {6, 7})
  BY FlushAt DEF First
<1>2. <<2, 6>> \in FlushRegs /\ <<3, 23>> \in FlushRegs
  BY <1>0, <1>1 DEF Stores, WrOr, Instruction
<1>3. ASSUME NEW i \in 1..LastTag PROVE <<2, TagReg(i - 1)>> \in FlushRegs
  <2>1. Flush[6 + i] = Wr(2, TagReg(i - 1), Word(i))
    BY FlushAt
  <2> QED
    BY <1>0, <2>1 DEF Stores, Wr, Instruction
<1> QED
  BY <1>2, <1>3, CommandReg

(* Who writes none of those registers does not disturb it. *)
LEMMA Untouched ==
  ASSUME NEW regs, NEW after, NEW table, NEW old, NEW k,
         FlushState(regs, table, old, k), \A a \in FlushRegs : after[a] = regs[a]
  PROVE  FlushState(after, table, old, k)
<1>1. /\ after[<<2, 6>>] = regs[<<2, 6>>] /\ after[<<3, 23>>] = regs[<<3, 23>>]
      /\ \A i \in 1..LastTag : after[<<2, TagReg(i - 1)>>] = regs[<<2, TagReg(i - 1)>>]
      /\ Cmd(after) = Cmd(regs) /\ \A f \in Fields : after[<<2, f>>] = regs[<<2, f>>]
  BY StateRegs DEF Cmd
<1>2. PortsState(after, k)
  BY <1>1 DEF FlushState, PortsState
<1>3. CommandState(after, old, k)
  BY <1>1 DEF FlushState, CommandState, EntryState
<1>4. TableState(after, table, old, k)
  BY <1>1 DEF FlushState, TableState, Stored
<1> QED
  BY <1>2, <1>3, <1>4 DEF FlushState

(* An instruction of -e that is carried out without harm. *)
Effect(i, regs, after) ==
  \/ ~Stores(i) /\ after = regs /\ (i.do = "whileBusy" => 15 \notin regs[Target(i)])
  \/ /\ Stores(i)
     /\ \E v : /\ after = [regs EXCEPT ![Target(i)] = v]
               /\ i.do = "store" => v = i.val
               /\ i.do = "or" => i.val \subseteq v
               /\ i.do = "clear" => v \intersect i.val = {}

(* The table is not touched before the loop over the entries. *)
LEMMA SameStored ==
  ASSUME NEW regs, NEW after, NEW k \in Nat, k + 1 <= Ahead, NEW i
  PROVE  ~Stored(regs, k, i) /\ ~Stored(after, k + 1, i)
BY Assumed DEF Stored

LEMMA NoEntryYet ==
  ASSUME NEW regs, NEW after, NEW table, NEW old, NEW k \in Nat, k + 1 <= Ahead,
         FlushState(regs, table, old, k), Cmd(after) = Cmd(regs)
  PROVE  CommandState(after, old, k + 1) /\ TableState(after, table, old, k + 1)
<1>1. CommandState(after, old, k + 1)
  BY Assumed DEF CommandState, FlushState
<1>2. TableState(after, table, old, k + 1)
  BY SameStored DEF TableState, FlushState
<1> QED
  BY <1>1, <1>2

(* A write to one register leaves the others alone, and sets that one. *)
Sets(regs, after, p, r, v) ==
  after[<<p, r>>] = v /\ \A a \in FlushRegs : a # <<p, r>> => after[a] = regs[a]

LEMMA WriteEffect ==
  ASSUME NEW regs, NEW after, NEW p, NEW r, NEW v, regs = [a \in Regs |-> regs[a]],
         <<p, r>> \in FlushRegs, Effect(Wr(p, r, v), regs, after)
  PROVE  Sets(regs, after, p, r, v)
BY AppAssumption DEF Effect, Stores, Target, Wr, Instruction, Sets

LEMMA ReadEffect ==
  ASSUME NEW regs, NEW after, NEW p, NEW r, Effect(Rd(p, r), regs, after)
  PROVE  after = regs
BY DEF Effect, Stores, Rd, Instruction

LEMMA WaitEffect ==
  ASSUME NEW regs, NEW after, Effect(WaitTable, regs, after)
  PROVE  after = regs /\ 15 \notin Cmd(regs)
BY DEF Effect, Stores, WaitTable, Instruction, Target, Cmd

(* The registers of the state are different registers. *)
LEMMA Apart ==
  /\ \A i \in 1..LastTag :
       /\ <<2, TagReg(i - 1)>> # <<2, 6>> /\ <<2, TagReg(i - 1)>> # <<3, 23>>
       /\ <<2, TagReg(i - 1)>> # <<2, TableCommand>>
       /\ \A j \in 1..LastTag : <<2, TagReg(i - 1)>> = <<2, TagReg(j - 1)>> => i = j
       /\ \A r \in {47, 205, 206, 211, 212, 213, 216} : <<2, TagReg(i - 1)>> # <<2, r>>
  /\ <<2, 6>> # <<3, 23>> /\ <<2, 6>> # <<2, TableCommand>> /\ <<3, 23>> # <<2, TableCommand>>
<1>1. \A i \in 1..LastTag : TagReg(i - 1) \in 19..46 /\ TagReg(i - 1) = 18 + i
  BY Assumed DEF TagReg
<1> QED
  BY <1>1, Assumed

LEMMA FirstStep ==
  ASSUME NEW regs, NEW after, NEW table, NEW old, NEW k \in 0..5,
         regs = [a \in Regs |-> regs[a]], FlushState(regs, table, old, k),
         Effect(Flush[k + 1], regs, after)
  PROVE  FlushState(after, table, old, k + 1)
<1> DEFINE i == First[k + 1]
<1>1. k + 1 \in 1..6 /\ k + 1 <= Ahead /\ k \in Nat /\ LastTag \in Nat
  BY Assumed DEF Ahead
<1>2. Effect(i, regs, after)
  BY <1>1, FlushAt
<1>3. <<2, TableCommand>> \in Regs /\ <<2, 6>> \in Regs /\ <<3, 23>> \in Regs
  BY StateRegs, AppAssumption
<1>4. /\ Cmd(after) = Cmd(regs)
      /\ k + 1 >= 4 => 1 \in after[<<2, 6>>]
      /\ k + 1 >= 6 => after[<<3, 23>>] \intersect {6, 7} = {}
  <2>0. k \in {0, 1, 2, 3, 4, 5} /\ (k >= 4 => 1 \in regs[<<2, 6>>])
    BY DEF FlushState, PortsState
  <2> USE DEF Effect, Stores, Target, First, Wr, Rd, WrOr, Instruction, Cmd
  <2>1. CASE k = 0
    BY <1>2, <1>3, <2>1, Assumed
  <2>2. CASE k = 1
    BY <1>2, <1>3, <2>2, Assumed
  <2>3. CASE k = 2 \/ k = 4
    BY <1>2, <1>3, <2>0, <2>3
  <2>4. CASE k = 3
    <3>1. i = WrOr(2, 6, {1})
      BY <2>4
    <3> HIDE DEF i, First
    <3>2. PICK v : after = [regs EXCEPT ![<<2, 6>>] = v] /\ {1} \subseteq v
      BY <1>2, <3>1
    <3> QED
      BY <1>3, <2>4, <3>2, Apart
  <2>5. CASE k = 5
    <3>1. i = Instruction("clear", 3, 23, {6, 7})
      BY <2>5
    <3> HIDE DEF i, First
    <3>2. PICK v : after = [regs EXCEPT ![<<3, 23>>] = v] /\ v \intersect {6, 7} = {}
      BY <1>2, <3>1
    <3> QED
      BY <1>3, <2>0, <2>5, <3>2, Apart
  <2> QED
    BY <2>0, <2>1, <2>2, <2>3, <2>4, <2>5
<1>5. PortsState(after, k + 1)
  BY <1>1, <1>4 DEF PortsState
<1> QED
  BY <1>1, <1>4, <1>5, NoEntryYet DEF FlushState

LEMMA PortStep ==
  ASSUME NEW regs, NEW after, NEW table, NEW old, NEW j \in 1..LastTag,
         regs = [a \in Regs |-> regs[a]], FlushState(regs, table, old, 5 + j),
         Effect(Flush[6 + j], regs, after)
  PROVE  FlushState(after, table, old, 6 + j)
<1>1. 5 + j \in Nat /\ (5 + j) + 1 = 6 + j /\ 6 + j <= Ahead /\ LastTag \in Nat
  BY Assumed DEF Ahead
<1>2. Effect(Wr(2, TagReg(j - 1), Word(j)), regs, after)
  BY FlushAt
<1>3. /\ after[<<2, TagReg(j - 1)>>] = Word(j)
      /\ \A a \in FlushRegs : a # <<2, TagReg(j - 1)>> => after[a] = regs[a]
  <2> DEFINE r == TagReg(j - 1)
             v == Word(j)
  <2>1. <<2, r>> \in FlushRegs /\ Effect(Wr(2, r, v), regs, after)
    BY <1>2, StateRegs
  <2> HIDE DEF r, v
  <2>2. after[<<2, r>>] = v /\ \A a \in FlushRegs : a # <<2, r>> => after[a] = regs[a]
    BY <2>1, WriteEffect DEF Sets
  <2> QED
    BY <2>2 DEF r, v
<1>4. Cmd(after) = Cmd(regs)
  BY <1>3, StateRegs, Apart DEF Cmd
<1>5. PortsState(after, 6 + j)
  <2>1. PortsState(regs, 5 + j)
    BY DEF FlushState
  <2>2. 1 \in after[<<2, 6>>] /\ (after[<<3, 23>>] \intersect {6, 7} = {})
    BY <1>3, <2>1, StateRegs, Apart DEF PortsState
  <2>3. ASSUME NEW i \in 1..LastTag, 6 + j >= 6 + i
        PROVE  after[<<2, TagReg(i - 1)>>] = Word(i)
    <3>1. CASE i = j
      BY <1>3, <3>1
    <3>2. CASE i # j
      <4>1. 5 + j >= 6 + i
        BY <2>3, <3>2
      <4> QED
        BY <1>3, <2>1, <3>2, <4>1, StateRegs, Apart DEF PortsState
    <3> QED
      BY <3>1, <3>2
  <2> QED
    BY <2>2, <2>3 DEF PortsState
<1> QED
  BY <1>1, <1>4, <1>5, NoEntryYet DEF FlushState

LEMMA ThirdStep ==
  ASSUME NEW regs, NEW after, NEW table, NEW old, NEW j \in 1..3,
         regs = [a \in Regs |-> regs[a]], FlushState(regs, table, old, 5 + LastTag + j),
         Effect(Flush[6 + LastTag + j], regs, after)
  PROVE  FlushState(after, table, old, 6 + LastTag + j)
<1> DEFINE k == 5 + LastTag + j
<1>1. k \in Nat /\ k + 1 = 6 + LastTag + j /\ k + 1 <= Ahead /\ LastTag \in Nat
  BY Assumed DEF Ahead
<1>2. Effect(Third[j], regs, after)
  BY FlushAt
<1>3. PICK r \in {47, 205, 206} : \E v : Third[j] = Wr(2, r, v)
  <2>1. j \in {1, 2, 3}
    OBVIOUS
  <2> QED
    BY <2>1 DEF Third
<1>4. <<2, r>> \in FlushRegs
  <2>1. Flush[6 + LastTag + j] = Third[j]
    BY FlushAt
  <2>2. 6 + LastTag + j \in 1..(Ahead + 7 * LastEntry)
    BY <1>1, Assumed
  <2>3. 6 + LastTag + j \in DOMAIN Flush
    BY <2>2, FlushAt
  <2> QED
    BY <1>3, <2>1, <2>3 DEF FlushRegs, Stores, Wr, Instruction
<1>5. \A a \in FlushRegs : a # <<2, r>> => after[a] = regs[a]
  <2>1. PICK v : Third[j] = Wr(2, r, v)
    BY <1>3
  <2>2. Effect(Wr(2, r, v), regs, after)
    BY <1>2, <2>1
  <2> QED
    BY <1>4, <2>2, WriteEffect DEF Sets
<1>6. Cmd(after) = Cmd(regs)
  BY <1>5, StateRegs, Assumed DEF Cmd
<1>7. PortsState(after, k + 1)
  <2>1. PortsState(regs, k)
    BY DEF FlushState
  <2>2. /\ after[<<2, 6>>] = regs[<<2, 6>>] /\ after[<<3, 23>>] = regs[<<3, 23>>]
        /\ \A i \in 1..LastTag : after[<<2, TagReg(i - 1)>>] = regs[<<2, TagReg(i - 1)>>]
    BY <1>5, StateRegs, Apart
  <2>3. k >= 6 /\ \A i \in 1..LastTag : k >= 6 + i
    BY <1>1
  <2> HIDE DEF k
  <2> QED
    BY <1>1, <2>1, <2>2, <2>3 DEF PortsState
<1> QED
  BY <1>1, <1>6, <1>7, NoEntryYet DEF FlushState

(* Only three instructions for an entry change its fields, one each. *)
LEMMA FieldsGrow ==
  ASSUME NEW old, NEW e, NEW n \in 2..7, NEW f \in Fields
  PROVE  FieldsAt(old, e, n)[f] =
           IF n = SetBy(f) THEN NewField(e, f) ELSE FieldsAt(old, e, n - 1)[f]
<1>1. SetBy(f) \in Nat
  BY DEF SetBy
<1>2. \A m : FieldsAt(old, e, m)[f] = IF m >= SetBy(f) THEN NewField(e, f) ELSE old[e][f]
  BY DEF FieldsAt
<1>3. n >= SetBy(f) <=> (n = SetBy(f) \/ n - 1 >= SetBy(f))
  BY <1>1
<1> QED
  BY <1>2, <1>3

LEMMA FieldWrites ==
  ASSUME NEW e, NEW n \in 3..5
  PROVE  \E r \in {211, 212, 216} :
           /\ Member(e)[n] = Wr(2, r, NewField(e, r)) /\ SetBy(r) = n
           /\ \A f \in Fields : SetBy(f) = n => f = r
<1>0. /\ Member(e)[3] = Wr(2, 211, MembersOf(e)) /\ Member(e)[4] = Wr(2, 212, Word(4352))
      /\ Member(e)[5] = Wr(2, 216, {15})
  BY MemberAt
<1>1. CASE n = 3
  BY <1>0, <1>1, Assumed DEF NewField, SetBy
<1>2. CASE n = 4
  BY <1>0, <1>2, Assumed DEF NewField, SetBy
<1>3. CASE n = 5
  BY <1>0, <1>3, Assumed DEF NewField, SetBy
<1> QED
  BY <1>1, <1>2, <1>3

(* The place of an instruction in the loop names its entry and its number. *)
LEMMA OnePlace ==
  ASSUME NEW e \in 1..LastEntry, NEW d \in 1..LastEntry, NEW n \in 1..7, NEW m \in 1..7,
         Base(e) + n = Base(d) + m
  PROVE  e = d /\ n = m
<1>1. Ahead \in Nat /\ LastEntry \in Nat
  BY Assumed
<1> QED
  BY <1>1 DEF Base

(* Before the first instruction for an entry the engine is idle. *)
LEMMA IdleBefore ==
  ASSUME NEW regs, NEW old, NEW e \in 1..LastEntry, CommandState(regs, old, Base(e))
  PROVE  15 \notin Cmd(regs)
<1>0. Ahead \in Nat /\ LastEntry \in Nat
  BY Assumed
<1>1. CASE e = 1
  BY <1>0, <1>1 DEF CommandState, Base
<1>2. CASE e # 1
  <2>1. e - 1 \in 1..LastEntry /\ Base(e) = Base(e - 1) + 7
    BY <1>0, <1>2 DEF Base
  <2>2. EntryState(regs, old, e - 1, 7)
    BY <2>1 DEF CommandState
  <2> QED
    BY <2>2 DEF EntryState
<1> QED
  BY <1>1, <1>2

LEMMA EntryWords ==
  ASSUME NEW e \in 1..LastEntry
  PROVE  /\ 14 \notin Word(e) /\ 15 \notin Word(e)
         /\ 15 \in FetchWord(e) /\ 14 \notin FetchWord(e) /\ FetchWord(e) \ {15} = Word(e)
         /\ FetchWord(e) \ {14, 15} = Word(e)
         /\ 14 \in StoreWord(e) /\ 15 \in StoreWord(e) /\ StoreWord(e) \ {14, 15} = Word(e)
         /\ StoreWord(e) # FetchWord(e) /\ StoreWord(e) \ {15} # FetchWord(e)
         /\ Word(e) # FetchWord(e)
<1>1. e \in Nat /\ e < 16384
  BY AppAssumption
<1> QED
  BY <1>1, CommandWords

(* One instruction for entry e, as its own registers see it. *)
LEMMA EntryRegs ==
  ASSUME NEW regs, NEW after, NEW old, NEW e \in 1..LastEntry, NEW n \in 1..7,
         regs = [a \in Regs |-> regs[a]], n # 1 => EntryState(regs, old, e, n - 1),
         Effect(Member(e)[n], regs, after)
  PROVE  /\ EntryState(after, old, e, n)
         /\ PortsState(regs, Base(e)) => PortsState(after, Base(e) + n)
         /\ n = 6 => 15 \in Cmd(after)
         /\ n = 7 => after = regs /\ 15 \notin Cmd(regs)
<1> DEFINE Kept == PortsState(regs, Base(e)) => PortsState(after, Base(e) + n)
<1>0. TableCommand = 210 /\ Fields = {211, 212, 213, 216} /\ n \in {1, 2, 3, 4, 5, 6, 7}
  BY Assumed
<1>1. ASSUME /\ after[<<2, 6>>] = regs[<<2, 6>>] /\ after[<<3, 23>>] = regs[<<3, 23>>]
             /\ \A i \in 1..LastTag : after[<<2, TagReg(i - 1)>>] = regs[<<2, TagReg(i - 1)>>]
      PROVE  Kept
  <2>1. /\ Base(e) >= 4 /\ Base(e) >= 6 /\ Base(e) \in Nat
        /\ \A i \in 1..LastTag : Base(e) >= 6 + i
    <3>1. Base(e) \in Nat /\ Base(e) >= Ahead /\ Ahead = 9 + LastTag /\ LastTag \in Nat
      BY Assumed DEF Ahead
    <3> QED
      BY <3>1
  <2> QED
    BY <1>1, <2>1 DEF PortsState
<1>2. ASSUME n \in {2, 7} PROVE after = regs /\ 15 \notin Cmd(regs)
  <2>1. Member(e)[n] = WaitTable
    BY <1>2, MemberAt
  <2> QED
    BY <2>1, WaitEffect
<1>3. ASSUME NEW w, n \in {1, 6}, Member(e)[n] = Wr(2, TableCommand, w)
      PROVE  Cmd(after) = w /\ Kept /\ \A f \in Fields : after[<<2, f>>] = regs[<<2, f>>]
  <2>1. /\ after[<<2, TableCommand>>] = w
        /\ \A a \in FlushRegs : a # <<2, TableCommand>> => after[a] = regs[a]
    <3>1. Effect(Wr(2, TableCommand, w), regs, after)
      BY <1>3
    <3>2. Sets(regs, after, 2, TableCommand, w)
      BY <3>1, CommandReg, WriteEffect
    <3> QED
      BY ONLY <3>2 DEF Sets
  <2>2. \A f \in Fields : <<2, f>> # <<2, TableCommand>>
    BY <1>0
  <2> QED
    BY <1>1, <2>1, <2>2, StateRegs, Apart DEF Cmd
<1>4. ASSUME NEW r \in {211, 212, 216}, NEW w, Member(e)[n] = Wr(2, r, w), n \in 3..5
      PROVE  /\ Cmd(after) = Cmd(regs) /\ Kept /\ after[<<2, r>>] = w
             /\ \A f \in Fields \ {r} : after[<<2, f>>] = regs[<<2, f>>]
  <2>1. <<2, r>> \in FlushRegs
    BY <1>0, StateRegs
  <2>2. after[<<2, r>>] = w /\ \A a \in FlushRegs : a # <<2, r>> => after[a] = regs[a]
    <3>1. Effect(Wr(2, r, w), regs, after)
      BY <1>4
    <3>2. Sets(regs, after, 2, r, w)
      BY <2>1, <3>1, WriteEffect
    <3> QED
      BY ONLY <3>2 DEF Sets
  <2>3. /\ <<2, TableCommand>> # <<2, r>> /\ <<2, 6>> # <<2, r>> /\ <<3, 23>> # <<2, r>>
        /\ \A f \in Fields \ {r} : <<2, f>> # <<2, r>>
    BY <1>0
  <2>4. \A i \in 1..LastTag : <<2, TagReg(i - 1)>> # <<2, r>>
    BY Apart
  <2>5. \A i \in 1..LastTag : after[<<2, TagReg(i - 1)>>] = regs[<<2, TagReg(i - 1)>>]
    BY <2>2, <2>4, StateRegs
  <2>6. /\ after[<<2, 6>>] = regs[<<2, 6>>] /\ after[<<3, 23>>] = regs[<<3, 23>>]
        /\ after[<<2, TableCommand>>] = regs[<<2, TableCommand>>]
    BY <2>2, <2>3, StateRegs
  <2>7. \A f \in Fields \ {r} : after[<<2, f>>] = regs[<<2, f>>]
    BY <2>2, <2>3, StateRegs
  <2> QED
    BY <1>1, <2>2, <2>5, <2>6, <2>7 DEF Cmd
<1>5. CASE n = 1
  <2>1. Cmd(after) = FetchWord(e) /\ Kept
    BY <1>3, <1>5, MemberAt
  <2> QED
    BY <1>5, <2>1 DEF EntryState
<1>6. CASE n = 2
  <2>1. Cmd(regs) = Word(e) /\ after = regs
    BY <1>2, <1>6, EntryWords DEF EntryState
  <2>2. \A f \in Fields : regs[<<2, f>>] = FieldsAt(old, e, 1)[f]
    <3>1. EntryState(regs, old, e, 1) /\ 1 \in 1..6
      BY <1>6
    <3>2. Cmd(regs) # FetchWord(e)
      BY <2>1, EntryWords
    <3> QED
      BY ONLY <3>1, <3>2 DEF EntryState
  <2>3. \A f \in Fields : FieldsAt(old, e, 2)[f] = FieldsAt(old, e, 1)[f]
    <3>1. \A f \in Fields : 2 # SetBy(f) /\ 2 - 1 = 1
      BY DEF SetBy
    <3> QED
      BY <3>1, FieldsGrow
  <2> QED
    BY <1>1, <1>6, <2>1, <2>2, <2>3 DEF EntryState
<1>7. CASE n \in 3..5
  <2>1. PICK r \in {211, 212, 216} :
          /\ Member(e)[n] = Wr(2, r, NewField(e, r)) /\ SetBy(r) = n
          /\ \A f \in Fields : SetBy(f) = n => f = r
    BY <1>7, FieldWrites
  <2> DEFINE w == NewField(e, r)
  <2>2. FieldsAt(old, e, n)[r] = w
    BY <1>0, <1>7, <2>1, FieldsGrow
  <2>3. \A f \in Fields \ {r} : FieldsAt(old, e, n)[f] = FieldsAt(old, e, n - 1)[f]
    BY <1>7, <2>1, FieldsGrow
  <2> HIDE DEF w
  <2>4. /\ Cmd(after) = Cmd(regs) /\ Kept /\ after[<<2, r>>] = w
        /\ \A f \in Fields \ {r} : after[<<2, f>>] = regs[<<2, f>>]
    BY <1>4, <1>7, <2>1 DEF w
  <2>5. EntryState(regs, old, e, n - 1) /\ n - 1 \in 2..5
    BY <1>7
  <2>6. Cmd(regs) = Word(e) /\ \A f \in Fields : regs[<<2, f>>] = FieldsAt(old, e, n - 1)[f]
    BY <2>5, EntryWords DEF EntryState
  <2>7. \A f \in Fields : after[<<2, f>>] = FieldsAt(old, e, n)[f]
    BY <2>2, <2>3, <2>4, <2>6
  <2> QED
    BY <1>7, <2>4, <2>6, <2>7 DEF EntryState
<1>8. CASE n = 6
  <2>1. Cmd(after) = StoreWord(e) /\ Kept /\ \A f \in Fields : after[<<2, f>>] = regs[<<2, f>>]
    BY <1>3, <1>8, MemberAt
  <2>2. Cmd(regs) = Word(e) /\ \A f \in Fields : regs[<<2, f>>] = FieldsAt(old, e, 5)[f]
    BY <1>8, EntryWords DEF EntryState
  <2>3. \A f \in Fields : FieldsAt(old, e, 6)[f] = FieldsAt(old, e, 5)[f]
    <3>1. \A f \in Fields : 6 # SetBy(f) /\ 6 - 1 = 5
      BY DEF SetBy
    <3> QED
      BY <3>1, FieldsGrow
  <2> QED
    BY <1>8, <2>1, <2>2, <2>3, EntryWords DEF EntryState
<1>9. CASE n = 7
  <2>1. after = regs /\ 15 \notin Cmd(regs)
    BY <1>2, <1>9
  <2> QED
    BY <1>1, <1>9, <2>1 DEF EntryState
<1> QED
  BY <1>0, <1>5, <1>6, <1>7, <1>8, <1>9

LEMMA EntryStep ==
  ASSUME NEW regs, NEW after, NEW table, NEW old, NEW e \in 1..LastEntry, NEW n \in 1..7,
         regs = [a \in Regs |-> regs[a]], FlushState(regs, table, old, Base(e) + n - 1),
         Effect(Flush[Base(e) + n], regs, after)
  PROVE  FlushState(after, table, old, Base(e) + n)
<1> DEFINE k == Base(e) + n - 1
<1>0. /\ Base(e) \in Nat /\ Base(e) >= Ahead /\ Ahead \in Nat /\ LastEntry \in Nat
      /\ k \in Nat /\ k + 1 = Base(e) + n /\ k >= Base(e)
  BY Assumed
<1>1. Effect(Member(e)[n], regs, after)
  BY FlushAt
<1>2. n # 1 => EntryState(regs, old, e, n - 1)
  <2>1. n # 1 => n - 1 \in 1..7 /\ Base(e) + n - 1 = Base(e) + (n - 1)
    BY <1>0
  <2> QED
    BY <2>1 DEF FlushState, CommandState
<1>3. PortsState(regs, Base(e))
  <2>1. PortsState(regs, k)
    BY DEF FlushState
  <2>2. k >= 4 /\ k >= 6 /\ \A i \in 1..LastTag : k >= 6 + i
    BY <1>0, Assumed DEF Ahead
  <2> QED
    BY <2>1, <2>2 DEF PortsState
<1>4. /\ EntryState(after, old, e, n) /\ PortsState(after, Base(e) + n)
      /\ n = 6 => 15 \in Cmd(after)
      /\ n = 7 => after = regs /\ 15 \notin Cmd(regs)
  BY <1>1, <1>2, <1>3, EntryRegs
<1>5. CommandState(after, old, Base(e) + n)
  <2>1. ~(Base(e) + n <= Ahead)
    BY <1>0
  <2>2. \A d \in 1..LastEntry, m \in 1..7 : Base(e) + n = Base(d) + m => e = d /\ n = m
    BY OnePlace
  <2> QED
    BY <1>4, <2>1, <2>2 DEF CommandState
<1>6. ASSUME NEW i PROVE Stored(after, Base(e) + n, i) <=> Stored(regs, Base(e) + n - 1, i)
  <2>1. CASE i \in 1..LastEntry /\ i < e
    <3>1. Base(i) \in Nat /\ Base(i) + 7 <= Base(e)
      BY <1>0, <2>1 DEF Base
    <3>2. Base(e) + n >= Base(i) + 7 /\ Base(e) + n - 1 >= Base(i) + 7
      BY <1>0, <3>1
    <3>3. Stored(after, Base(e) + n, i)
      BY ONLY <2>1, <3>2 DEF Stored
    <3>4. Stored(regs, Base(e) + n - 1, i)
      BY ONLY <2>1, <3>2 DEF Stored
    <3> QED
      BY <3>3, <3>4
  <2>2. CASE i \in 1..LastEntry /\ i > e
    <3>1. Base(i) \in Nat /\ Base(e) + 7 <= Base(i)
      BY <1>0, <2>2 DEF Base
    <3> QED
      BY <1>0, <2>2, <3>1 DEF Stored
  <2>3. CASE i = e
    BY <1>0, <1>4, <2>3 DEF Stored
  <2>4. CASE i \notin 1..LastEntry
    BY <2>4 DEF Stored
  <2> QED
    BY <1>0, <2>1, <2>2, <2>3, <2>4
<1>7. TableState(after, table, old, Base(e) + n)
  BY <1>6 DEF FlushState, TableState
<1> QED
  BY <1>4, <1>5, <1>7 DEF FlushState

LEMMA FieldsEnds ==
  ASSUME NEW old, NEW e
  PROVE  /\ \A f \in Fields : FieldsAt(old, e, 1)[f] = old[e][f]
         /\ FieldsAt(old, e, 7) = FieldsAt(old, e, 6)
         /\ \A n : FieldsAt(old, e, n) = [f \in Fields |-> FieldsAt(old, e, n)[f]]
<1>1. \A f \in Fields : SetBy(f) \in {3, 4, 5, 9}
  BY DEF SetBy
<1>2. \A f \in Fields : ~(1 >= SetBy(f)) /\ (6 >= SetBy(f) <=> 7 >= SetBy(f))
  BY <1>1
<1> QED
  BY <1>2 DEF FieldsAt

(* The table engine does for a -e what it is waiting for. *)
LEMMA EngineKeeps ==
  ASSUME Sound, VlanEngine, NEW old, NEW k \in 0..LastStep, FlushState(mem, vlan, old, k)
  PROVE  FlushState(mem', vlan', old, k)
<1>0. 15 \in Cmd(mem) /\ CommandState(mem, old, k) /\ Ahead \in Nat /\ LastEntry \in Nat
  BY Assumed DEF VlanEngine, Cmd, FlushState
<1>1. PICK e \in 1..LastEntry, n \in 1..7 : k = Base(e) + n
  <2>1. ~(k <= Ahead) /\ k \in DOMAIN Flush
    BY <1>0, FlushAt DEF CommandState, LastStep
  <2>2. LastTag \in Nat /\ Ahead = 9 + LastTag
    BY Assumed DEF Ahead
  <2> QED
    BY <2>1, <2>2, Where
<1>2. EntryState(mem, old, e, n) /\ n \in {1, 2, 3, 4, 5, 6, 7}
  BY <1>0, <1>1 DEF CommandState
<1>3. (n = 1 /\ Cmd(mem) = FetchWord(e)) \/ (n = 6 /\ Cmd(mem) = StoreWord(e))
  BY <1>0, <1>2, EntryWords DEF EntryState
<1>4. Cmd(mem) \ {14, 15} = Word(e)
  BY <1>3, EntryWords
<1>5. Carries(mem, vlan, e, TableDone(mem, vlan))
  BY <1>4, Indexed, TableEffect DEF Cmd, Command
<1>6. /\ Cmd(mem') = Cmd(mem) \ {15}
      /\ \A a \in Regs :
           a # <<2, TableCommand>> /\ (\A f \in Fields : a # <<2, f>>) => mem'[a] = mem[a]
      /\ IF 14 \in Cmd(mem)
         THEN /\ \A f \in Fields : mem'[<<2, f>>] = mem[<<2, f>>]
              /\ vlan' = [vlan EXCEPT ![e] = [f \in Fields |-> mem[<<2, f>>]]]
         ELSE (\A f \in Fields : mem'[<<2, f>>] = vlan[e][f]) /\ vlan' = vlan
  <2>1. mem' = TableDone(mem, vlan).mem /\ vlan' = TableDone(mem, vlan).vlan
    BY DEF VlanEngine
  <2>2. DOMAIN mem = Regs
    BY DEF Sound, Shapes
  <2> QED
    BY <1>5, <2>1, <2>2 DEF Carries, Puts, Fetches, Cmd
<1>7. PortsState(mem', k)
  <2>1. \A f \in Fields : <<2, 6>> # <<2, f>> /\ <<3, 23>> # <<2, f>>
    BY Assumed
  <2>2. mem'[<<2, 6>>] = mem[<<2, 6>>] /\ mem'[<<3, 23>>] = mem[<<3, 23>>]
    BY <1>6, <2>1, StateRegs, Apart, AppAssumption
  <2>3. ASSUME NEW i \in 1..LastTag
        PROVE  mem'[<<2, TagReg(i - 1)>>] = mem[<<2, TagReg(i - 1)>>]
    <3>1. \A f \in Fields : <<2, TagReg(i - 1)>> # <<2, f>>
      BY Apart, Assumed
    <3>2. <<2, TagReg(i - 1)>> \in Regs /\ <<2, TagReg(i - 1)>> # <<2, TableCommand>>
      BY StateRegs, Apart, AppAssumption
    <3> QED
      BY <1>6, <3>1, <3>2
  <2> QED
    BY <2>2, <2>3 DEF PortsState, FlushState
<1>8. \A d \in 1..LastEntry, m \in 1..7 : k = Base(d) + m => e = d /\ n = m
  BY <1>1, OnePlace
<1>9. \A i \in 1..LastEntry : Base(i) \in Nat /\ Base(i) + 6 = k => i = e /\ n = 6
  BY <1>8
<1>10. EntryState(mem', old, e, n) => CommandState(mem', old, k)
  <2>1. ~(k <= Ahead)
    BY <1>0 DEF CommandState
  <2> QED
    BY <1>8, <2>1 DEF CommandState
<1>11. CASE n = 1
  <2>1. Cmd(mem) = FetchWord(e) /\ 14 \notin Cmd(mem)
    BY <1>3, <1>11, EntryWords
  <2>2. \A i : Stored(mem', k, i) <=> Stored(mem, k, i)
    BY <1>9, <1>11, Assumed DEF Stored
  <2>3. ~Stored(mem, k, e)
    <3>1. Base(e) \in Nat /\ k = Base(e) + 1
      BY <1>1, <1>11, Assumed
    <3> QED
      BY <3>1 DEF Stored
  <2>4. vlan[e] = old[e]
    BY <2>3, AppAssumption DEF FlushState, TableState
  <2>5. \A f \in Fields : mem'[<<2, f>>] = FieldsAt(old, e, 1)[f]
    <3>1. \A f \in Fields : mem'[<<2, f>>] = vlan[e][f]
      BY <1>6, <2>1
    <3>2. \A f \in Fields : FieldsAt(old, e, 1)[f] = old[e][f]
      BY FieldsEnds
    <3> QED
      BY ONLY <2>4, <3>1, <3>2
  <2>6. EntryState(mem', old, e, n)
    BY <1>6, <1>11, <2>1, <2>5, EntryWords DEF EntryState
  <2>7. TableState(mem', vlan', old, k)
    BY <1>6, <2>1, <2>2 DEF FlushState, TableState
  <2> QED
    BY <1>7, <1>10, <2>6, <2>7 DEF FlushState
<1>12. CASE n = 6
  <2>1. Cmd(mem) = StoreWord(e) /\ 14 \in Cmd(mem) /\ Cmd(mem) # FetchWord(e)
    BY <1>3, <1>12, EntryWords
  <2>2. \A f \in Fields : mem[<<2, f>>] = FieldsAt(old, e, 6)[f]
    <3>1. EntryState(mem, old, e, 6) /\ 6 \in 1..6
      BY <1>2, <1>12
    <3> QED
      BY ONLY <2>1, <3>1 DEF EntryState
  <2>3. EntryState(mem', old, e, n)
    BY <1>6, <1>12, <2>1, <2>2 DEF EntryState
  <2>4. vlan' = [vlan EXCEPT ![e] = FieldsAt(old, e, 7)]
    <3>1. [f \in Fields |-> mem[<<2, f>>]] = FieldsAt(old, e, 6)
      BY <2>2, FieldsEnds
    <3> QED
      BY <1>6, <2>1, <3>1, FieldsEnds
  <2>5. \A i : i # e => (Stored(mem', k, i) <=> Stored(mem, k, i))
    BY <1>9, Assumed DEF Stored
  <2>6. Stored(mem', k, e)
    <3>1. 15 \notin Cmd(mem') /\ k = Base(e) + 6
      BY <1>1, <1>6, <1>12
    <3> QED
      BY <3>1 DEF Stored
  <2>7. DOMAIN vlan = DOMAIN Factory
    BY DEF Sound, Shapes, Shaped
  <2>8. \A i \in DOMAIN Factory : vlan'[i] = IF i = e THEN FieldsAt(old, e, 7) ELSE vlan[i]
    BY <2>4, <2>7
  <2>9. TableState(mem', vlan', old, k)
    BY <2>5, <2>6, <2>8 DEF FlushState, TableState
  <2> QED
    BY <1>7, <1>10, <2>3, <2>9 DEF FlushState
<1> QED
  BY <1>3, <1>11, <1>12
-----------------------------------------------------------------------------
(* A -e that nothing has disturbed so far. *)
Quiet(c) == run[c].name = "-e" /\ status[c] = "running" /\ c \notin disturbed

(* Nothing that could spoil it is running, and it has come as far as its   *)
(* next instruction says.                                                  *)
Alone(c) ==
  /\ \A u \in Running : u = c \/ ~Harmful(run[u])
  /\ exposed = {} /\ 4 \notin mem[<<12, 0>>]
  /\ pc[c] \in Nat /\ pc[c] - 1 \in 0..LastStep
  /\ FlushState(mem, vlan, was[c], pc[c] - 1)

LEMMA StartState ==
  ASSUME NEW regs, NEW table, 15 \notin Cmd(regs), DOMAIN table = DOMAIN Factory
  PROVE  FlushState(regs, table, table, 0)
<1>1. LastTag \in Nat /\ Ahead \in Nat /\ \A e \in 1..LastEntry : Base(e) \in Nat
  BY Assumed
<1>2. PortsState(regs, 0)
  BY <1>1 DEF PortsState
<1>3. CommandState(regs, table, 0)
  BY <1>1 DEF CommandState
<1>4. \A i : ~Stored(regs, 0, i)
  BY <1>1 DEF Stored
<1> QED
  BY <1>2, <1>3, <1>4 DEF FlushState, TableState

LEMMA OwnStep ==
  ASSUME NEW regs, NEW after, NEW table, NEW old, NEW k \in Nat, k + 1 \in DOMAIN Flush,
         regs = [a \in Regs |-> regs[a]], FlushState(regs, table, old, k),
         Effect(Flush[k + 1], regs, after)
  PROVE  FlushState(after, table, old, k + 1)
<1>0. LastTag \in Nat
  BY Assumed
<1>1. CASE k + 1 \in 1..6
  <2>1. k \in 0..5
    BY <1>1
  <2> QED
    BY <2>1, FirstStep
<1>2. ASSUME NEW j \in 1..LastTag, k + 1 = 6 + j PROVE FlushState(after, table, old, k + 1)
  <2>1. k = 5 + j
    BY <1>0, <1>2
  <2> QED
    BY <1>2, <2>1, PortStep
<1>3. ASSUME NEW j \in 1..3, k + 1 = 6 + LastTag + j
      PROVE  FlushState(after, table, old, k + 1)
  <2>1. k = 5 + LastTag + j
    BY <1>0, <1>3
  <2> QED
    BY <1>3, <2>1, ThirdStep
<1>4. ASSUME NEW e \in 1..LastEntry, NEW n \in 1..7, k + 1 = Base(e) + n
      PROVE  FlushState(after, table, old, k + 1)
  <2>1. k = Base(e) + n - 1
    BY <1>4, Assumed
  <2> QED
    BY <1>4, <2>1, EntryStep
<1> QED
  BY <1>1, <1>2, <1>3, <1>4, Where

(* Its own instructions and those of the processes beside it. *)
LEMMA BesideIt ==
  ASSUME Sound, NEW c \in Clients, Quiet(c), Alone(c), NEW u \in Running, Left(u)
  PROVE  /\ ~Unlocked(Current(u))
         /\ u # c => Mild(Current(u))
         /\ u = c => /\ Current(u) = Flush[pc[c]] /\ pc[c] \in DOMAIN Flush
                     /\ Tame(Current(u))
<1>1. CASE u = c
  BY <1>1, FlushProgram, TameFlush DEF Quiet, Left, Current, Tame
<1>2. CASE u # c
  BY <1>2, MildProgram DEF Alone, Left, Current, Mild
<1> QED
  BY <1>1, <1>2

LEMMA NotInState == <<12, 0>> \notin FlushRegs /\ <<3, PhyCommand>> \notin FlushRegs
<1>1. \A f \in Fields : <<12, 0>> # <<2, f>> /\ <<3, PhyCommand>> # <<2, f>>
  OBVIOUS
<1>2. \A k \in DOMAIN Flush : Stores(Flush[k]) =>
        /\ <<Flush[k].page, Flush[k].reg>> # <<12, 0>>
        /\ <<Flush[k].page, Flush[k].reg>> # <<3, PhyCommand>>
  BY TameFlush DEF Tame, Target
<1> QED
  BY <1>1, <1>2 DEF FlushRegs

(* A -e that starts undisturbed finds the engine idle and is alone. *)
LEMMA AloneStart ==
  ASSUME Sound, NEW c \in Clients, Exec(c), Quiet(c)'
  PROVE  Alone(c)'
<1>1. PICK o \in CommandLines[c], ok \in BOOLEAN :
        /\ run' = [run EXCEPT ![c] = o]
        /\ disturbed' = disturbed \union (IF Harmful(o) THEN Running ELSE {})
             \union (IF Unsettled \/ \E u \in Running : Harmful(run[u]) THEN {c} ELSE {})
  BY DEF Exec
<1>2. /\ status[c] = "new" /\ status' = [status EXCEPT ![c] = "running"] /\ pc[c] = 1
      /\ was' = [was EXCEPT ![c] = vlan] /\ UNCHANGED <<mem, vlan, pc, exposed>>
  BY DEF Exec, chipVars, Sound, Roles
<1>3. ~Unsettled /\ \A u \in Running : ~Harmful(run[u])
  BY <1>1 DEF Quiet
<1>4. \A u \in Running' : u = c \/ (u \in Running /\ run'[u] = run[u])
  BY <1>1, <1>2 DEF Running, Sound, Shapes
<1>5. FlushState(mem, vlan, vlan, 0)
  BY <1>3, StartState DEF Unsettled, Cmd, Sound, Shapes, Shaped
<1>6. was'[c] = vlan /\ pc'[c] - 1 = 0
  BY <1>2 DEF Sound, Shapes
<1>7. 0 \in 0..LastStep
  BY Assumed DEF LastStep
<1> QED
  BY <1>2, <1>3, <1>4, <1>5, <1>6, <1>7 DEF Alone, Unsettled

(* Another process starts beside it. *)
LEMMA AloneExec ==
  ASSUME Sound, NEW c \in Clients, NEW u \in Clients, u # c, Exec(u), Quiet(c)',
         Quiet(c) => Alone(c)
  PROVE  Alone(c)'
<1>1. PICK o \in CommandLines[u], ok \in BOOLEAN :
        /\ run' = [run EXCEPT ![u] = o]
        /\ disturbed' = disturbed \union (IF Harmful(o) THEN Running ELSE {})
             \union (IF Unsettled \/ \E x \in Running : Harmful(run[x]) THEN {u} ELSE {})
  BY DEF Exec
<1>2. /\ status' = [status EXCEPT ![u] = "running"]
      /\ was' = [was EXCEPT ![u] = vlan] /\ UNCHANGED <<mem, vlan, pc, exposed>>
  BY DEF Exec, chipVars
<1>3. run'[c] = run[c] /\ status'[c] = status[c] /\ was'[c] = was[c]
  BY <1>1, <1>2 DEF Sound, Shapes
<1>4. Quiet(c) /\ Alone(c)
  BY <1>1, <1>3 DEF Quiet
<1>5. ~Harmful(o)
  BY <1>1, <1>4 DEF Quiet, Running
<1>6. \A x \in Running' : x = c \/ ~Harmful(run'[x])
  <2>1. \A x \in Running' : (x = u /\ run'[x] = o) \/ (x \in Running /\ run'[x] = run[x])
    BY <1>1, <1>2 DEF Running, Sound, Shapes
  <2> QED
    BY <1>4, <1>5, <2>1 DEF Alone
<1> QED
  BY <1>2, <1>3, <1>4, <1>6 DEF Alone

(* An access is carried out beside it, or by it. *)
LEMMA AloneWrite ==
  ASSUME Sound, NEW c \in Clients, NEW u \in Clients, Write(u), Quiet(c), Alone(c)
  PROVE  Alone(c)'
<1> DEFINE i == Current(u)
<1>0. /\ mem = [a \in Regs |-> mem[a]] /\ FlushRegs \subseteq Regs /\ <<12, 0>> \in Regs
      /\ exposed = {} /\ 4 \notin mem[<<12, 0>>] /\ u \in Running /\ Left(u) /\ Stores(i)
  BY AppAssumption DEF Sound, Shapes, Roles, Alone, Write
<1>1. /\ mem' = [mem EXCEPT ![Target(i)] = Written(u)] /\ exposed' = {}
      /\ pc' = [pc EXCEPT ![u] = @ + 1] /\ UNCHANGED <<vlan, run, status, was>>
  BY <1>0 DEF Write, Spoilt, Target, Leave, historyVars
<1>2. \A x \in Running' : x = c \/ ~Harmful(run'[x])
  BY <1>1 DEF Alone, Running
<1>3. CASE u # c
  <2>1. Mild(i)
    BY <1>0, <1>3, BesideIt
  <2>2. i.do = "store" => Written(u) = i.val
    BY DEF Written
  <2> HIDE DEF i
  <2>3. 4 \notin mem'[<<12, 0>>]
    <3>1. CASE Target(i) = <<12, 0>>
      BY <1>0, <1>1, <2>1, <2>2, <3>1 DEF Mild
    <3>2. CASE Target(i) # <<12, 0>>
      BY <1>0, <1>1, <3>2
    <3> QED
      BY <3>1, <3>2
  <2>4. \A a \in FlushRegs : mem'[a] = mem[a]
    BY <1>0, <1>1, <2>1 DEF Mild
  <2>5. FlushState(mem', vlan, was[c], pc[c] - 1)
    BY <2>4, Untouched DEF Alone
  <2>6. pc'[c] = pc[c]
    BY <1>1, <1>3 DEF Sound, Shapes
  <2> QED
    BY <1>1, <1>2, <2>3, <2>5, <2>6 DEF Alone
<1>4. CASE u = c
  <2>1. i = Flush[pc[c]] /\ pc[c] \in DOMAIN Flush /\ Tame(i)
    BY <1>0, <1>4, BesideIt
  <2>2. Effect(i, mem, mem')
    <3>1. /\ i.do = "store" => Written(u) = i.val
          /\ i.do = "or" => i.val \subseteq Written(u)
          /\ i.do = "clear" => Written(u) \intersect i.val = {}
      BY DEF Written
    <3> HIDE DEF i
    <3> QED
      BY <1>0, <1>1, <3>1 DEF Effect
  <2> DEFINE k == pc[c] - 1
  <2>3. /\ k \in Nat /\ k + 1 = pc[c] /\ k + 1 \in 0..LastStep
        /\ FlushState(mem, vlan, was[c], k)
    <3>1. k \in 0..LastStep /\ pc[c] \in 1..LastStep
      BY <2>1, FlushAt DEF Alone, LastStep
    <3>2. LastStep \in Nat
      BY Assumed DEF LastStep
    <3> QED
      BY <3>1, <3>2 DEF Alone
  <2> HIDE DEF i
  <2>4. FlushState(mem', vlan, was[c], k + 1)
    <3> HIDE DEF k
    <3> QED
      BY <1>0, <2>1, <2>2, <2>3, OwnStep
  <2>5. 4 \notin mem'[<<12, 0>>]
    BY <1>0, <1>1, <2>1 DEF Tame
  <2>6. pc'[c] - 1 = k + 1 /\ pc'[c] \in Nat
    BY <1>1, <1>4, <2>3 DEF Sound, Shapes
  <2> QED
    BY <1>1, <1>2, <2>3, <2>4, <2>5, <2>6 DEF Alone
<1> QED
  BY <1>3, <1>4

LEMMA AloneRead ==
  ASSUME Sound, NEW c \in Clients, NEW u \in Clients, Read(u), Quiet(c), Alone(c)
  PROVE  Alone(c)'
<1> DEFINE i == Current(u)
<1>0. exposed = {} /\ u \in Running /\ Left(u) /\ ~Stores(i)
  BY DEF Sound, Roles, Alone, Read
<1>1. PICK v \in Noise \union Range(mem) :
        /\ v = mem[Target(i)] /\ pc' = [pc EXCEPT ![u] = @ + 1 - Back(i.do, v)]
  BY <1>0 DEF Read, Spoilt, Target
<1>2. exposed' = {} /\ UNCHANGED <<mem, vlan, run, status, was>>
  BY <1>0 DEF Read, Leave, chipVars, historyVars
<1>3. /\ \A x \in Running' : x = c \/ ~Harmful(run'[x])
      /\ 4 \notin mem'[<<12, 0>>]
  BY <1>2 DEF Alone, Running
<1>4. CASE u # c \/ pc'[c] = pc[c]
  <2>1. pc'[c] = pc[c]
    BY <1>1, <1>4 DEF Sound, Shapes
  <2> QED
    BY <1>2, <1>3, <2>1 DEF Alone
<1>5. CASE u = c /\ pc'[c] # pc[c]
  <2>1. i = Flush[pc[c]] /\ pc[c] \in DOMAIN Flush /\ Tame(i)
    BY <1>0, <1>5, BesideIt
  <2> DEFINE k == pc[c] - 1
  <2>2. /\ k \in Nat /\ k + 1 = pc[c] /\ k + 1 \in 0..LastStep
        /\ FlushState(mem, vlan, was[c], k)
    <3>1. k \in 0..LastStep /\ pc[c] \in 1..LastStep
      BY <2>1, FlushAt DEF Alone, LastStep
    <3>2. LastStep \in Nat
      BY Assumed DEF LastStep
    <3> QED
      BY <3>1, <3>2 DEF Alone
  <2> HIDE DEF i
  <2>3. pc'[c] = pc[c] + 1 - Back(i.do, v)
    BY <1>1, <1>5 DEF Sound, Shapes
  <2>4. /\ Back(i.do, v) \in {0, 1}
        /\ i.do = "whileBusy" /\ 15 \in v => Back(i.do, v) = 1
    BY <2>1 DEF Back, Tame
  <2>5. Back(i.do, v) = 0
    BY <1>5, <2>2, <2>3, <2>4
  <2>6. Effect(i, mem, mem)
    BY <1>0, <1>1, <2>4, <2>5 DEF Effect
  <2>7. FlushState(mem, vlan, was[c], k + 1)
    <3> HIDE DEF k
    <3> QED
      BY <2>1, <2>2, <2>6, OwnStep DEF Sound, Shapes
  <2>8. pc'[c] - 1 = k + 1 /\ pc'[c] \in Nat
    BY <2>2, <2>3, <2>5
  <2> QED
    BY <1>2, <1>3, <2>2, <2>7, <2>8 DEF Alone
<1> QED
  BY <1>4, <1>5

(* The chip carries out a command beside it. *)
LEMMA AloneChip ==
  ASSUME Sound, NEW c \in Clients, Chip, Alone(c)
  PROVE  Alone(c)'
<1>0. /\ mem = [a \in Regs |-> mem[a]] /\ FlushRegs \subseteq Regs /\ <<12, 0>> \in Regs
      /\ <<12, 0>> # <<3, PhyCommand>>
  BY AppAssumption DEF Sound, Shapes
<1>1. UNCHANGED <<run, status, pc, exposed, was>>
  BY ChipAlone
<1>2. \A x \in Running' : x = c \/ ~Harmful(run'[x])
  BY <1>1 DEF Alone, Running
<1>3. FlushState(mem', vlan', was[c], pc[c] - 1) /\ 4 \notin mem'[<<12, 0>>]
  <2>1. CASE VlanEngine
    BY <2>1, EngineKeeps, EngineShapes DEF Alone, Sound
  <2>2. CASE PhyEngine
    <3>1. vlan' = vlan /\ \A a \in FlushRegs : mem'[a] = mem[a]
      BY <1>0, <2>2, NotInState DEF PhyEngine
    <3>2. mem'[<<12, 0>>] = mem[<<12, 0>>]
      BY <1>0, <2>2 DEF PhyEngine
    <3> QED
      BY <3>1, <3>2, Untouched DEF Alone
  <2>3. CASE SoftReset
    <3>1. vlan' = vlan /\ mem' = [mem EXCEPT ![<<12, 0>>] = @ \ {0}]
      BY <2>3 DEF SoftReset, Alone
    <3>2. \A a \in FlushRegs : mem'[a] = mem[a]
      BY <1>0, <3>1, NotInState
    <3>3. 4 \notin mem'[<<12, 0>>]
      BY <1>0, <3>1 DEF Alone
    <3> QED
      BY <3>1, <3>2, <3>3, Untouched DEF Alone
  <2> QED
    BY <2>1, <2>2, <2>3 DEF Chip
<1> QED
  BY <1>1, <1>2, <1>3 DEF Alone

LEMMA AloneStep ==
  ASSUME Sound, NEW c \in Clients, Quiet(c) => Alone(c), [Next]_vars, Quiet(c)'
  PROVE  Alone(c)'
<1>1. ASSUME NEW u \in Clients, Exec(u) PROVE Alone(c)'
  BY <1>1, AloneStart, AloneExec
<1>2. ASSUME UNCHANGED <<run, status, disturbed>> PROVE Alone(c)
  BY <1>2 DEF Quiet
<1>3. ASSUME UNCHANGED <<run, pc, mem, vlan, exposed, was>>, Alone(c), Running' \subseteq Running
      PROVE  Alone(c)'
  BY <1>3 DEF Alone
<1>4. ASSUME NEW u \in Clients, Ends(u) PROVE Alone(c)'
  <2>1. PICK how : status' = [status EXCEPT ![u] = how] /\ how # "new" /\ how # "running"
    BY <1>4 DEF Ends
  <2>2. UNCHANGED <<mem, vlan, run, pc, exposed, disturbed, was>>
    BY <1>4 DEF Ends
  <2>3. \A x \in Clients : status'[x] = IF x = u THEN how ELSE status[x]
    BY <2>1 DEF Sound, Shapes
  <2>4. status[c] = "running" /\ Running' \subseteq Running
    BY <2>1, <2>3 DEF Quiet, Running
  <2>5. Quiet(c)
    BY <2>2, <2>4 DEF Quiet
  <2> QED
    BY <1>3, <2>2, <2>4, <2>5
<1>5. ASSUME NEW u \in Clients, Issue(u) PROVE Alone(c)'
  <2>1. UNCHANGED <<mem, vlan, run, status, pc, disturbed, was>>
    BY <1>5 DEF Issue, chipVars, historyVars
  <2>2. Quiet(c) /\ Alone(c)
    BY <1>2, <2>1 DEF Quiet
  <2>3. exposed' = {} /\ exposed = {}
    <3>1. \A x \in Running : Left(x) => ~Unlocked(Current(x))
      BY <2>2, BesideIt
    <3>2. exposed = {}
      BY <2>2 DEF Alone
    <3> QED
      BY <1>5, <3>1, <3>2, StaysUnexposed
  <2>4. Running' = Running
    BY <2>1 DEF Running
  <2> QED
    BY <1>3, <2>1, <2>2, <2>3, <2>4
<1>6. ASSUME NEW u \in Clients, Write(u) \/ Read(u) \/ EndUnlocked(u) PROVE Alone(c)'
  <2>1. UNCHANGED <<run, status, disturbed>>
    BY <1>6, Accesses DEF Done
  <2>2. Quiet(c) /\ Alone(c)
    BY <1>2, <2>1 DEF Quiet
  <2>3. ~EndUnlocked(u)
    <3>1. \A x \in Running : Left(x) => ~Unlocked(Current(x))
      BY <2>2, BesideIt
    <3> QED
      BY <3>1 DEF EndUnlocked, Sound, Roles
  <2> QED
    BY <1>6, <2>2, <2>3, AloneWrite, AloneRead
<1>7. CASE Chip
  BY <1>2, <1>7, ChipAlone, AloneChip
<1>8. CASE UNCHANGED vars
  BY <1>2, <1>3, <1>8 DEF vars, chipVars, historyVars, Running
<1> QED
  BY <1>1, <1>4, <1>5, <1>6, <1>7, <1>8, Endings DEF Next, Main, Chip

(* How it leaves the switch. *)
LEMMA LastWord == Word(4352) = {8, 12}
<1>1. \A b \in 0..15 : High(4352, b) % 2 = 1 <=> b \in {8, 12}
  <2> TAKE b \in 0..15
  <2>1. /\ High(4352, 0) = 4352 /\ High(4352, 1) = 2176 /\ High(4352, 2) = 1088
        /\ High(4352, 3) = 544 /\ High(4352, 4) = 272 /\ High(4352, 5) = 136
        /\ High(4352, 6) = 68 /\ High(4352, 7) = 34 /\ High(4352, 8) = 17
        /\ High(4352, 9) = 8 /\ High(4352, 10) = 4 /\ High(4352, 11) = 2
        /\ High(4352, 12) = 1 /\ High(4352, 13) = 0 /\ High(4352, 14) = 0
        /\ High(4352, 15) = 0
    BY DEF High
  <2>2. b \in {0, 1, 2, 3, 4, 5, 6, 7, 8, 9, 10, 11, 12, 13, 14, 15}
    OBVIOUS
  <2> QED
    BY <2>1, <2>2
<1>2. \A b \in 0..15 : b \in Word(4352) <=> High(4352, b) % 2 = 1
  BY DEF Word, High
<1>3. Word(4352) \subseteq 0..15 /\ {8, 12} \subseteq 0..15
  BY DEF Word
<1> QED
  BY <1>1, <1>2, <1>3

LEMMA FlushedEnd ==
  ASSUME Sound, NEW c \in Clients, FlushState(mem, vlan, was[c], LastStep)
  PROVE  Flushed(was[c])
<1> DEFINE old == was[c]
<1>0. /\ LastTag \in Nat /\ LastEntry \in Nat /\ Ahead = 9 + LastTag
      /\ Shaped(vlan) /\ Shaped(old)
  BY Assumed DEF Ahead, Sound, Shapes
<1>1. LastStep >= 6 /\ LastStep >= 4 /\ \A i \in 1..LastTag : LastStep >= 6 + i
  BY <1>0 DEF LastStep
<1>2. /\ 1 \in mem[<<2, 6>>] /\ mem[<<3, 23>>] \intersect {6, 7} = {}
      /\ \A i \in 1..LastTag : mem[<<2, TagReg(i - 1)>>] = Word(i)
  BY <1>1 DEF FlushState, PortsState
<1>3. ASSUME NEW i \in DOMAIN vlan
      PROVE  vlan[i] = IF i \notin 1..LastEntry THEN old[i]
               ELSE [old[i] EXCEPT ![211] = IF i = LastEntry THEN 0..7 ELSE {i - 1},
                                   ![212] = {8, 12}, ![216] = {15}]
  <2>0. i \in DOMAIN Factory
    BY <1>0 DEF Shaped
  <2>1. vlan[i] = IF Stored(mem, LastStep, i) THEN FieldsAt(old, i, 7) ELSE old[i]
    BY <2>0 DEF FlushState, TableState
  <2>2. CASE i \notin 1..LastEntry
    BY <2>1, <2>2 DEF Stored
  <2>3. CASE i \in 1..LastEntry
    <3>1. Stored(mem, LastStep, i)
      BY <1>0, <2>3 DEF Stored, LastStep, Base
    <3>2. old[i] = [f \in Fields |-> old[i][f]]
      BY <1>0, <2>0 DEF Shaped
    <3>3. FieldsAt(old, i, 7) =
            [old[i] EXCEPT ![211] = MembersOf(i), ![212] = {8, 12}, ![216] = {15}]
      <4> DEFINE g == [old[i] EXCEPT ![211] = MembersOf(i), ![212] = {8, 12}, ![216] = {15}]
      <4>1. g = [f \in Fields |-> g[f]] /\ FieldsAt(old, i, 7) = [f \in Fields |-> FieldsAt(old, i, 7)[f]]
        <5>1. g = [f \in Fields |-> g[f]]
          BY ONLY <3>2
        <5>2. FieldsAt(old, i, 7) = [f \in Fields |-> FieldsAt(old, i, 7)[f]]
          BY ONLY FieldsEnds
        <5> QED
          BY ONLY <5>1, <5>2
      <4>2. /\ g[211] = MembersOf(i) /\ g[212] = {8, 12} /\ g[216] = {15}
            /\ g[213] = old[i][213]
        BY <3>2, Assumed
      <4>3. /\ FieldsAt(old, i, 7)[211] = MembersOf(i) /\ FieldsAt(old, i, 7)[212] = {8, 12}
            /\ FieldsAt(old, i, 7)[216] = {15} /\ FieldsAt(old, i, 7)[213] = old[i][213]
        <5>1. \A f \in Fields : FieldsAt(old, i, 7)[f] =
                 IF 7 >= SetBy(f) THEN NewField(i, f) ELSE old[i][f]
          BY DEF FieldsAt
        <5>2. /\ SetBy(211) = 3 /\ SetBy(212) = 4 /\ SetBy(216) = 5 /\ SetBy(213) = 9
              /\ NewField(i, 211) = MembersOf(i) /\ NewField(i, 212) = {8, 12}
              /\ NewField(i, 216) = {15}
          BY LastWord DEF SetBy, NewField
        <5> QED
          BY <5>1, <5>2, Assumed
      <4> HIDE DEF g
      <4>4. \A f \in Fields : g[f] = FieldsAt(old, i, 7)[f]
        <5>1. \A f \in Fields : f = 211 \/ f = 212 \/ f = 213 \/ f = 216
          BY Assumed
        <5> QED
          BY ONLY <4>2, <4>3, <5>1
      <4>5. g = FieldsAt(old, i, 7)
        BY <4>1, <4>4
      <4> QED
        BY <4>5 DEF g
    <3> QED
      BY <2>1, <2>3, <3>1, <3>3 DEF MembersOf
  <2> QED
    BY <2>2, <2>3
<1> QED
  BY <1>2, <1>3 DEF Flushed

LandsInv == Sound /\ \A c \in Clients : Quiet(c) => Alone(c)

Lands == \A c \in Clients :
  /\ run[c].name = "-e" /\ c \notin disturbed
  /\ status[c] = "running" /\ status'[c] = "ended"
  => Flushed(was[c])

LEMMA LandsStep == ASSUME LandsInv, [Next]_vars PROVE Lands
<1> SUFFICES ASSUME NEW c \in Clients, run[c].name = "-e", c \notin disturbed,
                    status[c] = "running", status'[c] = "ended"
             PROVE  Flushed(was[c])
  BY DEF Lands
<1>1. Sound /\ Alone(c) /\ Program(run[c]) = Flush
  BY FlushProgram DEF LandsInv, Quiet
<1>2. status' # status
  OBVIOUS
<1>3. ASSUME NEW u \in Clients, Exec(u) PROVE FALSE
  BY <1>1, <1>3 DEF Exec, Sound, Shapes
<1>4. ASSUME NEW u \in Clients, NoDevice(u) \/ NullArgument(u) PROVE FALSE
  <2>1. PICK how : status' = [status EXCEPT ![u] = how]
    BY <1>4 DEF NoDevice, NullArgument, End
  <2>2. u = c
    BY <1>1, <2>1 DEF Sound, Shapes
  <2> QED
    BY <1>1, <1>4, <2>2 DEF NoDevice, NullArgument, End, Sound, Shapes
<1>5. ASSUME NEW u \in Clients, Exit(u) PROVE Flushed(was[c])
  <2>1. PICK how : status' = [status EXCEPT ![u] = how]
    BY <1>5 DEF Exit, End
  <2>2. u = c
    BY <1>1, <2>1 DEF Sound, Shapes
  <2>3. pc[c] \notin 1..LastStep
    BY <1>1, <1>5, <2>2, FlushAt DEF Exit, Left, LastStep
  <2>4. pc[c] - 1 = LastStep
    <3>1. LastStep \in Nat
      BY Assumed DEF LastStep
    <3> QED
      BY <1>1, <2>3, <3>1 DEF Alone
  <2> QED
    BY <1>1, <2>4, FlushedEnd DEF Alone
<1>6. ASSUME UNCHANGED status PROVE FALSE
  BY <1>2, <1>6
<1> QED
  BY <1>3, <1>4, <1>5, <1>6, Accesses, ChipAlone DEF Next, Main, Chip, vars, Issue, Done

(* A -e that nothing disturbs leaves the switch as app.c says: each entry  *)
(* it names valid with its member and tag bits, all other entries, and the *)
(* fields it does not set, as they were, and the ports and the VLAN mode   *)
(* set; whatever was left in the registers before, and whatever reads,     *)
(* counts and dumps beside it.                                             *)
THEOREM FlushDone == Spec => FlushLands
<1>1. Init => LandsInv
  <2>1. Init => \A c \in Clients : ~Quiet(c)
    BY DEF Init, Quiet
  <2> QED
    BY <2>1, SoundInit DEF LandsInv
<1>2. LandsInv /\ [Next]_vars => LandsInv'
  BY SoundStep, AloneStep DEF LandsInv
<1>3. LandsInv /\ [Next]_vars => [Lands]_vars
  BY LandsStep
<1>4. [][Lands]_vars => FlushLands
  BY PTL DEF FlushLands, Lands
<1> QED
  BY <1>1, <1>2, <1>3, <1>4, PTL DEF Spec
=============================================================================
