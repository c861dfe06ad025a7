------------------------- MODULE Ip1810ScriptProofs -------------------------
(* The words that name the entries of the VLAN table differ. *)
EXTENDS Ip1810Script, TLAPS

(* The bits of a number from bit b up. *)
High(n, b) == n \div 2^b

LEMMA SameBits ==
  ASSUME NEW n, NEW m, Word(n) = Word(m)
  PROVE  \A b \in 0..15 : High(n, b) % 2 = 1 <=> High(m, b) % 2 = 1
<1>1. \A x, b : b \in 0..15 => (b \in Word(x) <=> High(x, b) % 2 = 1)
  BY DEF Word, High
<1>2. \A b \in 0..15 : b \in Word(n) <=> b \in Word(m)
  OBVIOUS
<1> QED
  BY <1>1, <1>2

HalvesAt(n, b) ==
  /\ High(n, b) \in Nat /\ High(n, b) = 2 * High(n, b + 1) + (High(n, b) % 2)
  /\ High(n, b) % 2 \in {0, 1}

LEMMA Halves ==
  \A n \in Nat : n < 16384 =>
   /\ HalvesAt(n, 0) /\ HalvesAt(n, 1) /\ HalvesAt(n, 2) /\ HalvesAt(n, 3)
   /\ HalvesAt(n, 4) /\ HalvesAt(n, 5) /\ HalvesAt(n, 6) /\ HalvesAt(n, 7)
   /\ HalvesAt(n, 8) /\ HalvesAt(n, 9) /\ HalvesAt(n, 10) /\ HalvesAt(n, 11)
   /\ HalvesAt(n, 12) /\ HalvesAt(n, 13)
   /\ High(n, 14) = 0 /\ High(n, 15) = 0 /\ High(n, 0) = n
BY DEF High, HalvesAt

LEMMA LowBits ==
  \A n \in Nat : n < 16384 => \A b \in 0..13 : HalvesAt(n, b)
<1> TAKE n \in Nat
<1> HAVE n < 16384
<1> TAKE b \in 0..13
<1>1. b \in {0, 1, 2, 3, 4, 5, 6, 7, 8, 9, 10, 11, 12, 13}
  OBVIOUS
<1> QED
  BY <1>1, Halves

(* A word of fewer than 14 bits has neither of the two highest bits, and   *)
(* names one entry of the table.                                           *)
LEMMA WordInjective ==
  ASSUME NEW n \in Nat, NEW m \in Nat, n < 16384, m < 16384, Word(n) = Word(m)
  PROVE  n = m
<1>1. \A b \in 0..15 : High(n, b) % 2 = 1 <=> High(m, b) % 2 = 1
  BY SameBits
<1>2. ASSUME NEW b \in 0..13, High(n, b + 1) = High(m, b + 1)
      PROVE  High(n, b) = High(m, b)
  <2>1. HalvesAt(n, b) /\ HalvesAt(m, b)
    BY LowBits
  <2>2. High(n, b) % 2 = 1 <=> High(m, b) % 2 = 1
    BY <1>1
  <2> QED
    BY <1>2, <2>1, <2>2 DEF HalvesAt
<1>3. High(n, 14) = High(m, 14) /\ High(n, 0) = n /\ High(m, 0) = m
  BY Halves
<1>4. /\ High(n, 13 + 1) = High(m, 13 + 1) => High(n, 13) = High(m, 13)
      /\ High(n, 12 + 1) = High(m, 12 + 1) => High(n, 12) = High(m, 12)
      /\ High(n, 11 + 1) = High(m, 11 + 1) => High(n, 11) = High(m, 11)
      /\ High(n, 10 + 1) = High(m, 10 + 1) => High(n, 10) = High(m, 10)
      /\ High(n, 9 + 1) = High(m, 9 + 1) => High(n, 9) = High(m, 9)
      /\ High(n, 8 + 1) = High(m, 8 + 1) => High(n, 8) = High(m, 8)
      /\ High(n, 7 + 1) = High(m, 7 + 1) => High(n, 7) = High(m, 7)
  BY <1>2
<1>5. /\ High(n, 6 + 1) = High(m, 6 + 1) => High(n, 6) = High(m, 6)
      /\ High(n, 5 + 1) = High(m, 5 + 1) => High(n, 5) = High(m, 5)
      /\ High(n, 4 + 1) = High(m, 4 + 1) => High(n, 4) = High(m, 4)
      /\ High(n, 3 + 1) = High(m, 3 + 1) => High(n, 3) = High(m, 3)
      /\ High(n, 2 + 1) = High(m, 2 + 1) => High(n, 2) = High(m, 2)
      /\ High(n, 1 + 1) = High(m, 1 + 1) => High(n, 1) = High(m, 1)
      /\ High(n, 0 + 1) = High(m, 0 + 1) => High(n, 0) = High(m, 0)
  BY <1>2
<1> QED
  BY <1>3, <1>4, <1>5

LEMMA HighBits ==
  ASSUME NEW n \in Nat, n < 16384 PROVE 14 \notin Word(n) /\ 15 \notin Word(n)
<1>1. \A x, b : b \in 0..15 => (b \in Word(x) <=> High(x, b) % 2 = 1)
  BY DEF Word, High
<1>2. High(n, 14) = 0 /\ High(n, 15) = 0
  BY Halves
<1> QED
  BY <1>1, <1>2

(* The words of the table's commands. *)
LEMMA CommandWords ==
  ASSUME NEW e \in Nat, e < 16384
  PROVE  /\ 14 \notin Word(e) /\ 15 \notin Word(e)
         /\ 14 \notin FetchWord(e) /\ 15 \in FetchWord(e)
         /\ FetchWord(e) \ {15} = Word(e) /\ FetchWord(e) \ {14, 15} = Word(e)
         /\ 14 \in StoreWord(e) /\ 15 \in StoreWord(e)
         /\ StoreWord(e) \ {14, 15} = Word(e)
BY HighBits DEF FetchWord, StoreWord

(* The command register of a chip with these registers names entry e of    *)
(* its table, and no other entry.                                          *)
Names(regs, table, e) ==
  /\ regs = [a \in DOMAIN regs |-> regs[a]] /\ table = [i \in DOMAIN table |-> table[i]]
  /\ \A a \in DOMAIN regs : a = <<a[1], a[2]>>
  /\ <<2, TableCommand>> \in DOMAIN regs /\ \A f \in Fields : <<2, f>> \in DOMAIN regs
  /\ e \in DOMAIN table /\ regs[<<2, TableCommand>>] \ {14, 15} = Word(e)
  /\ \A f \in DOMAIN table : Word(f) = Word(e) => f = e

(* What the table engine then does. *)
Fetches(regs, table, e, done) ==
  (\A f \in Fields : done.mem[<<2, f>>] = table[e][f]) /\ done.vlan = table

Puts(regs, table, e, done) ==
  /\ \A f \in Fields : done.mem[<<2, f>>] = regs[<<2, f>>]
  /\ done.vlan = [table EXCEPT ![e] = [f \in Fields |-> regs[<<2, f>>]]]

Carries(regs, table, e, done) ==
  /\ done.mem = [a \in DOMAIN regs |-> done.mem[a]]
  /\ done.mem[<<2, TableCommand>>] = regs[<<2, TableCommand>>] \ {15}
  /\ \A a \in DOMAIN regs :
       a # <<2, TableCommand>> /\ (\A f \in Fields : a # <<2, f>>) => done.mem[a] = regs[a]
  /\ IF 14 \in regs[<<2, TableCommand>>]
     THEN Puts(regs, table, e, done) ELSE Fetches(regs, table, e, done)

(* A command that names an entry does its work on that entry only. *)
LEMMA TableEffect ==
  ASSUME NEW regs, NEW table, NEW e, Names(regs, table, e)
  PROVE  Carries(regs, table, e, TableDone(regs, table))
<1> DEFINE Addrs == DOMAIN regs
           done == TableDone(regs, table)
<1>0. /\ regs = [a \in Addrs |-> regs[a]] /\ table = [i \in DOMAIN table |-> table[i]]
      /\ \A a \in Addrs : a = <<a[1], a[2]>>
      /\ <<2, TableCommand>> \in Addrs /\ \A f \in Fields : <<2, f>> \in Addrs
      /\ e \in DOMAIN table /\ regs[<<2, TableCommand>>] \ {14, 15} = Word(e)
      /\ \A f \in DOMAIN table : Word(f) = Word(e) => f = e
      /\ done = TableDone(regs, table)
  BY DEF Names
<1> HIDE DEF done
<1> DEFINE cmd == regs[<<2, TableCommand>>]
           idle == [regs EXCEPT ![<<2, TableCommand>>] = cmd \ {15}]
           fields == [f \in Fields |-> regs[<<2, f>>]]
           x == CHOOSE x \in Entry(cmd, table) : TRUE
           fetched == [a \in Addrs |-> IF a[1] = 2 /\ a[2] \in Fields
                                       THEN table[x][a[2]] ELSE idle[a]]
           stored == [i \in DOMAIN table |-> IF i \in Entry(cmd, table) THEN fields ELSE table[i]]
<1>1. Entry(cmd, table) = {e}
  BY <1>0 DEF Entry
<1>2. x = e
  BY <1>1
<1>4. /\ idle[<<2, TableCommand>>] = cmd \ {15}
      /\ \A a \in Addrs : a # <<2, TableCommand>> => idle[a] = regs[a]
      /\ idle = [a \in Addrs |-> idle[a]]
  BY <1>0
<1>5. TableCommand \notin Fields
  BY DEF TableCommand, Fields
<1>6. ASSUME 14 \in cmd
      PROVE  done.mem = idle /\ done.vlan = [table EXCEPT ![e] = fields]
  <2>1. done = [mem |-> idle, vlan |-> stored]
    BY <1>0, <1>6 DEF TableDone
  <2>2. stored = [table EXCEPT ![e] = fields]
    BY <1>0, <1>1
  <2> HIDE DEF idle, stored, fields, cmd
  <2>3. done.mem = idle /\ done.vlan = stored
    BY ONLY <2>1
  <2> QED
    BY ONLY <2>2, <2>3
<1>7. ASSUME 14 \notin cmd
      PROVE  done.mem = fetched /\ done.vlan = table
  <2>1. done = [mem |-> fetched, vlan |-> table]
    BY <1>0, <1>1, <1>7 DEF TableDone
  <2> HIDE DEF fetched
  <2> QED
    BY <2>1
<1>8. /\ \A f \in Fields : fetched[<<2, f>>] = table[e][f]
      /\ \A a \in Addrs : (\A f \in Fields : a # <<2, f>>) => fetched[a] = idle[a]
      /\ fetched = [a \in Addrs |-> fetched[a]]
  <2>1. \A a \in Addrs : fetched[a] = IF a[1] = 2 /\ a[2] \in Fields
                                      THEN table[e][a[2]] ELSE idle[a]
    <3> HIDE DEF x, idle
    <3> QED
      BY ONLY <1>2 DEF fetched
  <2>2. fetched = [a \in Addrs |-> fetched[a]]
    OBVIOUS
  <2> HIDE DEF fetched, idle
  <2>3. \A f \in Fields : fetched[<<2, f>>] = table[e][f]
    BY <1>0, <2>1
  <2>4. \A a \in Addrs : (\A f \in Fields : a # <<2, f>>) => fetched[a] = idle[a]
    BY <1>0, <2>1
  <2> QED
    BY <2>2, <2>3, <2>4
<1> HIDE DEF cmd, idle, fetched, stored, x
<1>9. \A f \in Fields : <<2, f>> # <<2, TableCommand>> /\ idle[<<2, f>>] = regs[<<2, f>>]
  BY <1>0, <1>4, <1>5
<1>10. CASE 14 \in cmd
  BY <1>4, <1>6, <1>9, <1>10 DEF cmd, fields, Carries, Puts, done
<1>11. CASE 14 \notin cmd
  <2> DEFINE after == done.mem
  <2>1. after = fetched /\ done.vlan = table
    BY <1>7, <1>11
  <2> HIDE DEF after
  <2>2. \A f \in Fields : <<2, f>> # <<2, TableCommand>>
    BY <1>5
  <2>3. after[<<2, TableCommand>>] = cmd \ {15}
    BY <1>0, <1>4, <1>8, <2>1, <2>2
  <2>4. \A a \in Addrs : a # <<2, TableCommand>> /\ (\A f \in Fields : a # <<2, f>>)
                          => after[a] = regs[a]
    BY <1>4, <1>8, <2>1
  <2>5. after = [a \in Addrs |-> after[a]] /\ \A f \in Fields : after[<<2, f>>] = table[e][f]
    BY <1>8, <2>1
  <2> QED
    BY <1>11, <2>1, <2>3, <2>4, <2>5 DEF cmd, Carries, Fetches, done, after
<1> QED
  BY <1>10, <1>11
=============================================================================
