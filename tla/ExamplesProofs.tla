--------------------------- MODULE ExamplesProofs ---------------------------
(***************************************************************************)
(* Proofs about the small programs, each for every number of threads,      *)
(* callers, cells and elements: the completion driver, the timer and       *)
(* workqueue modules, the loading of the misc drivers, the list, the       *)
(* sorting programs and the binary search.  Each program is proved about   *)
(* alone; at the end, what holds of all of them when one is chosen to run. *)
(***************************************************************************)
EXTENDS MCExamples, FiniteSetTheorems, SequenceTheorems, WellFoundedInduction, TLAPS

(* The completion driver. *)

LEMMA ClampBounds ==
  ASSUME NEW n \in Nat
  PROVE  Clamp(n) \in Nat /\ Clamp(n) <= MAX /\ Clamp(n) <= n
BY CompleteAssumption DEF Clamp

(* A copy never goes past the clamped count, which fits the buffer. *)
InBounds ==
  \A t \in Threads :
    /\ pc[t] \in {"copyIn", "copyOut", "done"} =>
         count[t] <= MAX /\ copied[t] <= count[t]
    /\ pc[t] \in {"idle", "wait"} => copied[t] = 0

CompleteInv == TypeOK /\ InBounds

(* What a call leaves behind when it is over has the right types. *)
LEMMA ForgetType ==
  ASSUME TypeOK, NEW t \in Threads, Forget(t)
  PROVE  /\ got' \in [Threads -> [Bytes -> Contents \union {"outside"}]]
         /\ count' \in [Threads -> Nat] /\ copied' \in [Threads -> 0..MAX]
         /\ waited' \in [Threads -> {"completed", "interrupted"}]
<1> DEFINE blank == [k \in Bytes |-> "zero"]
<1>1. blank \in [Bytes -> Contents \union {"outside"}]
  BY DEF Contents
<1>2. got' = [got EXCEPT ![t] = blank]
  BY DEF Forget
<1> HIDE DEF blank
<1>3. got' \in [Threads -> [Bytes -> Contents \union {"outside"}]]
  BY <1>1, <1>2 DEF TypeOK
<1> QED
  BY <1>3, CompleteAssumption DEF TypeOK, Forget

LEMMA CompleteInit == Init => CompleteInv
<1> SUFFICES ASSUME Init PROVE CompleteInv
  OBVIOUS
<1>1. 0 \in Bytes
  BY CompleteAssumption DEF Bytes
<1>2. TypeOK
  BY <1>1, CompleteAssumption DEF Init, TypeOK, Contents
<1>3. InBounds
  BY DEF Init, InBounds
<1> QED
  BY <1>2, <1>3 DEF CompleteInv

LEMMA CompleteStep == CompleteInv /\ [Next]_vars => CompleteInv'
<1> SUFFICES ASSUME CompleteInv, [Next]_vars PROVE CompleteInv'
  OBVIOUS
<1> USE CompleteAssumption
<1> USE DEF CompleteInv, TypeOK, InBounds, Go
<1>1. CASE UNCHANGED vars
  BY <1>1 DEF vars, com, buffers, budget
<1>2. ASSUME NEW t \in Threads, StartRead(t) PROVE CompleteInv'
  BY <1>2 DEF StartRead, Start, com, buffers
<1>3. ASSUME NEW t \in Threads, StartWrite(t) PROVE CompleteInv'
  <2> PICK n \in Counts : count' = [count EXCEPT ![t] = Clamp(n)]
    BY <1>3 DEF StartWrite
  <2> Clamp(n) \in Nat /\ Clamp(n) <= MAX
    BY ClampBounds
  <2> QED
    BY <1>3 DEF StartWrite, Start, com, buffers
<1>4. ASSUME NEW t \in Threads, Llseek(t) PROVE CompleteInv'
  BY <1>4 DEF Llseek, com, buffers, budget
<1>5. ASSUME NEW t \in Threads, Woken(t) \/ Interrupted(t) PROVE CompleteInv'
  <2> Clamp(count[t]) \in Nat /\ Clamp(count[t]) <= MAX
    BY ClampBounds
  <2>1. InBounds'
    BY <1>5 DEF Woken, Interrupted, Wait
  <2>2. waited' \in [Threads -> {"completed", "interrupted"}]
    BY <1>5 DEF Woken, Interrupted, Wait
  <2>3. done' \in Nat /\ taken' \in Nat /\ given' \in Nat /\ all' \in Nat
    BY <1>5 DEF Woken, Interrupted, com
  <2>4. signals' \in 0..MaxSignals
    BY <1>5 DEF Woken, Interrupted
  <2>5. /\ pc' = [pc EXCEPT ![t] = "copyOut"]
        /\ count' = [count EXCEPT ![t] = Clamp(@)]
        /\ UNCHANGED <<option, buffers, f_pos, copied, calls, faults>>
    BY <1>5 DEF Woken, Interrupted, Wait
  <2> HIDE DEF InBounds
  <2> QED
    BY <2>1, <2>2, <2>3, <2>4, <2>5 DEF buffers
<1>6. ASSUME NEW t \in Threads, CopyOut(t) PROVE CompleteInv'
  <2>1. copied[t] \in Bytes /\ copied[t] + 1 \in 0..MAX
    BY <1>6 DEF CopyOut, Bytes
  <2>2. got' \in [Threads -> [Bytes -> Contents \union {"outside"}]]
    <3> DEFINE k == f_pos[t] + copied[t]
               c == IF k < MAX THEN c_kbuf[k] ELSE "outside"
    <3>1. c \in Contents \union {"outside"}
      BY <2>1 DEF Bytes
    <3>2. got' = [got EXCEPT ![t][copied[t]] = c]
      BY <1>6 DEF CopyOut
    <3> HIDE DEF c
    <3> QED
      BY <2>1, <3>1, <3>2
  <2> QED
    BY <1>6, <2>1, <2>2 DEF CopyOut, com, budget
<1>7. ASSUME NEW t \in Threads, CopyIn(t) PROVE CompleteInv'
  <2>1. copied[t] \in Bytes /\ copied[t] + 1 \in 0..MAX
    BY <1>7 DEF CopyIn, Bytes
  <2>2. c_kbuf' \in [Bytes -> Contents]
    BY <1>7, <2>1 DEF CopyIn, Contents
  <2> QED
    BY <1>7, <2>1, <2>2 DEF CopyIn, com, budget
<1>8. ASSUME NEW t \in Threads, ReadDone(t) \/ ReadReturn(t) PROVE CompleteInv'
  <2>1. CASE ReadDone(t)
    BY <2>1 DEF ReadDone, com, buffers, budget
  <2>2. CASE ReadReturn(t)
    <3>1. TypeOK'
      BY <2>2, ForgetType DEF ReadReturn, com, budget
    <3>2. InBounds'
      BY <2>2 DEF ReadReturn, Forget
    <3> QED
      BY <3>1, <3>2
  <2> QED
    BY <1>8, <2>1, <2>2
<1>9. ASSUME NEW t \in Threads, WriteDone(t) PROVE CompleteInv'
  <2>1. InBounds'
    BY <1>9 DEF WriteDone, Forget
  <2>3. Forget(t)
    BY <1>9 DEF WriteDone
  <2>2. done' \in Nat /\ taken' \in Nat /\ given' \in Nat /\ all' \in Nat
    BY <1>9 DEF WriteDone
  <2> QED
    BY <1>9, <2>1, <2>2, <2>3, ForgetType DEF WriteDone, budget
<1>10. ASSUME NEW t \in Threads, Fault(t) PROVE CompleteInv'
  <2>1. pc' = [pc EXCEPT ![t] = "idle"]
    BY <1>10 DEF Fault
  <2>2. faults' \in 0..MaxFaults
    BY <1>10 DEF Fault
  <2>3. Forget(t)
    BY <1>10 DEF Fault
  <2>4. InBounds'
    BY <2>1, <2>3 DEF Forget
  <2> QED
    BY <1>10, <2>1, <2>2, <2>3, <2>4, ForgetType DEF Fault, com
<1> QED
  BY <1>1, <1>2, <1>3, <1>4, <1>5, <1>6, <1>7, <1>8, <1>9, <1>10 DEF Next, Inside

(* What was copied from beyond the buffer belongs to a read in progress,   *)
(* whose position cannot change meanwhile.                                 *)
ReadingPastEnd ==
  \A t \in Threads, k \in Bytes : got[t][k] = "outside" =>
    pc[t] \in {"copyOut", "done"} /\ f_pos[t] + k >= MAX

LEMMA PastEndStep == CompleteInv /\ ReadingPastEnd /\ [Next]_vars => ReadingPastEnd'
<1> SUFFICES ASSUME CompleteInv, ReadingPastEnd, [Next]_vars PROVE ReadingPastEnd'
  OBVIOUS
<1> USE DEF CompleteInv, TypeOK, ReadingPastEnd, Go
<1>1. CASE UNCHANGED vars
  BY <1>1 DEF vars, com, buffers, budget
<1>2. ASSUME NEW t \in Threads, StartRead(t) \/ StartWrite(t) PROVE ReadingPastEnd'
  BY <1>2 DEF StartRead, StartWrite, Start, buffers
<1>3. ASSUME NEW t \in Threads, Llseek(t) PROVE ReadingPastEnd'
  BY <1>3 DEF Llseek, buffers
<1>4. ASSUME NEW t \in Threads, Woken(t) \/ Interrupted(t) PROVE ReadingPastEnd'
  BY <1>4 DEF Woken, Interrupted, Wait, buffers
<1>5. ASSUME NEW t \in Threads, CopyOut(t) PROVE ReadingPastEnd'
  <2> DEFINE m == copied[t]
             c == IF f_pos[t] + m < MAX THEN c_kbuf[f_pos[t] + m] ELSE "outside"
  <2>1. /\ m \in Bytes /\ f_pos[t] \in Nat
        /\ got' = [got EXCEPT ![t][m] = c]
        /\ pc[t] = "copyOut" /\ UNCHANGED <<pc, f_pos>>
    BY <1>5, CompleteAssumption DEF CopyOut, InBounds, Bytes
  <2>2. c = "outside" => f_pos[t] + m >= MAX
    <3>1. \A k \in Bytes : c_kbuf[k] # "outside"
      BY CompleteAssumption DEF Contents
    <3>2. f_pos[t] + m < MAX => f_pos[t] + m \in Bytes
      BY <2>1, CompleteAssumption DEF Bytes
    <3> QED
      BY <2>1, <3>1, <3>2, CompleteAssumption DEF Bytes
  <2> HIDE DEF c, m
  <2>3. ASSUME NEW u \in Threads, NEW k \in Bytes
        PROVE  got'[u][k] = IF u = t /\ k = m THEN c ELSE got[u][k]
    BY <2>1
  <2> QED
    BY <2>1, <2>2, <2>3
<1>6. ASSUME NEW t \in Threads, ReadDone(t) PROVE ReadingPastEnd'
  BY <1>6 DEF ReadDone, buffers
<1>7. ASSUME NEW t \in Threads, CopyIn(t) PROVE ReadingPastEnd'
  BY <1>7 DEF CopyIn
<1>8. ASSUME NEW t \in Threads, ReadReturn(t) \/ WriteDone(t) \/ Fault(t)
      PROVE  ReadingPastEnd'
  <2>1. Forget(t) /\ UNCHANGED f_pos /\ \A u \in Threads \ {t} : pc'[u] = pc[u]
    BY <1>8 DEF ReadReturn, WriteDone, Fault
  <2>2. ASSUME NEW u \in Threads, NEW k \in Bytes
        PROVE  got'[u][k] = IF u = t THEN "zero" ELSE got[u][k]
    BY <2>1 DEF Forget
  <2> QED
    BY <2>1, <2>2
<1> QED
  BY <1>1, <1>2, <1>3, <1>4, <1>5, <1>6, <1>7, <1>8 DEF Next, Inside

(* The variables keep their types: positions and writes stay inside the    *)
(* buffer, whatever the counts and offsets passed.  A read leaves it       *)
(* (complete.c:28), but only for the bytes past its end that a position    *)
(* set by llseek brings into its clamped count.                            *)
THEOREM CompleteTypes == Spec => [](TypeOK /\ OutsideOnlyPastEnd)
<1>1. CompleteInv => TypeOK
  BY DEF CompleteInv
<1>2. Init => ReadingPastEnd
  BY DEF Init, ReadingPastEnd
<1>3. ReadingPastEnd => OutsideOnlyPastEnd
  BY DEF ReadingPastEnd, OutsideOnlyPastEnd
<1> QED
  BY <1>1, <1>2, <1>3, CompleteInit, CompleteStep, PastEndStep, PTL DEF Spec
-----------------------------------------------------------------------------
(* Completions given are taken or left. *)
Balance == option = 0 => all = 0 /\ done + taken = given

LEMMA BalanceStep == CompleteInv /\ Balance /\ [Next]_vars => Balance'
<1> SUFFICES ASSUME CompleteInv, Balance, [Next]_vars PROVE Balance'
  OBVIOUS
<1> USE DEF CompleteInv, TypeOK, Balance
<1>1. ASSUME NEW t \in Threads, Woken(t) PROVE Balance'
  BY <1>1 DEF Woken, Wait
<1>2. ASSUME NEW t \in Threads, WriteDone(t) PROVE Balance'
  BY <1>2 DEF WriteDone
<1>3. CASE UNCHANGED <<option, com>>
  BY <1>3 DEF com
<1>4. ASSUME NEW t \in Threads, Next, ~Woken(t), ~WriteDone(t),
             StartRead(t) \/ StartWrite(t) \/ Llseek(t) \/ Interrupted(t) \/ Fault(t)
               \/ CopyOut(t) \/ CopyIn(t) \/ ReadDone(t) \/ ReadReturn(t)
      PROVE  UNCHANGED <<option, com>>
  BY <1>4 DEF StartRead, StartWrite, Start, Llseek, Interrupted, Wait, Fault,
              CopyOut, CopyIn, ReadDone, ReadReturn
<1>5. UNCHANGED vars => UNCHANGED <<option, com>>
  BY DEF vars
<1> QED
  BY <1>1, <1>2, <1>3, <1>4, <1>5 DEF Next, Inside

(* With option 0 the reads that a completion let go never outnumber the    *)
(* completed writes, for any threads and any signals and failed copies.    *)
THEOREM Counted == Spec => []OnePerWrite
<1>1. Init => Balance
  BY DEF Init, Balance
<1>2. CompleteInv /\ Balance => OnePerWrite
  BY DEF CompleteInv, TypeOK, Balance, OnePerWrite
<1> QED
  BY <1>1, <1>2, BalanceStep, CompleteInit, CompleteStep, PTL DEF Spec
-----------------------------------------------------------------------------
(* Once a write is completed the bytes that every write covers are         *)
(* written, a write in progress has written what it has copied, and a read *)
(* is let go only after a completion.                                      *)
Writing(t) == pc[t] = "copyIn" =>
  /\ \A k \in Bytes : k < copied[t] => c_kbuf[k] # "zero"
  /\ \E n \in Counts : count[t] = Clamp(n)

Reading(t) == pc[t] \in {"copyOut", "done"} /\ waited[t] = "completed" =>
  /\ given > 0
  /\ \A k \in Bytes : k < copied[t] /\ Covered(f_pos[t] + k) => got[t][k] # "zero"

Filled ==
  /\ given > 0 => \A k \in Bytes : Covered(k) => c_kbuf[k] # "zero"
  /\ done > 0 \/ all > 0 => given > 0
  /\ \A t \in Threads : /\ Writing(t) /\ Reading(t)
                        /\ pc[t] = "done" => copied[t] = count[t]

(* A call that is over leaves the others alone. *)
LEMMA ForgetOthers ==
  ASSUME TypeOK, NEW t \in Threads, Forget(t), NEW u \in Threads, u # t
  PROVE  got'[u] = got[u] /\ count'[u] = count[u] /\ copied'[u] = copied[u]
           /\ waited'[u] = waited[u]
BY DEF TypeOK, Forget

(* Whoever ends a call and writes nothing keeps what is filled. *)
LEMMA EndFilled ==
  ASSUME CompleteInv, Filled, NEW t \in Threads, Forget(t),
         pc' = [pc EXCEPT ![t] = "idle"],
         UNCHANGED <<c_kbuf, f_pos, given, done, all>>
  PROVE  Filled'
<1> USE DEF CompleteInv
<1>1. pc'[t] = "idle" /\ \A u \in Threads : u # t => pc'[u] = pc[u]
  BY DEF TypeOK
<1>2. ASSUME NEW u \in Threads, u # t
      PROVE  Writing(u)' /\ Reading(u)' /\ (pc[u] = "done" => copied[u] = count[u])'
  BY <1>1, <1>2, ForgetOthers DEF Filled, Writing, Reading, Covered
<1>3. Writing(t)' /\ Reading(t)' /\ (pc[t] = "done" => copied[t] = count[t])'
  BY <1>1 DEF Writing, Reading
<1> QED
  BY <1>2, <1>3 DEF Filled, Covered

LEMMA FilledStep == CompleteInv /\ Filled /\ [Next]_vars => Filled'
<1> SUFFICES ASSUME CompleteInv, Filled, [Next]_vars PROVE Filled'
  OBVIOUS
<1> USE CompleteAssumption
<1> USE DEF CompleteInv, TypeOK, InBounds, Filled, Writing, Reading, Covered, Go
<1>1. CASE UNCHANGED vars
  BY <1>1 DEF vars, com, buffers, budget
<1>2. ASSUME NEW t \in Threads, StartRead(t) PROVE Filled'
  BY <1>2 DEF StartRead, Start, com, buffers
<1>3. ASSUME NEW t \in Threads, StartWrite(t) PROVE Filled'
  <2> PICK n \in Counts : count' = [count EXCEPT ![t] = Clamp(n)]
    BY <1>3 DEF StartWrite
  <2>1. \A u \in Threads : u # t => Writing(u)' /\ Reading(u)'
    BY <1>3 DEF StartWrite, Start, com, buffers
  <2>2. Reading(t)' /\ Writing(t)'
    BY <1>3 DEF StartWrite, Start, Bytes
  <2> QED
    BY <1>3, <2>1, <2>2 DEF StartWrite, Start, com, buffers
<1>4. ASSUME NEW t \in Threads, Llseek(t) PROVE Filled'
  BY <1>4 DEF Llseek, com, buffers, budget
<1>5. ASSUME NEW t \in Threads, Woken(t) PROVE Filled'
  <2>1. given > 0 /\ given' = given /\ all' = all
    BY <1>5 DEF Woken
  <2>2. copied[t] = 0 /\ UNCHANGED <<c_kbuf, got, f_pos, copied>>
    BY <1>5 DEF Woken, Wait, buffers
  <2>3. \A u \in Threads : u # t => Writing(u)' /\ Reading(u)'
    BY <1>5, <2>1, <2>2 DEF Woken, Wait
  <2>4. Writing(t)' /\ Reading(t)'
    BY <1>5, <2>1, <2>2 DEF Woken, Wait, Bytes
  <2>5. \A u \in Threads : (pc[u] = "done" => copied[u] = count[u])'
    BY <1>5, <2>2 DEF Woken, Wait
  <2> QED
    BY <2>1, <2>2, <2>3, <2>4, <2>5
<1>6. ASSUME NEW t \in Threads, Interrupted(t) PROVE Filled'
  BY <1>6 DEF Interrupted, Wait, com, buffers
<1>7. ASSUME NEW t \in Threads, CopyOut(t) PROVE Filled'
  <2> DEFINE k == f_pos[t] + copied[t]
             c == IF k < MAX THEN c_kbuf[k] ELSE "outside"
  <2>1. got' = [got EXCEPT ![t][copied[t]] = c] /\ copied[t] \in Bytes
    BY <1>7 DEF CopyOut, Bytes
  <2>2. /\ copied' = [copied EXCEPT ![t] = @ + 1]
        /\ UNCHANGED <<c_kbuf, f_pos, pc, count, waited, done, all, given>>
    BY <1>7 DEF CopyOut, com
  <2>3. Reading(t)'
    <3> SUFFICES ASSUME waited[t] = "completed", NEW m \in Bytes, m < copied[t] + 1,
                        Covered(f_pos[t] + m)
                 PROVE  given > 0 /\ got'[t][m] # "zero"
      BY <2>2
    <3>1. given > 0
      BY <1>7 DEF CopyOut
    <3>2. CASE m = copied[t]
      <4>1. c # "zero"
        BY <3>1, <3>2 DEF Bytes
      <4> QED
        BY <2>1, <3>1, <3>2, <4>1
    <3>3. CASE m # copied[t]
      <4>1. m < copied[t] /\ got'[t][m] = got[t][m]
        BY <2>1, <3>3 DEF Bytes
      <4> QED
        BY <1>7, <3>1, <4>1 DEF CopyOut
    <3> QED
      BY <3>2, <3>3
  <2>4. \A u \in Threads : u # t => Reading(u)'
    BY <2>1, <2>2
  <2>5. \A u \in Threads : Writing(u)'
    BY <1>7, <2>2 DEF CopyOut
  <2> QED
    BY <1>7, <2>2, <2>3, <2>4, <2>5 DEF CopyOut
<1>8. ASSUME NEW t \in Threads, CopyIn(t) PROVE Filled'
  BY <1>8 DEF CopyIn, com, budget, Bytes
<1>9. ASSUME NEW t \in Threads, ReadDone(t) \/ ReadReturn(t) PROVE Filled'
  <2>1. CASE ReadDone(t)
    BY <2>1 DEF ReadDone, com, buffers, budget
  <2>2. CASE ReadReturn(t)
    BY <2>2, EndFilled DEF ReadReturn, com
  <2> QED
    BY <1>9, <2>1, <2>2
<1>10. ASSUME NEW t \in Threads, WriteDone(t) PROVE Filled'
  <2>1. /\ pc[t] = "copyIn" /\ pc' = [pc EXCEPT ![t] = "idle"]
        /\ copied[t] = count[t]
        /\ given' > 0
        /\ Forget(t) /\ UNCHANGED <<c_kbuf, f_pos>>
    BY <1>10 DEF WriteDone
  <2>2. \A k \in Bytes : Covered(k) => c_kbuf'[k] # "zero"
    <3> PICK n \in Counts : count[t] = Clamp(n)
      BY <2>1
    <3> QED
      BY <2>1 DEF Bytes, Clamp
  <2>3. ASSUME NEW u \in Threads, u # t
        PROVE  Writing(u)' /\ Reading(u)' /\ (pc[u] = "done" => copied[u] = count[u])'
    BY <2>1, <2>3, ForgetOthers
  <2>4. Writing(t)' /\ Reading(t)' /\ (pc[t] = "done" => copied[t] = count[t])'
    BY <2>1
  <2> QED
    BY <2>1, <2>2, <2>3, <2>4
<1>11. ASSUME NEW t \in Threads, Fault(t) PROVE Filled'
  BY <1>11, EndFilled DEF Fault, com
<1> QED
  BY <1>1, <1>2, <1>3, <1>4, <1>5, <1>6, <1>7, <1>8, <1>9, <1>10, <1>11
  DEF Next, Inside

(* A completed read returns no byte from before the first write among      *)
(* those that every write covers.                                          *)
THEOREM Written == Spec => []ReadsAreWritten
<1>1. Init => Filled
  BY DEF Init, Filled, Writing, Reading
<1>2. CompleteInv /\ Filled => ReadsAreWritten
  BY DEF CompleteInv, TypeOK, Filled, Reading, ReadsAreWritten
<1> QED
  BY <1>1, <1>2, FilledStep, CompleteInit, CompleteStep, PTL DEF Spec
-----------------------------------------------------------------------------
(* Binary search. *)

(* What is left of the array when the number has not been found: it is     *)
(* nowhere else.                                                           *)
Narrowed == b < 0 =>
  \A k \in Search!Positions : table[k] = wanted => first <= k /\ k <= last

(* Every turn takes at least one position away, and never reads outside. *)
NotCrossed == first <= last + 1

SearchInv ==
  Search!TypeOK /\ Search!Ascending /\ NotCrossed /\ Narrowed /\ Search!FindsIt

(* The middle of what is left is in what is left, so it is read inside the *)
(* array and taken away by either turn; what is there is an integer.       *)
LEMMA MidInside ==
  ASSUME Search!TypeOK, first <= last
  PROVE  Search!mid \in Search!Positions /\ first <= Search!mid /\ Search!mid <= last
BY ExamplesAssumption DEF Search!TypeOK, Search!mid, Search!Positions

LEMMA TableInt ==
  ASSUME Search!TypeOK, NEW k \in Search!Positions
  PROVE  table[k] \in Int /\ wanted \in Int
<1>1. table[k] \in Numbers /\ wanted \in Numbers
  BY DEF Search!TypeOK
<1> QED
  BY <1>1, ExamplesAssumption

LEMMA SearchInit == Search!Init => SearchInv
<1> SUFFICES ASSUME Search!Init PROVE SearchInv
  OBVIOUS
<1> USE ExamplesAssumption DEF Search!Init
<1>1. Search!TypeOK
  BY DEF Search!TypeOK
<1>2. NotCrossed /\ Narrowed /\ Search!FindsIt
  BY DEF NotCrossed, Narrowed, Search!FindsIt, Search!Positions
<1> QED
  BY <1>1, <1>2 DEF SearchInv

LEMMA SearchStep == SearchInv /\ [Search!Next]_(Search!vars) => SearchInv'
<1> SUFFICES ASSUME SearchInv, [Search!Next]_(Search!vars) PROVE SearchInv'
  OBVIOUS
<1> USE DEF SearchInv
<1>0. Length \in Nat
  BY ExamplesAssumption
<1>1. CASE Search!Right
  <2>1. Search!mid \in Search!Positions /\ first <= Search!mid /\ Search!mid <= last
    BY <1>1, MidInside DEF Search!Right
  <2>2. Search!TypeOK' /\ Search!Ascending' /\ NotCrossed'
    BY <1>1, <1>0, <2>1
    DEF Search!Right, Search!TypeOK, Search!Ascending, NotCrossed, Search!Positions
  <2>3. ASSUME NEW k \in Search!Positions, table[k] = wanted PROVE k > Search!mid
    <3>1. table[k] > table[Search!mid]
      BY <1>1, <2>3 DEF Search!Right
    <3>2. table[k] \in Int /\ table[Search!mid] \in Int /\ k \in Int /\ Search!mid \in Int
      BY <2>1, TableInt DEF Search!Positions
    <3>3. k <= Search!mid => table[k] <= table[Search!mid]
      BY <2>1 DEF Search!Ascending
    <3> QED
      BY <3>1, <3>2, <3>3
  <2>4. Narrowed' /\ Search!FindsIt'
    BY <1>1, <2>1, <2>3
    DEF Search!Right, Search!TypeOK, Narrowed, Search!FindsIt, Search!Positions
  <2> QED
    BY <2>2, <2>4
<1>2. CASE Search!Left
  <2>1. Search!mid \in Search!Positions /\ first <= Search!mid /\ Search!mid <= last
    BY <1>2, MidInside DEF Search!Left
  <2>2. Search!TypeOK' /\ Search!Ascending' /\ NotCrossed'
    BY <1>2, <1>0, <2>1
    DEF Search!Left, Search!TypeOK, Search!Ascending, NotCrossed, Search!Positions
  <2>3. ASSUME NEW k \in Search!Positions, table[k] = wanted PROVE k < Search!mid
    <3>1. table[k] < table[Search!mid]
      BY <1>2, <2>3 DEF Search!Left
    <3>2. table[k] \in Int /\ table[Search!mid] \in Int /\ k \in Int /\ Search!mid \in Int
      BY <2>1, TableInt DEF Search!Positions
    <3>3. Search!mid <= k => table[Search!mid] <= table[k]
      BY <2>1 DEF Search!Ascending
    <3> QED
      BY <3>1, <3>2, <3>3
  <2>4. Narrowed' /\ Search!FindsIt'
    BY <1>2, <2>1, <2>3
    DEF Search!Left, Search!TypeOK, Narrowed, Search!FindsIt, Search!Positions
  <2> QED
    BY <2>2, <2>4
<1>3. CASE Search!Found
  <2>1. Search!mid \in Search!Positions
    BY <1>3, MidInside DEF Search!Found
  <2> QED
    BY <1>0, <1>3, <2>1
    DEF Search!Found, Search!TypeOK, Search!Ascending, NotCrossed, Narrowed,
        Search!FindsIt, Search!Positions
<1>4. CASE Search!NotFound
  BY <1>0, <1>4
  DEF Search!NotFound, Search!TypeOK, Search!Ascending, NotCrossed, Narrowed,
      Search!FindsIt, Search!Positions
<1>5. CASE UNCHANGED Search!vars
  BY <1>5
  DEF Search!vars, Search!TypeOK, Search!Ascending, NotCrossed, Narrowed,
      Search!FindsIt, Search!Positions
<1> QED
  BY <1>1, <1>2, <1>3, <1>4, <1>5 DEF Search!Next

(* The positions of binarysearch stay in the array, a position returned    *)
(* holds the number, and -1 is returned only if it is nowhere in the array.*)
THEOREM Finds == Search!Spec => [](Search!TypeOK /\ Search!FindsIt)
<1>1. SearchInv => Search!TypeOK /\ Search!FindsIt
  BY DEF SearchInv
<1> QED
  BY <1>1, SearchInit, SearchStep, PTL DEF Search!Spec
-----------------------------------------------------------------------------
(* The timer and workqueue modules. *)

(* Loading and unloading in order: what each module has when the loader    *)
(* has come to each of its calls.                                          *)
TimeInOrder ==
  /\ step \in 1..4
  /\ ~queue /\ ~pending /\ ~running
  /\ armed => step \in {2, 3} /\ handler = 0
  /\ handler # 0 => step \in {2, 3}
  /\ due = IF handler = 1 THEN 1 ELSE 0

(* An expiry is never too early once both the queue and the item exist. *)
WorkqueueInOrder ==
  /\ step \in 1..8 /\ handler \in 0..2
  /\ (queue <=> step \in 3..7) /\ (ready <=> step \in 4..8)
  /\ armed \/ handler # 0 => step \in 2..5
  /\ handler # 0 /\ step < 4 => rushed
  /\ pending \/ running => step \in 4..6
  /\ due = (IF pending THEN 1 ELSE 0) + (IF running THEN 1 ELSE 0)

Test2InOrder ==
  /\ step \in 1..6
  /\ (queue <=> step \in 2..5) /\ ready
  /\ ~armed /\ handler = 0
  /\ pending \/ running => step \in 3..4
  /\ due = (IF pending THEN 1 ELSE 0) + (IF running THEN 1 ELSE 0)

Flags ==
  /\ source \in {"time", "time_workqueue", "test2"}
  /\ armed \in BOOLEAN /\ queue \in BOOLEAN /\ ready \in BOOLEAN
  /\ pending \in BOOLEAN /\ running \in BOOLEAN
  /\ rushed \in BOOLEAN /\ crashed \in BOOLEAN
  /\ handler \in 0..2 /\ due \in 0..2

(* A crash stops everything, while the loader makes the queue. *)
TimerInv ==
  /\ Flags
  /\ crashed => source = "time_workqueue" /\ rushed /\ step \in {2, 3}
  /\ ~crashed => /\ source = "time" => TimeInOrder
                 /\ source = "time_workqueue" => WorkqueueInOrder
                 /\ source = "test2" => Test2InOrder

(* Which calls the numbers stand for. *)
LEMMA TimeSteps ==
  ASSUME source = "time"
  PROVE  /\ Timer!Calls = Timer!TimeCalls /\ DOMAIN Timer!Calls = 1..4
         /\ Timer!Position("add_timer") <=> step = 1
         /\ Timer!Position("loaded") <=> step = 2
         /\ Timer!Position("del_timer_sync") <=> step = 3
         /\ Timer!Position("gone") <=> step = 4
         /\ ~Timer!Position("create_workqueue") /\ ~Timer!Position("INIT_WORK")
         /\ ~Timer!Position("queue_work") /\ ~Timer!Position("flush_workqueue")
         /\ ~Timer!Position("destroy_workqueue")
BY DEF Timer!Calls, Timer!Position, Timer!TimeCalls

LEMMA WorkqueueSteps ==
  ASSUME source = "time_workqueue"
  PROVE  /\ Timer!Calls = Timer!TimeWorkqueueCalls /\ DOMAIN Timer!Calls = 1..8
         /\ Timer!Position("add_timer") <=> step = 1
         /\ Timer!Position("create_workqueue") <=> step = 2
         /\ Timer!Position("INIT_WORK") <=> step = 3
         /\ Timer!Position("loaded") <=> step = 4
         /\ Timer!Position("del_timer_sync") <=> step = 5
         /\ Timer!Position("flush_workqueue") <=> step = 6
         /\ Timer!Position("destroy_workqueue") <=> step = 7
         /\ Timer!Position("gone") <=> step = 8
         /\ ~Timer!Position("queue_work")
BY DEF Timer!Calls, Timer!Position, Timer!TimeWorkqueueCalls

LEMMA Test2Steps ==
  ASSUME source = "test2"
  PROVE  /\ Timer!Calls = Timer!Test2Calls /\ DOMAIN Timer!Calls = 1..6
         /\ Timer!Position("create_workqueue") <=> step = 1
         /\ Timer!Position("queue_work") <=> step = 2
         /\ Timer!Position("loaded") <=> step = 3
         /\ Timer!Position("flush_workqueue") <=> step = 4
         /\ Timer!Position("destroy_workqueue") <=> step = 5
         /\ Timer!Position("gone") <=> step = 6
         /\ ~Timer!Position("add_timer") /\ ~Timer!Position("INIT_WORK")
         /\ ~Timer!Position("del_timer_sync")
BY DEF Timer!Calls, Timer!Position, Timer!Test2Calls

(* The calls of the two handlers. *)
LEMMA HandlerCalls ==
  /\ source = "time" =>
       /\ Len(Timer!Handler) = 2
       /\ Timer!Handler[1] = "count" /\ Timer!Handler[2] = "mod_timer"
  /\ source # "time" =>
       /\ Len(Timer!Handler) = 2
       /\ Timer!Handler[1] = "mod_timer" /\ Timer!Handler[2] = "queue_work"
BY DEF Timer!Handler, Timer!TimeFuc, Timer!TimeWorkqueueFuc

LEMMA TimerTypes == TimerInv => Timer!TypeOK
<1> SUFFICES ASSUME TimerInv PROVE Timer!TypeOK
  OBVIOUS
<1> USE DEF TimerInv, Flags
<1>1. step \in DOMAIN Timer!Calls
  BY TimeSteps, WorkqueueSteps, Test2Steps
  DEF TimeInOrder, WorkqueueInOrder, Test2InOrder
<1>2. handler \in 0..Len(Timer!Handler)
  BY HandlerCalls
<1> QED
  BY <1>1, <1>2 DEF Timer!TypeOK

LEMMA TimerInit == Timer!Init => TimerInv
<1> SUFFICES ASSUME Timer!Init PROVE TimerInv
  OBVIOUS
<1>1. /\ source \in {"time", "time_workqueue", "test2"}
      /\ step = 1 /\ ~armed /\ handler = 0 /\ ~queue /\ ~pending /\ ~running /\ due = 0
      /\ ready <=> source = "test2"
      /\ ~crashed
  BY DEF Timer!Init
<1>2. Flags
  <2>1. armed = FALSE /\ queue = FALSE /\ pending = FALSE /\ running = FALSE
          /\ rushed = FALSE /\ crashed = FALSE /\ ready = (source = "test2")
    BY DEF Timer!Init
  <2>2. /\ armed \in BOOLEAN /\ queue \in BOOLEAN /\ ready \in BOOLEAN
        /\ pending \in BOOLEAN /\ running \in BOOLEAN
        /\ rushed \in BOOLEAN /\ crashed \in BOOLEAN
    BY <2>1
  <2>3. handler \in 0..2 /\ due \in 0..2
    BY <1>1
  <2> QED
    BY <1>1, <2>2, <2>3 DEF Flags
<1>3. (source = "time" => TimeInOrder) /\ (source = "test2" => Test2InOrder)
  BY <1>1 DEF TimeInOrder, Test2InOrder
<1>4. source = "time_workqueue" => WorkqueueInOrder
  BY <1>1 DEF WorkqueueInOrder
<1> QED
  BY <1>1, <1>2, <1>3, <1>4 DEF TimerInv

(* Each call of a handler but the last is followed by the next. *)
LEMMA HandlerTurns ==
  ASSUME NEW call, Flags, Timer!Fire(call)
  PROVE  \/ handler = 1 /\ handler' = 2
         \/ handler = 2 /\ handler' = 0
<1>1. Len(Timer!Handler) = 2
  BY HandlerCalls
<1>2. handler \in {1, 2} /\ handler' = (handler + 1) % 3
  BY <1>1 DEF Timer!Fire, Flags
<1> QED
  BY <1>2

(* Every flag is set, reset or left as it is. *)
LEMMA FlagsStay ==
  ASSUME Flags, Timer!Next
  PROVE  /\ UNCHANGED source
         /\ armed' \in BOOLEAN /\ queue' \in BOOLEAN /\ ready' \in BOOLEAN
         /\ pending' \in BOOLEAN /\ running' \in BOOLEAN
         /\ rushed' \in BOOLEAN /\ crashed' \in BOOLEAN
         /\ ~crashed
<1> USE DEF Flags
<1>1. CASE Timer!Loader
  BY <1>1
  DEF Timer!Loader, Timer!AddTimer, Timer!CreateWorkqueue, Timer!InitWork,
      Timer!LoadQueueWork, Timer!FlushWorkqueue, Timer!DestroyWorkqueue, Timer!Call,
      Timer!work, Timer!timer, Timer!QueueWork
<1>2. CASE Timer!DelTimerSync \/ Timer!Unload
  BY <1>2 DEF Timer!DelTimerSync, Timer!Unload, Timer!Call, Timer!work, Timer!timer
<1>3. CASE Timer!Reload
  BY <1>3 DEF Timer!Reload
<1>4. CASE Timer!Expire
  BY <1>4 DEF Timer!Expire, Timer!load, Timer!work
<1>5. CASE Timer!TimeFucStep
  BY <1>5
  DEF Timer!TimeFucStep, Timer!ModTimer, Timer!Count, Timer!FireQueueWork, Timer!Fire,
      Timer!QueueWork, Timer!load, Timer!work
<1>6. CASE Timer!Worker
  BY <1>6 DEF Timer!Worker, Timer!StartWork, Timer!DoWork, Timer!load, Timer!timer
<1> QED
  BY <1>1, <1>2, <1>3, <1>4, <1>5, <1>6 DEF Timer!Next

LEMMA TimeKeepsOrder ==
  ASSUME TimerInv, source = "time", Timer!Next
  PROVE  TimerInv'
<1>0. /\ ~crashed /\ ~queue /\ ~pending /\ ~running /\ step \in 1..4 /\ handler \in 0..2
      /\ armed => step \in {2, 3} /\ handler = 0
      /\ handler # 0 => step \in {2, 3}
      /\ due = IF handler = 1 THEN 1 ELSE 0
  BY DEF TimerInv, Flags, TimeInOrder
<1>t. Flags
  BY DEF TimerInv
<1>1. \/ step = 1 /\ step' = 2 /\ armed' /\ UNCHANGED <<handler, due>>
      \/ step = 2 /\ step' = 3 /\ UNCHANGED <<armed, handler, due>>
      \/ step = 3 /\ step' = 4 /\ handler = 0 /\ ~armed' /\ UNCHANGED <<handler, due>>
      \/ step = 4 /\ step' = 1 /\ ~armed' /\ handler' = 0 /\ due' = 0
      \/ armed /\ handler = 0 /\ ~armed' /\ handler' = 1 /\ due' = due + 1 /\ UNCHANGED step
      \/ handler = 1 /\ handler' = 2 /\ due' = due - 1 /\ UNCHANGED <<step, armed>>
      \/ handler = 2 /\ handler' = 0 /\ armed' /\ UNCHANGED <<step, due>>
  <2>1. ~Timer!CreateWorkqueue /\ ~Timer!InitWork /\ ~Timer!LoadQueueWork
          /\ ~Timer!FlushWorkqueue /\ ~Timer!DestroyWorkqueue
    BY TimeSteps
    DEF Timer!CreateWorkqueue, Timer!InitWork, Timer!LoadQueueWork,
        Timer!FlushWorkqueue, Timer!DestroyWorkqueue, Timer!Call
  <2>2. Timer!AddTimer => step = 1 /\ step' = 2 /\ armed' /\ UNCHANGED <<handler, due>>
    BY TimeSteps DEF Timer!AddTimer, Timer!Call
  <2>3. Timer!Unload => step = 2 /\ step' = 3 /\ UNCHANGED <<armed, handler, due>>
    BY TimeSteps DEF Timer!Unload, Timer!Call, Timer!timer
  <2>4. Timer!DelTimerSync =>
          step = 3 /\ step' = 4 /\ handler = 0 /\ ~armed' /\ UNCHANGED <<handler, due>>
    BY TimeSteps DEF Timer!DelTimerSync, Timer!Call
  <2>5. Timer!Reload => step = 4 /\ step' = 1 /\ ~armed' /\ handler' = 0 /\ due' = 0
    BY TimeSteps DEF Timer!Reload
  <2>6. Timer!Expire =>
          armed /\ handler = 0 /\ ~armed' /\ handler' = 1 /\ due' = due + 1 /\ UNCHANGED step
    BY DEF Timer!Expire, Timer!load
  <2>7. Timer!Count => handler = 1 /\ handler' = 2 /\ due' = due - 1 /\ UNCHANGED <<step, armed>>
    BY <1>0, <1>t, HandlerCalls, HandlerTurns DEF Timer!Count, Timer!Fire, Timer!load
  <2>8. Timer!ModTimer => handler = 2 /\ handler' = 0 /\ armed' /\ UNCHANGED <<step, due>>
    BY <1>0, <1>t, HandlerCalls, HandlerTurns DEF Timer!ModTimer, Timer!Fire, Timer!load
  <2>9. ~Timer!FireQueueWork /\ ~Timer!StartWork /\ ~Timer!DoWork
    BY <1>0, HandlerCalls DEF Timer!FireQueueWork, Timer!Fire, Timer!StartWork, Timer!DoWork
  <2> QED
    BY <2>1, <2>2, <2>3, <2>4, <2>5, <2>6, <2>7, <2>8, <2>9
    DEF Timer!Next, Timer!Loader, Timer!TimeFucStep, Timer!Worker
<1>2. ~queue' /\ ~pending' /\ ~running' /\ ~crashed'
  <2>1. Timer!Loader => ~queue' /\ ~pending' /\ ~running' /\ ~crashed'
    BY <1>0, TimeSteps
    DEF Timer!Loader, Timer!AddTimer, Timer!CreateWorkqueue, Timer!InitWork,
        Timer!LoadQueueWork, Timer!FlushWorkqueue, Timer!DestroyWorkqueue, Timer!Call,
        Timer!work
  <2>2. Timer!DelTimerSync \/ Timer!Unload \/ Timer!Reload \/ Timer!Expire =>
          ~queue' /\ ~pending' /\ ~running' /\ ~crashed'
    BY <1>0
    DEF Timer!DelTimerSync, Timer!Unload, Timer!Reload, Timer!Expire, Timer!work
  <2>3. Timer!TimeFucStep => ~queue' /\ ~pending' /\ ~running' /\ ~crashed'
    BY <1>0, HandlerCalls
    DEF Timer!TimeFucStep, Timer!ModTimer, Timer!Count, Timer!FireQueueWork, Timer!Fire,
        Timer!work
  <2>4. ~Timer!Worker
    BY <1>0 DEF Timer!Worker, Timer!StartWork, Timer!DoWork
  <2> QED
    BY <2>1, <2>2, <2>3, <2>4 DEF Timer!Next
<1>3. TimeInOrder'
  BY <1>0, <1>1, <1>2 DEF TimeInOrder
<1>4. Flags'
  BY <1>0, <1>1, FlagsStay DEF TimerInv, Flags
<1> QED
  BY <1>2, <1>3, <1>4, FlagsStay DEF TimerInv

LEMMA WorkqueueKeepsOrder ==
  ASSUME TimerInv, source = "time_workqueue", Timer!Next
  PROVE  TimerInv'
<1>t. Flags
  BY DEF TimerInv
<1>0. ~crashed /\ WorkqueueInOrder
  BY <1>t, FlagsStay DEF TimerInv
<1>1. ASSUME ~Timer!FireQueueWork PROVE WorkqueueInOrder' /\ ~crashed'
  <2>1. ASSUME Timer!AddTimer PROVE WorkqueueInOrder' /\ ~crashed'
    <3>1. /\ step = 1
          /\ step' = 2 /\ armed'
          /\ UNCHANGED <<handler, queue, ready, pending, running, due, rushed, crashed>>
      BY <1>0, <2>1, WorkqueueSteps
      DEF Timer!AddTimer, Timer!Call, Timer!work
    <3> QED
      BY <1>0, <3>1 DEF WorkqueueInOrder
  <2>2. ASSUME Timer!CreateWorkqueue PROVE WorkqueueInOrder' /\ ~crashed'
    <3>1. /\ step = 2
          /\ step' = 3 /\ queue'
          /\ UNCHANGED <<armed, handler, ready, pending, running, due, rushed, crashed>>
      BY <1>0, <2>2, WorkqueueSteps
      DEF Timer!CreateWorkqueue, Timer!Call, Timer!work, Timer!timer
    <3> QED
      BY <1>0, <3>1 DEF WorkqueueInOrder
  <2>3. ASSUME Timer!InitWork PROVE WorkqueueInOrder' /\ ~crashed'
    <3>1. /\ step = 3
          /\ step' = 4 /\ ready' /\ ~pending'
          /\ UNCHANGED <<armed, handler, queue, running, due, rushed, crashed>>
      BY <1>0, <2>3, WorkqueueSteps
      DEF Timer!InitWork, Timer!Call, Timer!timer
    <3> QED
      BY <1>0, <3>1 DEF WorkqueueInOrder
  <2>4. ASSUME Timer!Unload PROVE WorkqueueInOrder' /\ ~crashed'
    <3>1. /\ step = 4
          /\ step' = 5
          /\ UNCHANGED <<armed, handler, queue, ready, pending, running, due, rushed, crashed>>
      BY <1>0, <2>4, WorkqueueSteps
      DEF Timer!Unload, Timer!Call, Timer!work, Timer!timer
    <3> QED
      BY <1>0, <3>1 DEF WorkqueueInOrder
  <2>5. ASSUME Timer!DelTimerSync PROVE WorkqueueInOrder' /\ ~crashed'
    <3>1. /\ step = 5 /\ handler = 0
          /\ step' = 6 /\ ~armed'
          /\ UNCHANGED <<handler, queue, ready, pending, running, due, rushed, crashed>>
      BY <1>0, <2>5, WorkqueueSteps
      DEF Timer!DelTimerSync, Timer!Call, Timer!work
    <3> QED
      BY <1>0, <3>1 DEF WorkqueueInOrder
  <2>6. ASSUME Timer!FlushWorkqueue PROVE WorkqueueInOrder' /\ ~crashed'
    <3>1. /\ step = 6 /\ ~pending /\ ~running
          /\ step' = 7
          /\ UNCHANGED <<armed, handler, queue, ready, pending, running, due, rushed, crashed>>
      BY <1>0, <2>6, WorkqueueSteps
      DEF Timer!FlushWorkqueue, Timer!Drained, Timer!Call, Timer!work, Timer!timer
    <3> QED
      BY <1>0, <3>1 DEF WorkqueueInOrder
  <2>7. ASSUME Timer!DestroyWorkqueue PROVE WorkqueueInOrder' /\ ~crashed'
    <3>1. /\ step = 7 /\ ~pending /\ ~running
          /\ step' = 8 /\ ~queue'
          /\ UNCHANGED <<armed, handler, ready, pending, running, due, rushed, crashed>>
      BY <1>0, <2>7, WorkqueueSteps
      DEF Timer!DestroyWorkqueue, Timer!Drained, Timer!Call, Timer!work, Timer!timer
    <3> QED
      BY <1>0, <3>1 DEF WorkqueueInOrder
  <2>8. ASSUME Timer!Reload PROVE WorkqueueInOrder' /\ ~crashed'
    <3>1. /\ step = 8
          /\ step' = 1 /\ ~armed' /\ handler' = 0 /\ ~queue' /\ ~ready' /\ ~pending' /\ ~running' /\ due' = 0
          /\ UNCHANGED <<crashed>>
      BY <1>0, <2>8, WorkqueueSteps
      DEF Timer!Reload
    <3> QED
      BY <1>0, <3>1 DEF WorkqueueInOrder
  <2>9. ASSUME Timer!Expire PROVE WorkqueueInOrder' /\ ~crashed'
    <3>1. /\ armed /\ handler = 0 /\ ~armed' /\ handler' = 1
          /\ UNCHANGED <<step, queue, ready, pending, running, due, crashed>>
          /\ rushed' = (rushed \/ \E k \in DOMAIN Timer!Calls :
                                    Timer!Calls[k] = "loaded" /\ step < k)
      BY <2>9 DEF Timer!Expire, Timer!load, Timer!work
    <3>2. 4 \in DOMAIN Timer!Calls /\ Timer!Calls[4] = "loaded"
      BY WorkqueueSteps DEF Timer!TimeWorkqueueCalls
    <3>3. step < 4 => rushed'
      BY <3>1, <3>2
    <3> QED
      BY <1>0, <3>1, <3>3 DEF WorkqueueInOrder
  <2>10. ASSUME Timer!ModTimer PROVE WorkqueueInOrder' /\ ~crashed'
    <3>1. /\ handler = 1
          /\ handler' = 2 /\ armed'
          /\ UNCHANGED <<step, queue, ready, pending, running, due, rushed, crashed>>
      BY <1>0, <2>10, <1>t, HandlerCalls, HandlerTurns
      DEF Timer!ModTimer, Timer!Fire, Timer!load, Timer!work
    <3> QED
      BY <1>0, <3>1 DEF WorkqueueInOrder
  <2>11. ASSUME Timer!StartWork PROVE WorkqueueInOrder' /\ ~crashed'
    <3>1. /\ queue /\ pending /\ ~running
          /\ ~pending' /\ running'
          /\ UNCHANGED <<step, armed, handler, queue, ready, due, rushed, crashed>>
      BY <1>0, <2>11 DEF Timer!StartWork, Timer!load, Timer!timer
    <3> QED
      BY <1>0, <3>1 DEF WorkqueueInOrder
  <2>12. ASSUME Timer!DoWork PROVE WorkqueueInOrder' /\ ~crashed'
    <3>1. /\ running
          /\ ~running' /\ due' = due - 1
          /\ UNCHANGED <<step, armed, handler, queue, ready, pending, rushed, crashed>>
      BY <1>0, <2>12 DEF Timer!DoWork, Timer!load, Timer!timer
    <3> QED
      BY <1>0, <3>1 DEF WorkqueueInOrder
  <2>13. ~Timer!LoadQueueWork
    BY WorkqueueSteps DEF Timer!LoadQueueWork, Timer!Call
  <2>14. ~Timer!Count
    BY <1>t, HandlerCalls, HandlerTurns DEF Timer!Count, Timer!Fire
  <2> QED
    BY <1>1, <2>1, <2>2, <2>3, <2>4, <2>5, <2>6, <2>7, <2>8, <2>9, <2>10, <2>11, <2>12,
       <2>13, <2>14
    DEF Timer!Next, Timer!Loader, Timer!TimeFucStep, Timer!Worker
<1>2. ASSUME Timer!FireQueueWork
      PROVE  IF crashed' THEN rushed' /\ step' \in {2, 3} /\ due' \in 0..2 /\ handler' \in 0..2
                         ELSE WorkqueueInOrder'
  <2>1. /\ handler = 2 /\ handler' = 0
        /\ UNCHANGED <<step, armed, queue, ready, running, rushed>>
    BY <1>2, <1>t, HandlerCalls, HandlerTurns
    DEF Timer!FireQueueWork, Timer!QueueWork, Timer!Fire, Timer!load
  <2>2. queue /\ ready =>
          pending' /\ due' = (IF pending THEN due ELSE due + 1) /\ ~crashed'
    BY <1>2 DEF Timer!FireQueueWork, Timer!QueueWork
  <2>3. ~(queue /\ ready) => due' = due /\ crashed'
    BY <1>2 DEF Timer!FireQueueWork, Timer!QueueWork
  <2>4. due \in 0..2
    BY <1>t DEF Flags
  <2> QED
    BY <1>0, <2>1, <2>2, <2>3, <2>4 DEF WorkqueueInOrder
<1>3. handler' \in 0..2 /\ due' \in 0..2
  BY <1>1, <1>2 DEF WorkqueueInOrder
<1>4. Flags'
  BY <1>3, <1>t, FlagsStay DEF Flags
<1> QED
  BY <1>1, <1>2, <1>4, <1>t, FlagsStay DEF TimerInv

LEMMA Test2KeepsOrder ==
  ASSUME TimerInv, source = "test2", Timer!Next
  PROVE  TimerInv'
<1>t. Flags
  BY DEF TimerInv
<1>0. ~crashed /\ Test2InOrder
  BY <1>t, FlagsStay DEF TimerInv
<1>1. ASSUME Timer!CreateWorkqueue PROVE Test2InOrder' /\ ~crashed'
  <2>1. /\ step = 1 /\ step' = 2 /\ queue'
        /\ UNCHANGED <<armed, handler, ready, pending, running, due, crashed>>
    BY <1>1, Test2Steps DEF Timer!CreateWorkqueue, Timer!Call, Timer!work, Timer!timer
  <2> QED
    BY <1>0, <2>1 DEF Test2InOrder
<1>2. ASSUME Timer!LoadQueueWork PROVE Test2InOrder' /\ ~crashed'
  <2>1. /\ step = 2 /\ step' = 3 /\ UNCHANGED <<armed, handler, queue, ready, running>>
    BY <1>2, Test2Steps DEF Timer!LoadQueueWork, Timer!QueueWork, Timer!Call, Timer!timer
  <2>2. queue /\ ready =>
          pending' /\ due' = (IF pending THEN due ELSE due + 1) /\ ~crashed'
    BY <1>2 DEF Timer!LoadQueueWork, Timer!QueueWork
  <2> QED
    BY <1>0, <2>1, <2>2 DEF Test2InOrder
<1>3. ASSUME Timer!Unload PROVE Test2InOrder' /\ ~crashed'
  <2>1. /\ step = 3 /\ step' = 4
        /\ UNCHANGED <<armed, handler, queue, ready, pending, running, due, crashed>>
    BY <1>3, Test2Steps DEF Timer!Unload, Timer!Call, Timer!work, Timer!timer
  <2> QED
    BY <1>0, <2>1 DEF Test2InOrder
<1>4. ASSUME Timer!FlushWorkqueue PROVE Test2InOrder' /\ ~crashed'
  <2>1. /\ step = 4 /\ ~pending /\ ~running /\ step' = 5
        /\ UNCHANGED <<armed, handler, queue, ready, pending, running, due, crashed>>
    BY <1>4, Test2Steps
    DEF Timer!FlushWorkqueue, Timer!Drained, Timer!Call, Timer!work, Timer!timer
  <2> QED
    BY <1>0, <2>1 DEF Test2InOrder
<1>5. ASSUME Timer!DestroyWorkqueue PROVE Test2InOrder' /\ ~crashed'
  <2>1. /\ step = 5 /\ ~pending /\ ~running /\ step' = 6 /\ ~queue'
        /\ UNCHANGED <<armed, handler, ready, pending, running, due, crashed>>
    BY <1>5, Test2Steps
    DEF Timer!DestroyWorkqueue, Timer!Drained, Timer!Call, Timer!work, Timer!timer
  <2> QED
    BY <1>0, <2>1 DEF Test2InOrder
<1>6. ASSUME Timer!Reload PROVE Test2InOrder' /\ ~crashed'
  <2>1. /\ step' = 1 /\ ~armed' /\ handler' = 0 /\ ~queue' /\ ready' /\ ~pending'
        /\ ~running' /\ due' = 0 /\ UNCHANGED crashed
    BY <1>6 DEF Timer!Reload
  <2> QED
    BY <1>0, <2>1 DEF Test2InOrder
<1>7. ASSUME Timer!StartWork PROVE Test2InOrder' /\ ~crashed'
  <2>1. /\ pending /\ ~running /\ ~pending' /\ running'
        /\ UNCHANGED <<step, armed, handler, queue, ready, due, crashed>>
    BY <1>7 DEF Timer!StartWork, Timer!load, Timer!timer
  <2> QED
    BY <1>0, <2>1 DEF Test2InOrder
<1>8. ASSUME Timer!DoWork PROVE Test2InOrder' /\ ~crashed'
  <2>1. /\ running /\ ~running' /\ due' = due - 1
        /\ UNCHANGED <<step, armed, handler, queue, ready, pending, crashed>>
    BY <1>8 DEF Timer!DoWork, Timer!load, Timer!timer
  <2> QED
    BY <1>0, <2>1 DEF Test2InOrder
<1>9. ~Timer!AddTimer /\ ~Timer!InitWork /\ ~Timer!DelTimerSync
  BY Test2Steps DEF Timer!AddTimer, Timer!InitWork, Timer!DelTimerSync, Timer!Call
<1>10. ~Timer!Expire /\ ~Timer!TimeFucStep
  BY <1>0
  DEF Test2InOrder, Timer!Expire, Timer!TimeFucStep, Timer!ModTimer, Timer!Count,
      Timer!FireQueueWork, Timer!Fire
<1>11. Test2InOrder' /\ ~crashed'
  BY <1>1, <1>2, <1>3, <1>4, <1>5, <1>6, <1>7, <1>8, <1>9, <1>10
  DEF Timer!Next, Timer!Loader, Timer!Worker
<1>12. handler' \in 0..2 /\ due' \in 0..2
  BY <1>11 DEF Test2InOrder
<1>13. Flags'
  BY <1>12, <1>t, FlagsStay DEF Flags
<1> QED
  BY <1>11, <1>13, <1>t, FlagsStay DEF TimerInv

LEMMA TimerStep == TimerInv /\ [Timer!Next]_(Timer!vars) => TimerInv'
<1> SUFFICES ASSUME TimerInv, [Timer!Next]_(Timer!vars) PROVE TimerInv'
  OBVIOUS
<1>1. CASE UNCHANGED Timer!vars
  BY <1>1
  DEF Timer!vars, Timer!load, Timer!timer, Timer!work, TimerInv, Flags,
      TimeInOrder, WorkqueueInOrder, Test2InOrder
<1>2. CASE Timer!Next
  BY <1>2, TimeKeepsOrder, WorkqueueKeepsOrder, Test2KeepsOrder DEF TimerInv, Flags
<1> QED
  BY <1>1, <1>2

(* A timer or workqueue module that has gone has left nothing behind, and  *)
(* it crashes only when the timer expired while the module was loaded.     *)
THEOREM TimersHarmless ==
  Timer!Spec => [](Timer!TypeOK /\ Timer!NothingLeft /\ Timer!CrashOnlyRushed)
<1>1. TimerInv => Timer!NothingLeft
  BY TimeSteps, WorkqueueSteps, Test2Steps
  DEF TimerInv, Flags, TimeInOrder, WorkqueueInOrder, Test2InOrder,
      Timer!NothingLeft, Timer!Drained
<1>2. TimerInv => Timer!CrashOnlyRushed
  BY DEF TimerInv, Timer!CrashOnlyRushed
<1> QED
  BY <1>1, <1>2, TimerTypes, TimerInit, TimerStep, PTL DEF Timer!Spec
-----------------------------------------------------------------------------
(* Loading and unloading the misc drivers. *)

(* The place of "loaded" among the calls of a module. *)
Loaded == IF module = "complete" THEN 3 ELSE IF module = "poll2" THEN 5 ELSE 4

Modules == {"poll", "poll2", "complete", "rtc"}

(* Which calls the numbers stand for. *)
LEMMA LoadSteps ==
  ASSUME module \in Modules, loading \in 1..(Loaded + 2)
  PROVE  /\ DOMAIN Misc!Calls = 1..(Loaded + 2)
         /\ Misc!Done("loaded") <=> loading > Loaded
         /\ Misc!At("loaded") <=> loading = Loaded
         /\ Misc!At("misc_deregister") <=> loading = Loaded + 1
         /\ Misc!At("gone") <=> loading = Loaded + 2
         /\ Misc!Done("misc_register") <=> loading > 1
         /\ module # "rtc" => (Misc!Ready <=> loading >= Loaded)
<1>1. CASE module = "poll"
  BY <1>1
  DEF Loaded, Misc!Calls, Misc!PollCalls, Misc!Done, Misc!At, Misc!Ready
<1>2. CASE module = "poll2"
  BY <1>2
  DEF Loaded, Misc!Calls, Misc!Poll2Calls, Misc!Done, Misc!At, Misc!Ready
<1>3. CASE module = "complete"
  BY <1>3
  DEF Loaded, Misc!Calls, Misc!CompleteCalls, Misc!Done, Misc!At, Misc!Ready
<1>4. CASE module = "rtc"
  BY <1>4
  DEF Loaded, Misc!Calls, Misc!RtcCalls, Misc!Done, Misc!At, Misc!Ready
<1> QED
  BY <1>1, <1>2, <1>3, <1>4 DEF Modules

(* Where the loading code is, and what that says of the callers. *)
Loading ==
  /\ module \in Modules /\ loading \in 1..(Loaded + 2)
  /\ overrun \in BOOLEAN /\ oops \in BOOLEAN
  /\ inside \subseteq opened /\ opened \subseteq Callers
  /\ spins \in [Callers -> {Misc!NoTicket} \union 0..(Tickets - 1)]
  /\ head \in 0..(Tickets - 1) /\ tail \in 0..(Tickets - 1)
  /\ \A c \in Callers : spins[c] # Misc!NoTicket => c \in opened
  /\ loading > Loaded => opened = {}
  /\ oops => module # "rtc" /\ loading < Loaded

LEMMA LoadingInit == Misc!Init => Loading
<1> SUFFICES ASSUME Misc!Init PROVE Loading
  OBVIOUS
<1>1. module \in Modules /\ loading \in 1..(Loaded + 2) /\ ~(loading > Loaded)
  BY DEF Misc!Init, Loaded, Modules
<1>2. spins = [c \in Callers |-> Misc!NoTicket]
  BY DEF Misc!Init
<1>3. spins \in [Callers -> {Misc!NoTicket} \union 0..(Tickets - 1)]
        /\ \A c \in Callers : spins[c] = Misc!NoTicket
  BY <1>2
<1>4. /\ overrun = FALSE /\ oops = FALSE /\ inside = {} /\ opened = {}
      /\ head = 0 /\ tail = 0
  BY DEF Misc!Init
<1>5. 0 \in 0..(Tickets - 1)
  BY ExamplesAssumption
<1>6. /\ overrun \in BOOLEAN /\ oops \in BOOLEAN /\ ~oops
      /\ inside \subseteq opened /\ opened \subseteq Callers
      /\ head \in 0..(Tickets - 1) /\ tail \in 0..(Tickets - 1)
  BY <1>4, <1>5
<1> QED
  BY <1>1, <1>3, <1>6 DEF Loading

LEMMA LoadingStep == Loading /\ [Misc!Next]_(Misc!vars) => Loading'
<1> SUFFICES ASSUME Loading, [Misc!Next]_(Misc!vars) PROVE Loading'
  OBVIOUS
<1> USE DEF Loading
<1>0. /\ Loaded \in Nat /\ Loaded > 1 /\ loading \in Nat
      /\ 0 \in 0..(Tickets - 1)
      /\ \A t \in 0..(Tickets - 1) : (t + 1) % Tickets \in 0..(Tickets - 1)
  BY ExamplesAssumption DEF Loaded
<1>1. CASE Misc!InitStep
  <2>1. /\ loading < Loaded /\ loading' = loading + 1 /\ ~oops
        /\ UNCHANGED <<module, opened, inside, spins, oops>>
    BY <1>0, <1>1, LoadSteps DEF Misc!InitStep
  <2>2. head' \in 0..(Tickets - 1) /\ tail' \in 0..(Tickets - 1) /\ overrun' \in BOOLEAN
    <3>1. CASE Misc!At("spin_lock_init")
      <4>1. head' = 0 /\ tail' = 0
        BY <1>1, <3>1 DEF Misc!InitStep
      <4>2. overrun' = (overrun \/ \E c \in Callers : Misc!InCall(c))
        BY <1>1, <3>1 DEF Misc!InitStep
      <4> QED
        BY <1>0, <4>1, <4>2
    <3>2. CASE ~Misc!At("spin_lock_init")
      BY <1>1, <3>2 DEF Misc!InitStep, Misc!lock
    <3> QED
      BY <3>1, <3>2
  <2> QED
    BY <1>0, <2>1, <2>2 DEF Loaded
<1>2. CASE Misc!Unload \/ Misc!Deregister \/ Misc!Reload
  <2>1. /\ opened = {} /\ loading' \in 1..(Loaded + 2) /\ ~oops
        /\ UNCHANGED <<module, opened, inside, spins, oops>>
    <3>1. CASE Misc!Unload
      BY <1>0, <3>1, LoadSteps DEF Misc!Unload, Misc!Unused
    <3>2. CASE Misc!Deregister
      BY <1>0, <3>2, LoadSteps DEF Misc!Deregister
    <3>3. CASE Misc!Reload
      BY <1>0, <3>3, LoadSteps DEF Misc!Reload
    <3> QED
      BY <1>2, <3>1, <3>2, <3>3
  <2>2. head' \in 0..(Tickets - 1) /\ tail' \in 0..(Tickets - 1) /\ overrun' \in BOOLEAN
    BY <1>0, <1>2 DEF Misc!Unload, Misc!Deregister, Misc!Reload, Misc!lock
  <2> QED
    BY <1>0, <2>1, <2>2 DEF Loaded
<1>3. ASSUME NEW c \in Callers, Misc!Open(c) PROVE Loading'
  BY <1>0, <1>3, LoadSteps DEF Misc!Open, Misc!lock, Loaded
<1>4. ASSUME NEW c \in Callers, Misc!Close(c) PROVE Loading'
  BY <1>0, <1>4 DEF Misc!Close, Misc!InCall, Misc!lock, Loaded
<1>5. ASSUME NEW c \in Callers, Misc!Sleep(c) PROVE Loading'
  <2>1. /\ module # "rtc" /\ c \in opened /\ inside' \in {inside, inside \union {c}}
        /\ UNCHANGED <<module, loading, opened, spins, overrun, head, tail>>
    BY <1>5 DEF Misc!Sleep, Misc!lock
  <2>2. oops' \in BOOLEAN /\ (oops' => loading < Loaded)
    <3>1. CASE Misc!Ready
      BY <1>5, <3>1 DEF Misc!Sleep
    <3>2. CASE ~Misc!Ready
      <4>1. loading < Loaded
        BY <1>0, <2>1, <3>2, LoadSteps
      <4>2. oops' = TRUE
        BY <1>5, <3>2 DEF Misc!Sleep
      <4> QED
        BY <4>1, <4>2
    <3> QED
      BY <3>1, <3>2
  <2> QED
    BY <2>1, <2>2 DEF Loaded
<1>6. ASSUME NEW c \in Callers, Misc!Spin(c) PROVE Loading'
  BY <1>0, <1>6 DEF Misc!Spin, Misc!InCall, Loaded
<1>7. ASSUME NEW c \in Callers, Misc!Served(c) PROVE Loading'
  BY <1>0, <1>7 DEF Misc!Served, Misc!lock, Loaded, Misc!NoTicket
<1>8. ASSUME NEW c \in Callers, Misc!Leave(c) PROVE Loading'
  BY <1>0, <1>8 DEF Misc!Leave, Misc!lock, Loaded
<1>9. CASE UNCHANGED Misc!vars
  BY <1>9 DEF Misc!vars, Misc!lock, Loaded
<1> QED
  BY <1>1, <1>2, <1>3, <1>4, <1>5, <1>6, <1>7, <1>8, <1>9 DEF Misc!Next

(* The callers that have a ticket or the lock, and how many are before     *)
(* each of them.                                                           *)
Queued == {c \in Callers : Misc!InCall(c)}

Place(c) ==
  IF c \in inside THEN 0
  ELSE IF spins[c] >= head THEN spins[c] - head ELSE spins[c] + Tickets - head

(* The tickets that are out are those from head to tail, one for each      *)
(* caller: this is what keeps two callers from being served together.      *)
InLine == module = "rtc" /\ ~overrun =>
  /\ tail = head + Cardinality(Queued) \/ tail = head + Cardinality(Queued) - Tickets
  /\ \A c \in Queued : Place(c) < Cardinality(Queued)
  /\ \A c, d \in Queued : Place(c) = Place(d) => c = d
  /\ \A c \in inside : spins[c] = Misc!NoTicket

LEMMA QueuedFinite ==
  ASSUME Loading
  PROVE  /\ IsFiniteSet(Queued) /\ Cardinality(Queued) \in 0..Tickets
         /\ \A c \in Callers \ Queued : Cardinality(Queued) < Tickets
<1>1. IsFiniteSet(Callers) /\ Queued \subseteq Callers
  BY ExamplesAssumption DEF Queued
<1>2. IsFiniteSet(Queued) /\ Cardinality(Queued) <= Cardinality(Callers)
        /\ (Cardinality(Queued) = Cardinality(Callers) => Queued = Callers)
  BY <1>1, FS_Subset
<1>3. Cardinality(Queued) \in Nat /\ Cardinality(Callers) \in Nat
  BY <1>1, <1>2, FS_CardinalityType
<1> QED
  BY <1>1, <1>2, <1>3, ExamplesAssumption

LEMMA NextTicket ==
  ASSUME NEW t \in 0..(Tickets - 1)
  PROVE  (t + 1) % Tickets = IF t + 1 = Tickets THEN 0 ELSE t + 1
<1>1. Tickets \in Nat \ {0}
  BY ExamplesAssumption
<1>2. CASE t + 1 = Tickets
  BY <1>1, <1>2
<1>3. CASE t + 1 # Tickets
  BY <1>1, <1>3
<1> QED
  BY <1>2, <1>3

(* Nobody queues at a lock that is made new. *)
LEMMA NewLine ==
  ASSUME Loading', head' = 0, tail' = 0, \A c \in Callers : ~Misc!InCall(c)'
  PROVE  InLine'
<1>1. Queued' = {} /\ inside' = {}
  BY DEF Queued, Loading, Misc!InCall
<1>2. Cardinality({}) = 0
  BY FS_EmptySet
<1> QED
  BY <1>1, <1>2 DEF InLine

LEMMA SpinStep ==
  ASSUME Loading, InLine, NEW c \in Callers, Misc!Spin(c)
  PROVE  InLine'
<1> SUFFICES ASSUME ~overrun PROVE InLine'
  BY DEF InLine, Misc!Spin
<1> DEFINE n == Cardinality(Queued)
<1>1. /\ module = "rtc" /\ ~Misc!InCall(c)
      /\ spins' = [spins EXCEPT ![c] = tail] /\ tail' = (tail + 1) % Tickets
      /\ UNCHANGED <<module, inside, head, overrun>>
  BY DEF Misc!Spin
<1>2. /\ tail = head + n \/ tail = head + n - Tickets
      /\ \A d \in Queued : Place(d) < n
      /\ \A d, e \in Queued : Place(d) = Place(e) => d = e
      /\ \A d \in inside : spins[d] = Misc!NoTicket
  BY <1>1 DEF InLine
<1>3. c \notin Queued /\ n \in Nat /\ n < Tickets
  BY <1>1, QueuedFinite, ExamplesAssumption DEF Queued
<1>4. Queued' = Queued \union {c}
  <2>1. tail # Misc!NoTicket /\ spins' \in [Callers -> {Misc!NoTicket} \union 0..(Tickets - 1)]
    BY <1>1 DEF Loading, Misc!NoTicket
  <2> QED
    BY <1>1, <2>1 DEF Queued, Misc!InCall, Loading
<1>5. Cardinality(Queued') = n + 1
  BY <1>3, <1>4, QueuedFinite, FS_AddElement
<1>6. /\ head \in 0..(Tickets - 1) /\ tail \in 0..(Tickets - 1)
      /\ Tickets \in Nat \ {0}
      /\ c \notin inside
  BY <1>1, ExamplesAssumption DEF Loading, Misc!InCall
<1>7. tail' = head + (n + 1) \/ tail' = head + (n + 1) - Tickets
  BY <1>1, <1>2, <1>3, <1>6, NextTicket
<1>8. Place(c)' = n
  <2>1. spins'[c] = tail
    BY <1>1 DEF Loading
  <2> QED
    BY <1>1, <1>2, <1>3, <1>6, <2>1 DEF Place
<1>9. \A d \in Queued : Place(d)' = Place(d)
  BY <1>1, <1>3 DEF Place, Loading, Queued
<1>10. \A d \in inside : spins'[d] = Misc!NoTicket
  BY <1>1, <1>2, <1>6 DEF Loading
<1>11. \A d \in Queued : Place(d) \in Int
  BY <1>6 DEF Place, Queued, Loading, Misc!NoTicket
<1>12. \A d \in Queued' : Place(d)' < n + 1
  BY <1>2, <1>3, <1>4, <1>8, <1>9, <1>11
<1>13. \A d, e \in Queued' : Place(d)' = Place(e)' => d = e
  BY <1>2, <1>3, <1>4, <1>8, <1>9, <1>11
<1> QED
  BY <1>1, <1>5, <1>7, <1>10, <1>12, <1>13 DEF InLine

LEMMA ServedStep ==
  ASSUME Loading, InLine, NEW c \in Callers, Misc!Served(c)
  PROVE  InLine'
<1> SUFFICES ASSUME module = "rtc", ~overrun PROVE InLine'
  BY DEF InLine, Misc!Served
<1>1. /\ spins[c] = head /\ spins' = [spins EXCEPT ![c] = Misc!NoTicket]
      /\ inside' = inside \union {c}
      /\ UNCHANGED <<module, head, tail, overrun>>
  BY DEF Misc!Served, Misc!lock
<1>2. head \in 0..(Tickets - 1) /\ Tickets \in Nat \ {0} /\ spins[c] # Misc!NoTicket
  BY <1>1, ExamplesAssumption DEF Loading, Misc!NoTicket
<1>3. Queued' = Queued
  BY <1>1, <1>2 DEF Queued, Misc!InCall, Loading
<1>4. \A d \in Queued : Place(d)' = Place(d)
  BY <1>1, <1>2 DEF Place, Queued, Loading
<1>5. \A d \in inside' : spins'[d] = Misc!NoTicket
  BY <1>1 DEF InLine, Loading
<1> QED
  BY <1>1, <1>3, <1>4, <1>5 DEF InLine

LEMMA LeaveStep ==
  ASSUME Loading, InLine, NEW c \in Callers, Misc!Leave(c)
  PROVE  InLine'
<1> SUFFICES ASSUME module = "rtc", ~overrun PROVE InLine'
  BY DEF InLine, Misc!Leave
<1> DEFINE n == Cardinality(Queued)
<1>1. /\ c \in inside /\ inside' = inside \ {c} /\ head' = (head + 1) % Tickets
      /\ UNCHANGED <<module, spins, tail, overrun>>
  BY DEF Misc!Leave
<1>2. /\ tail = head + n \/ tail = head + n - Tickets
      /\ \A d \in Queued : Place(d) < n
      /\ \A d, e \in Queued : Place(d) = Place(e) => d = e
      /\ \A d \in inside : spins[d] = Misc!NoTicket
  BY DEF InLine
<1>3. c \in Queued /\ n \in Nat /\ n <= Tickets /\ Place(c) = 0
  BY <1>1, QueuedFinite, ExamplesAssumption DEF Queued, Misc!InCall, Place
<1>4. Queued' = Queued \ {c}
  BY <1>1, <1>2 DEF Queued, Misc!InCall
<1>5. Cardinality(Queued') = n - 1
  BY <1>3, <1>4, QueuedFinite, FS_RemoveElement
<1>6. /\ head \in 0..(Tickets - 1) /\ tail \in 0..(Tickets - 1)
      /\ Tickets \in Nat \ {0}
  BY ExamplesAssumption DEF Loading
<1>7. head' = IF head + 1 = Tickets THEN 0 ELSE head + 1
  BY <1>1, <1>6, NextTicket
<1>8. n > 0
  BY <1>2, <1>3
<1>9. tail = head' + (n - 1) \/ tail = head' + (n - 1) - Tickets
  BY <1>2, <1>3, <1>6, <1>7, <1>8
<1>10. ASSUME NEW d \in Queued, d # c PROVE Place(d)' = Place(d) - 1 /\ Place(d) \in Int
  <2>1. Place(d) # 0
    BY <1>2, <1>3, <1>10
  <2>2. d \notin inside /\ d \notin inside' /\ spins[d] \in 0..(Tickets - 1)
    BY <1>1, <1>10, <2>1 DEF Place, Queued, Misc!InCall, Loading
  <2> QED
    BY <1>1, <1>6, <1>7, <2>1, <2>2 DEF Place
<1>11. \A d \in Queued' : Place(d)' < n - 1
  BY <1>2, <1>3, <1>4, <1>10
<1>12. \A d, e \in Queued' : Place(d)' = Place(e)' => d = e
  BY <1>2, <1>4, <1>10
<1>13. \A d \in inside' : spins'[d] = Misc!NoTicket
  BY <1>1, <1>2
<1> QED
  BY <1>1, <1>5, <1>9, <1>11, <1>12, <1>13 DEF InLine

LEMMA LineStep == Loading /\ InLine /\ [Misc!Next]_(Misc!vars) => InLine'
<1> SUFFICES ASSUME Loading, InLine, [Misc!Next]_(Misc!vars) PROVE InLine'
  OBVIOUS
<1>0. Loading'
  BY LoadingStep
<1>1. CASE UNCHANGED <<module, inside, spins, head, tail, overrun>>
  <2>1. Queued' = Queued
    BY <1>1 DEF Queued, Misc!InCall
  <2>2. \A c \in Queued : Place(c)' = Place(c)
    BY <1>1 DEF Place
  <2> QED
    BY <1>1, <2>1, <2>2 DEF InLine
<1>2. CASE Misc!InitStep
  <2>1. CASE Misc!At("spin_lock_init")
    <3>1. head' = 0 /\ tail' = 0 /\ inside' = inside /\ spins' = spins
      BY <1>2, <2>1 DEF Misc!InitStep
    <3>2. overrun' = (overrun \/ \E c \in Callers : Misc!InCall(c))
      BY <1>2, <2>1 DEF Misc!InitStep
    <3>3. CASE overrun'
      BY <3>3 DEF InLine
    <3>4. CASE ~overrun'
      <4>1. \A c \in Callers : ~Misc!InCall(c)
        BY <3>2, <3>4
      <4>2. \A c \in Callers : ~Misc!InCall(c)'
        BY <3>1, <4>1 DEF Misc!InCall
      <4> QED
        BY <1>0, <3>1, <4>2, NewLine
    <3> QED
      BY <3>3, <3>4
  <2>2. CASE ~Misc!At("spin_lock_init")
    BY <1>1, <1>2, <2>2 DEF Misc!InitStep, Misc!lock
  <2> QED
    BY <2>1, <2>2
<1>3. CASE Misc!Reload
  <2>1. opened = {}
    BY <1>3, LoadSteps DEF Misc!Reload, Loading, Loaded
  <2>2. head' = 0 /\ tail' = 0 /\ inside' = inside /\ spins' = spins
    BY <1>3 DEF Misc!Reload
  <2>3. \A c \in Callers : ~Misc!InCall(c)'
    BY <2>1, <2>2 DEF Loading, Misc!InCall
  <2> QED
    BY <1>0, <2>2, <2>3, NewLine
<1>4. CASE \E c \in Callers : Misc!Sleep(c)
  BY <1>4 DEF Misc!Sleep, InLine
<1>5. CASE \E c \in Callers : Misc!Spin(c) \/ Misc!Served(c) \/ Misc!Leave(c)
  BY <1>5, SpinStep, ServedStep, LeaveStep
<1>6. CASE Misc!Unload \/ Misc!Deregister \/ \E c \in Callers : Misc!Open(c) \/ Misc!Close(c)
  BY <1>1, <1>6 DEF Misc!Unload, Misc!Deregister, Misc!Open, Misc!Close, Misc!lock
<1>7. CASE UNCHANGED Misc!vars
  BY <1>1, <1>7 DEF Misc!vars, Misc!lock
<1> QED
  BY <1>2, <1>3, <1>4, <1>5, <1>6, <1>7 DEF Misc!Next

(* Nobody is in a call of a driver that is being unloaded or has gone, an  *)
(* object is used too early only while the driver is loaded, and the I2C   *)
(* lock keeps calls apart unless it was made new under one of them.        *)
THEOREM LoadersHarmless ==
  Misc!Spec => [](/\ Misc!TypeOK /\ Misc!NoneInsideGone
                  /\ Misc!OopsWhileLoading /\ Misc!OneHolder)
<1>1. Misc!Init => Loading /\ InLine
  <2> SUFFICES ASSUME Misc!Init PROVE InLine
    BY LoadingInit
  <2>1. Queued = {} /\ inside = {} /\ head = 0 /\ tail = 0
    BY DEF Queued, Misc!InCall, Misc!Init
  <2>2. Cardinality({}) = 0
    BY FS_EmptySet
  <2> QED
    BY <2>1, <2>2 DEF InLine
<1>2. Loading => Misc!TypeOK
  BY LoadSteps DEF Loading, Misc!TypeOK, Modules
<1>3. Loading => Misc!NoneInsideGone
  BY LoadSteps DEF Loading, Misc!NoneInsideGone, Misc!InCall
<1>4. Loading => Misc!OopsWhileLoading
  BY LoadSteps DEF Loading, Misc!OopsWhileLoading, Loaded
<1>5. Loading /\ InLine => Misc!OneHolder
  <2> SUFFICES ASSUME Loading, InLine, module = "rtc", ~overrun,
                      NEW c \in inside, NEW d \in inside
               PROVE  c = d
    BY DEF Misc!OneHolder
  <2>1. c \in Queued /\ d \in Queued /\ Place(c) = 0 /\ Place(d) = 0
    BY DEF Loading, Queued, Misc!InCall, Place
  <2> QED
    BY <2>1 DEF InLine
<1> QED
  BY <1>1, <1>2, <1>3, <1>4, <1>5, LoadingStep, LineStep, PTL DEF Misc!Spec
-----------------------------------------------------------------------------
(* The sorting programs. *)

Quick == sort \in {"quicksort", "quicksort2"}
Active == at \in {"right", "left"}

(* The ends of the ranges still to be sorted. *)
Lo(a) == todo[a][1]
Hi(a) == todo[a][2]

Ranges == (0..Length) \X (-1..(Length - 1))

(* What keeps the variables in their types: a call leaves out the position *)
(* of its pivot, so the ranges that are still to be sorted do not even     *)
(* touch, and there are never more of them than positions.                 *)
InBoundsSort ==
  /\ sort \in {"quicksort", "quicksort2", "bubblesort", "bubblesort2"}
  /\ Quick => at \in {"call", "right", "left", "end"}
  /\ ~Quick => at \in {"bubble", "end"}
  /\ input \in [Sort!Positions -> Numbers] /\ num \in [Sort!Positions -> Numbers]
  /\ todo \in Seq(Ranges)
  /\ low \in 0..Length /\ high \in -1..(Length - 1) /\ temp \in Numbers
  /\ i \in 0..Length /\ j \in 0..Length

Untouching ==
  /\ \A a \in DOMAIN todo :
       /\ 0 <= Lo(a) /\ Lo(a) <= Hi(a) + 1 /\ Hi(a) < Length
       /\ Lo(a) + Len(todo) - a <= Length
  /\ \A a, c \in DOMAIN todo : a < c => Hi(a) + 1 < Lo(c)
  /\ Active =>
       /\ low <= i /\ i <= j /\ j <= high /\ low < high
       /\ \A a \in DOMAIN todo : high + 1 < Lo(a)

LEMMA Pushed ==
  ASSUME NEW S, NEW s \in Seq(S), NEW x \in S, NEW y \in S
  PROVE  /\ <<x, y>> \o s \in Seq(S) /\ Len(<<x, y>> \o s) = Len(s) + 2
         /\ (<<x, y>> \o s)[1] = x /\ (<<x, y>> \o s)[2] = y
         /\ \A a \in 1..Len(s) : (<<x, y>> \o s)[a + 2] = s[a]
<1>1. <<x, y>> \in Seq(S) /\ Len(<<x, y>>) = 2
  OBVIOUS
<1> QED
  BY <1>1

LEMMA Popped ==
  ASSUME NEW S, NEW s \in Seq(S), s # <<>>
  PROVE  /\ Tail(s) \in Seq(S) /\ Len(Tail(s)) = Len(s) - 1 /\ Head(s) = s[1]
         /\ \A a \in 1..(Len(s) - 1) : Tail(s)[a] = s[a + 1]
         /\ 1 \in DOMAIN s
OBVIOUS

LEMMA RangeEnds ==
  ASSUME InBoundsSort
  PROVE  /\ DOMAIN todo = 1..Len(todo) /\ Len(todo) \in Nat
         /\ \A a \in DOMAIN todo : Lo(a) \in 0..Length /\ Hi(a) \in -1..(Length - 1)
<1>1. \A a \in DOMAIN todo : todo[a] \in Ranges
  BY DEF InBoundsSort
<1>2. \A r \in Ranges : r[1] \in 0..Length /\ r[2] \in -1..(Length - 1)
  BY DEF Ranges
<1> QED
  BY <1>1, <1>2 DEF InBoundsSort, Lo, Hi

LEMMA PopEnds ==
  ASSUME InBoundsSort, todo # <<>>, todo' = Tail(todo)
  PROVE  /\ todo' \in Seq(Ranges) /\ Len(todo') = Len(todo) - 1
         /\ \A a \in 1..Len(todo') : Lo(a)' = Lo(a + 1) /\ Hi(a)' = Hi(a + 1)
         /\ Head(todo)[1] = Lo(1) /\ Head(todo)[2] = Hi(1) /\ 1 \in DOMAIN todo
<1>1. todo \in Seq(Ranges)
  BY DEF InBoundsSort
<1> QED
  BY <1>1, Popped DEF Lo, Hi

LEMMA PushEnds ==
  ASSUME InBoundsSort, NEW k \in 0..Length, NEW m \in -1..(Length - 1),
         NEW u \in 0..Length, NEW v \in -1..(Length - 1),
         todo' = <<<<k, m>>, <<u, v>>>> \o todo
  PROVE  /\ todo' \in Seq(Ranges) /\ Len(todo') = Len(todo) + 2
         /\ Lo(1)' = k /\ Hi(1)' = m /\ Lo(2)' = u /\ Hi(2)' = v
         /\ \A a \in 1..Len(todo) : Lo(a + 2)' = Lo(a) /\ Hi(a + 2)' = Hi(a)
<1>1. todo \in Seq(Ranges) /\ <<k, m>> \in Ranges /\ <<u, v>> \in Ranges
  BY DEF InBoundsSort, Ranges
<1>2. /\ todo' \in Seq(Ranges) /\ Len(todo') = Len(todo) + 2
      /\ todo'[1] = <<k, m>> /\ todo'[2] = <<u, v>>
      /\ \A a \in 1..Len(todo) : todo'[a + 2] = todo[a]
  BY <1>1, Pushed
<1> QED
  BY <1>2 DEF Lo, Hi

(* The ranges that are left when the next one has been taken. *)
LEMMA PopUntouching ==
  ASSUME InBoundsSort, Untouching, todo # <<>>, todo' = Tail(todo)
  PROVE  /\ \A a \in DOMAIN todo' :
              /\ 0 <= Lo(a)' /\ Lo(a)' <= Hi(a)' + 1 /\ Hi(a)' < Length
              /\ Lo(a)' + Len(todo') - a <= Length
         /\ \A a, c \in DOMAIN todo' : a < c => Hi(a)' + 1 < Lo(c)'
         /\ \A a \in DOMAIN todo' : Hi(1) + 1 < Lo(a)'
<1>0. Length \in Nat
  BY ExamplesAssumption
<1>1. /\ todo' \in Seq(Ranges) /\ Len(todo') = Len(todo) - 1
      /\ \A a \in 1..Len(todo') : Lo(a)' = Lo(a + 1) /\ Hi(a)' = Hi(a + 1)
      /\ 1 \in DOMAIN todo
  BY PopEnds
<1>2. DOMAIN todo = 1..Len(todo) /\ Len(todo) \in Nat
        /\ \A a \in DOMAIN todo : Lo(a) \in 0..Length /\ Hi(a) \in -1..(Length - 1)
  BY RangeEnds
<1>3. DOMAIN todo' = 1..Len(todo')
  BY <1>1
<1>4. \A a \in DOMAIN todo' :
        a + 1 \in DOMAIN todo /\ a \in Nat /\ Lo(a)' = Lo(a + 1) /\ Hi(a)' = Hi(a + 1)
  BY <1>1, <1>2, <1>3
<1>5. ASSUME NEW a \in DOMAIN todo'
      PROVE  /\ 0 <= Lo(a)' /\ Lo(a)' <= Hi(a)' + 1 /\ Hi(a)' < Length
             /\ Lo(a)' + Len(todo') - a <= Length
             /\ Hi(1) + 1 < Lo(a)'
  <2> DEFINE c == a + 1
  <2>1. c \in DOMAIN todo /\ a \in Nat /\ Lo(a)' = Lo(c) /\ Hi(a)' = Hi(c) /\ 1 < c
          /\ c = a + 1
    BY <1>4
  <2> HIDE DEF c
  <2>2. /\ 0 <= Lo(c) /\ Lo(c) <= Hi(c) + 1 /\ Hi(c) < Length
        /\ Lo(c) + Len(todo) - c <= Length
        /\ Hi(1) + 1 < Lo(c)
    BY <1>1, <2>1 DEF Untouching
  <2>3. Lo(c) \in Int /\ Len(todo) \in Int
    BY <1>2, <2>1
  <2> QED
    BY <1>0, <1>1, <2>1, <2>2, <2>3
<1>6. ASSUME NEW a \in DOMAIN todo', NEW c \in DOMAIN todo', a < c
      PROVE  Hi(a)' + 1 < Lo(c)'
  <2>1. a + 1 \in DOMAIN todo /\ c + 1 \in DOMAIN todo /\ a + 1 < c + 1
    BY <1>4, <1>6
  <2>2. Hi(a + 1) + 1 < Lo(c + 1)
    BY <2>1 DEF Untouching
  <2> QED
    BY <1>4, <2>2
<1> QED
  BY <1>5, <1>6

LEMMA CallBounds ==
  ASSUME InBoundsSort, Untouching, Sort!Call
  PROVE  InBoundsSort' /\ Untouching'
<1>1. /\ at = "call" /\ todo # <<>> /\ Head(todo)[1] < Head(todo)[2]
      /\ low' = Head(todo)[1] /\ high' = Head(todo)[2]
      /\ i' = low' /\ j' = high' /\ temp' = num[low']
      /\ todo' = Tail(todo) /\ at' = "right"
      /\ UNCHANGED <<sort, input, num>>
  BY DEF Sort!Call
<1>2. /\ todo' \in Seq(Ranges) /\ Len(todo') = Len(todo) - 1
      /\ \A a \in 1..Len(todo') : Lo(a)' = Lo(a + 1) /\ Hi(a)' = Hi(a + 1)
      /\ low' = Lo(1) /\ high' = Hi(1) /\ 1 \in DOMAIN todo
  BY <1>1, PopEnds
<1>3. DOMAIN todo = 1..Len(todo) /\ Len(todo) \in Nat
        /\ \A a \in DOMAIN todo : Lo(a) \in 0..Length /\ Hi(a) \in -1..(Length - 1)
  BY RangeEnds
<1>4. DOMAIN todo' = 1..Len(todo')
  BY <1>2
<1>5. low' \in Sort!Positions /\ low' < high' /\ Length \in Nat
  BY <1>1, <1>2, <1>3, ExamplesAssumption DEF Sort!Positions
<1>6. InBoundsSort'
  <2>1. temp' \in Numbers
    BY <1>1, <1>5 DEF InBoundsSort
  <2>2. low' \in 0..Length /\ high' \in -1..(Length - 1) /\ i' \in 0..Length /\ j' \in 0..Length
    BY <1>1, <1>2, <1>3, <1>5 DEF Sort!Positions
  <2> QED
    BY <1>1, <1>2, <2>1, <2>2 DEF InBoundsSort, Quick
<1>7. Untouching'
  <2>1. low' <= i' /\ i' <= j' /\ j' <= high'
    BY <1>1, <1>2, <1>3
  <2>2. \A a \in DOMAIN todo' : high' + 1 < Lo(a)'
    BY <1>1, <1>2, PopUntouching
  <2> QED
    BY <1>1, <1>5, <2>1, <2>2, PopUntouching DEF Untouching
<1> QED
  BY <1>6, <1>7

LEMMA ReturnBounds ==
  ASSUME InBoundsSort, Untouching, Sort!Return
  PROVE  InBoundsSort' /\ Untouching'
<1>1. /\ at = "call" /\ todo # <<>> /\ todo' = Tail(todo)
      /\ UNCHANGED <<sort, input, num, at, low, high, temp, i, j>>
  BY DEF Sort!Return, Sort!ranges
<1>2. /\ todo' \in Seq(Ranges) /\ Len(todo') = Len(todo) - 1
      /\ \A a \in 1..Len(todo') : Lo(a)' = Lo(a + 1) /\ Hi(a)' = Hi(a + 1)
      /\ 1 \in DOMAIN todo
  BY <1>1, PopEnds
<1>5. InBoundsSort'
  BY <1>1, <1>2 DEF InBoundsSort, Quick
<1>6. Untouching'
  BY <1>1, PopUntouching DEF Untouching, Active
<1> QED
  BY <1>5, <1>6

(* The outer loop is over: two calls take the place of this one. *)
LEMMA SplitBounds ==
  ASSUME InBoundsSort, Untouching, Active, i = j,
         num' \in [Sort!Positions -> Numbers],
         at' = "call", todo' = <<<<low, i - 1>>, <<j + 1, high>>>> \o todo,
         UNCHANGED <<sort, input, low, high, temp, i, j>>
  PROVE  InBoundsSort' /\ Untouching'
<1>0. Length \in Nat
  BY ExamplesAssumption
<1>1. /\ low \in 0..Length /\ i - 1 \in -1..(Length - 1) /\ j + 1 \in 0..Length
      /\ high \in -1..(Length - 1) /\ i \in Nat /\ j \in Nat
      /\ low <= i /\ i <= j /\ j <= high
  BY <1>0 DEF InBoundsSort, Untouching
<1>2. /\ todo' \in Seq(Ranges) /\ Len(todo') = Len(todo) + 2
      /\ Lo(1)' = low /\ Hi(1)' = i - 1 /\ Lo(2)' = j + 1 /\ Hi(2)' = high
      /\ \A a \in 1..Len(todo) : Lo(a + 2)' = Lo(a) /\ Hi(a + 2)' = Hi(a)
  BY <1>1, PushEnds
<1>3. DOMAIN todo = 1..Len(todo) /\ Len(todo) \in Nat
        /\ \A a \in DOMAIN todo : Lo(a) \in 0..Length /\ Hi(a) \in -1..(Length - 1)
  BY RangeEnds
<1>4. DOMAIN todo' = 1..(Len(todo) + 2)
  BY <1>2
<1>5. InBoundsSort'
  BY <1>2 DEF InBoundsSort, Quick, Active
<1>6. ASSUME NEW a \in DOMAIN todo'
      PROVE  a = 1 \/ a = 2 \/ (a - 2 \in DOMAIN todo /\ Lo(a)' = Lo(a - 2) /\ Hi(a)' = Hi(a - 2))
  <2>1. a = 1 \/ a = 2 \/ a - 2 \in 1..Len(todo)
    BY <1>3, <1>4
  <2>2. a - 2 \in 1..Len(todo) => Lo((a - 2) + 2)' = Lo(a - 2) /\ Hi((a - 2) + 2)' = Hi(a - 2)
    BY <1>2
  <2>3. (a - 2) + 2 = a
    BY <1>3, <1>4
  <2> QED
    BY <1>3, <2>1, <2>2, <2>3
<1>7. Untouching'
  <2>1. Len(todo) = 0 \/ (1 \in DOMAIN todo /\ high + 1 < Lo(1) /\ Lo(1) + Len(todo) - 1 <= Length)
    BY <1>3 DEF Untouching
  <2>2. \A a \in DOMAIN todo' :
          /\ 0 <= Lo(a)' /\ Lo(a)' <= Hi(a)' + 1 /\ Hi(a)' < Length
          /\ Lo(a)' + Len(todo') - a <= Length
    <3> SUFFICES ASSUME NEW a \in DOMAIN todo'
                 PROVE  /\ 0 <= Lo(a)' /\ Lo(a)' <= Hi(a)' + 1 /\ Hi(a)' < Length
                        /\ Lo(a)' + Len(todo') - a <= Length
      OBVIOUS
    <3>0. Len(todo) # 0 => Lo(1) \in Int
      <4>1. Len(todo) # 0 => 1 \in DOMAIN todo
        BY <1>3
      <4>2. \A c \in DOMAIN todo : Lo(c) \in Int
        BY <1>0, <1>3
      <4> QED
        BY <4>1, <4>2
    <3>1. CASE a = 1
      <4>1. Lo(a)' = low /\ Hi(a)' = i - 1
        BY <1>2, <3>1
      <4>2. low + (Len(todo) + 2) - 1 <= Length
        BY <1>0, <1>1, <1>3, <2>1, <3>0
      <4> QED
        BY <4>1, <4>2, <3>1, <1>0, <1>1, <1>2
    <3>2. CASE a = 2
      <4>1. Lo(a)' = j + 1 /\ Hi(a)' = high
        BY <1>2, <3>2
      <4>2. (j + 1) + (Len(todo) + 2) - 2 <= Length
        BY <1>0, <1>1, <1>3, <2>1, <3>0
      <4> QED
        BY <4>1, <4>2, <3>2, <1>0, <1>1, <1>2
    <3>3. CASE a - 2 \in DOMAIN todo /\ Lo(a)' = Lo(a - 2) /\ Hi(a)' = Hi(a - 2)
      BY <3>3, <1>0, <1>2, <1>3, <1>4 DEF Untouching
    <3> QED
      BY <1>6, <3>1, <3>2, <3>3
  <2>3. \A a, c \in DOMAIN todo' : a < c => Hi(a)' + 1 < Lo(c)'
    <3> SUFFICES ASSUME NEW a \in DOMAIN todo', NEW c \in DOMAIN todo', a < c
                 PROVE  Hi(a)' + 1 < Lo(c)'
      OBVIOUS
    <3>1. CASE c = 1 \/ c = 2
      BY <3>1, <1>1, <1>2, <1>4
    <3>2. CASE c - 2 \in DOMAIN todo /\ Lo(c)' = Lo(c - 2)
      <4>0. high + 1 < Lo(c - 2)
        BY <3>2 DEF Untouching
      <4>1. CASE a = 1
        BY <4>0, <4>1, <3>2, <1>1, <1>2, <1>3
      <4>2. CASE a = 2
        BY <4>0, <4>2, <3>2, <1>2
      <4>3. CASE a - 2 \in DOMAIN todo /\ Hi(a)' = Hi(a - 2)
        BY <4>3, <3>2, <1>3, <1>4 DEF Untouching
      <4> QED
        BY <1>6, <4>1, <4>2, <4>3
    <3> QED
      BY <1>6, <3>1, <3>2
  <2>4. ~Active'
    BY DEF Active
  <2> QED
    BY <2>2, <2>3, <2>4 DEF Untouching
<1> QED
  BY <1>5, <1>7

(* A step that leaves the ranges alone, and with them what they keep. *)
LEMMA SameRanges ==
  ASSUME Untouching, todo' = todo, ~Active'
  PROVE  Untouching'
BY DEF Untouching, Lo, Hi

LEMMA MoveBounds ==
  ASSUME InBoundsSort, Untouching, Active, Active',
         UNCHANGED <<todo, low, high>>,
         i' \in Int, j' \in Int, low <= i', i' <= j', j' <= high
  PROVE  Untouching'
BY DEF Untouching, Lo, Hi

LEMMA SortBounds ==
  InBoundsSort /\ Untouching /\ [Sort!Next]_(Sort!vars) => InBoundsSort' /\ Untouching'
<1> SUFFICES ASSUME InBoundsSort, Untouching, [Sort!Next]_(Sort!vars)
             PROVE  InBoundsSort' /\ Untouching'
  OBVIOUS
<1>0. Length \in Nat \ {0}
  BY ExamplesAssumption
<1>a. Active =>
        /\ Quick
        /\ i \in Nat /\ j \in Nat /\ low \in Nat /\ high \in Nat
        /\ low <= i /\ i <= j /\ j <= high
        /\ i \in Sort!Positions /\ j \in Sort!Positions
  BY <1>0 DEF InBoundsSort, Untouching, Active, Sort!Positions
<1>1. CASE Sort!Call
  BY <1>1, CallBounds
<1>2. CASE Sort!Return
  BY <1>2, ReturnBounds
<1>3. CASE Sort!MoveRight
  <2>1. /\ Active /\ Active' /\ i < j /\ j' = j - 1
        /\ UNCHANGED <<sort, input, num, todo, at, low, high, temp, i>>
    BY <1>3 DEF Sort!MoveRight, Sort!PassesRight, Sort!ranges, Active
  <2>2. Untouching'
    BY <1>a, <2>1, MoveBounds
  <2>3. j' \in 0..Length
    BY <1>0, <1>a, <2>1 DEF Sort!Positions
  <2> QED
    BY <2>1, <2>2, <2>3 DEF InBoundsSort, Quick
<1>4. CASE Sort!StopRight
  <2>1. /\ Active /\ Active' /\ at' = "left"
        /\ num' = [[num EXCEPT ![i] = num[j]] EXCEPT ![j] = temp]
        /\ UNCHANGED <<sort, input, todo, low, high, temp, i, j>>
    BY <1>4 DEF Sort!StopRight, Sort!ranges, Active
  <2>2. Untouching'
    BY <1>a, <2>1, MoveBounds
  <2>3. num' \in [Sort!Positions -> Numbers]
    BY <1>a, <2>1 DEF InBoundsSort
  <2> QED
    BY <1>a, <2>1, <2>2, <2>3 DEF InBoundsSort, Quick
<1>5. CASE Sort!MoveLeft
  <2>1. /\ Active /\ Active' /\ i < j /\ i' = i + 1
        /\ UNCHANGED <<sort, input, num, todo, at, low, high, temp, j>>
    BY <1>5 DEF Sort!MoveLeft, Sort!PassesLeft, Sort!ranges, Active
  <2>2. Untouching'
    BY <1>a, <2>1, MoveBounds
  <2>3. i' \in 0..Length
    BY <1>0, <1>a, <2>1 DEF Sort!Positions
  <2> QED
    BY <2>1, <2>2, <2>3 DEF InBoundsSort, Quick
<1>6. CASE Sort!StopLeft
  <2>1. /\ Active /\ num' = Sort!Stopped
        /\ UNCHANGED <<sort, input, low, high, temp, i, j>>
    BY <1>6 DEF Sort!StopLeft, Sort!ranges, Active
  <2>2. num' \in [Sort!Positions -> Numbers]
    BY <1>a, <2>1 DEF InBoundsSort, Sort!Stopped
  <2>3. CASE i < j /\ at' = "right" /\ UNCHANGED todo
    <3>1. Untouching'
      BY <1>a, <2>1, <2>3, MoveBounds DEF Active
    <3> QED
      BY <1>a, <2>1, <2>2, <2>3, <3>1 DEF InBoundsSort, Quick
  <2>4. CASE i >= j /\ at' = "call" /\ todo' = <<<<low, i - 1>>, <<j + 1, high>>>> \o todo
    <3>1. i = j
      BY <1>a, <2>1, <2>4
    <3> QED
      BY <2>1, <2>2, <2>4, <3>1, SplitBounds
  <2> QED
    BY <1>6, <2>3, <2>4 DEF Sort!StopLeft
<1>7. CASE Sort!Compare
  <2>1. /\ at = "bubble" /\ i < Sort!Rows /\ j < Length - 1 - i /\ j' = j + 1
        /\ num' = IF Sort!Out THEN [num EXCEPT ![j] = num[j + 1], ![j + 1] = num[j]] ELSE num
        /\ UNCHANGED <<sort, input, todo, at, low, high, temp, i>>
    BY <1>7 DEF Sort!Compare, Sort!InRow, Sort!ranges
  <2>2. j \in Sort!Positions /\ j + 1 \in Sort!Positions /\ j' \in 0..Length
    BY <1>0, <2>1 DEF InBoundsSort, Sort!Positions
  <2>3. num' \in [Sort!Positions -> Numbers]
    BY <2>1, <2>2 DEF InBoundsSort
  <2>4. ~Active'
    BY <2>1 DEF Active
  <2> QED
    BY <2>1, <2>2, <2>3, <2>4, SameRanges DEF InBoundsSort, Quick
<1>8. CASE Sort!NextRow
  <2>1. /\ at = "bubble" /\ i < Sort!Rows /\ i' = i + 1 /\ j' = 0
        /\ UNCHANGED <<sort, input, num, todo, at, low, high, temp>>
    BY <1>8 DEF Sort!NextRow, Sort!ranges
  <2>2. i' \in 0..Length /\ j' \in 0..Length
    BY <1>0, <2>1 DEF InBoundsSort, Sort!Rows
  <2>3. ~Active'
    BY <2>1 DEF Active
  <2> QED
    BY <2>1, <2>2, <2>3, SameRanges DEF InBoundsSort, Quick
<1>9. CASE Sort!End
  <2>1. at' = "end" /\ UNCHANGED <<sort, input, num, todo, low, high, temp, i, j>>
    BY <1>9 DEF Sort!End, Sort!ranges
  <2>2. ~Active'
    BY <2>1 DEF Active
  <2> QED
    BY <2>1, <2>2, SameRanges DEF InBoundsSort, Quick
<1>10. CASE UNCHANGED Sort!vars
  BY <1>10 DEF Sort!vars, Sort!ranges, InBoundsSort, Untouching, Quick, Active, Lo, Hi
<1> QED
  BY <1>1, <1>2, <1>3, <1>4, <1>5, <1>6, <1>7, <1>8, <1>9, <1>10 DEF Sort!Next

(* Only the first read of a call leaves the array, and only that of        *)
(* quicksort for an empty part at the end.                                 *)
LEMMA ReadsStep ==
  InBoundsSort /\ Untouching /\ Sort!ReadsInside /\ [Sort!Next]_(Sort!vars)
    => Sort!ReadsInside'
<1> SUFFICES ASSUME InBoundsSort, Untouching, Sort!ReadsInside, [Sort!Next]_(Sort!vars)
             PROVE  Sort!ReadsInside'
  OBVIOUS
<1>1. CASE Sort!Call \/ Sort!Return
  <2>1. /\ todo # <<>> /\ todo' = Tail(todo) /\ sort' = sort
        /\ beyond' = beyond \union (Sort!FirstRead(Head(todo)) \ Sort!Positions)
    BY <1>1 DEF Sort!Call, Sort!Return, Sort!Reads
  <2>2. Head(todo)[1] = Lo(1) /\ Head(todo)[2] = Hi(1) /\ 1 \in DOMAIN todo
    BY <2>1, PopEnds
  <2>3. Lo(1) \in 0..Length /\ Hi(1) \in -1..(Length - 1) /\ Length \in Nat
    BY <2>2, RangeEnds, ExamplesAssumption
  <2>4. Sort!FirstRead(Head(todo)) \ Sort!Positions
          \subseteq (IF sort = "quicksort" THEN {Length} ELSE {})
    BY <2>2, <2>3 DEF Sort!FirstRead, Sort!Positions
  <2> QED
    BY <2>1, <2>4 DEF Sort!ReadsInside
<1>2. CASE sort' = sort /\ beyond' = beyond
  BY <1>2 DEF Sort!ReadsInside
<1>3. Sort!Call \/ Sort!Return \/ (sort' = sort /\ beyond' = beyond)
  BY DEF Sort!Next, Sort!MoveRight, Sort!StopRight, Sort!MoveLeft, Sort!StopLeft,
         Sort!Compare, Sort!NextRow, Sort!End, Sort!vars
<1> QED
  BY <1>1, <1>2, <1>3

LEMMA SortBoundsInit == Sort!Init => InBoundsSort /\ Untouching
<1> SUFFICES ASSUME Sort!Init PROVE InBoundsSort /\ Untouching
  OBVIOUS
<1>0. Length \in Nat \ {0}
  BY ExamplesAssumption
<1>1. todo = <<<<0, Length - 1>>>> /\ ~Active
  BY DEF Sort!Init, Active
<1>2. <<0, Length - 1>> \in Ranges
  BY <1>0 DEF Ranges
<1>3. todo \in Seq(Ranges)
  BY <1>1, <1>2
<1>4. InBoundsSort
  BY <1>0, <1>3 DEF Sort!Init, InBoundsSort, Quick, Sort!Positions
<1>5. DOMAIN todo = {1} /\ Len(todo) = 1 /\ Lo(1) = 0 /\ Hi(1) = Length - 1
  BY <1>1 DEF Lo, Hi
<1>6. Untouching
  BY <1>0, <1>1, <1>5 DEF Untouching
<1> QED
  BY <1>4, <1>6

LEMMA SortTypes == InBoundsSort /\ Untouching /\ Sort!ReadsInside => Sort!TypeOK
<1> SUFFICES ASSUME InBoundsSort, Untouching, Sort!ReadsInside PROVE Sort!TypeOK
  OBVIOUS
<1>1. Len(todo) <= Length + 1
  <2>1. DOMAIN todo = 1..Len(todo) /\ Len(todo) \in Nat /\ Length \in Nat
    BY RangeEnds, ExamplesAssumption
  <2>2. CASE Len(todo) = 0
    BY <2>1, <2>2
  <2>3. CASE Len(todo) # 0
    <3>1. 1 \in DOMAIN todo
      BY <2>1, <2>3
    <3>2. 0 <= Lo(1) /\ Lo(1) + Len(todo) - 1 <= Length /\ Lo(1) \in 0..Length
      BY <3>1, RangeEnds DEF Untouching
    <3> QED
      BY <2>1, <3>2
  <2> QED
    BY <2>2, <2>3
<1>2. beyond \subseteq Nat
  BY ExamplesAssumption DEF Sort!ReadsInside
<1>3. Active => {i, j} \subseteq Sort!Positions
  BY ExamplesAssumption DEF InBoundsSort, Untouching, Sort!Positions
<1> QED
  BY <1>1, <1>2, <1>3 DEF InBoundsSort, Sort!TypeOK, Ranges, Quick, Active
-----------------------------------------------------------------------------
(* The numbers in the array are those of the input, each at a place of its *)
(* own.                                                                    *)
Kept == \E p \in [Sort!Positions -> Sort!Positions] :
  /\ \A k, m \in Sort!Positions : p[k] = p[m] => k = m
  /\ \A m \in Sort!Positions : \E k \in Sort!Positions : p[k] = m
  /\ \A k \in Sort!Positions : num[k] = input[p[k]]

Exchanged(x, y) ==
  /\ num'[x] = num[y] /\ num'[y] = num[x]
  /\ \A k \in Sort!Positions : k # x /\ k # y => num'[k] = num[k]

LEMMA ExchangeKeeps ==
  ASSUME Kept, NEW x \in Sort!Positions, NEW y \in Sort!Positions, Exchanged(x, y),
         input' = input
  PROVE  Kept'
<1>1. PICK p \in [Sort!Positions -> Sort!Positions] :
        /\ \A k, m \in Sort!Positions : p[k] = p[m] => k = m
        /\ \A m \in Sort!Positions : \E k \in Sort!Positions : p[k] = m
        /\ \A k \in Sort!Positions : num[k] = input[p[k]]
  BY DEF Kept
<1> DEFINE q == [k \in Sort!Positions |-> IF k = x THEN p[y] ELSE IF k = y THEN p[x] ELSE p[k]]
<1>2. q \in [Sort!Positions -> Sort!Positions]
  OBVIOUS
<1>3. /\ q[x] = p[y] /\ q[y] = p[x]
      /\ \A k \in Sort!Positions : k # x /\ k # y => q[k] = p[k]
  OBVIOUS
<1> HIDE DEF q
<1>4. \A k, m \in Sort!Positions : q[k] = q[m] => k = m
  BY <1>1, <1>3
<1>5. \A m \in Sort!Positions : \E k \in Sort!Positions : q[k] = m
  <2> SUFFICES ASSUME NEW m \in Sort!Positions
               PROVE  \E k \in Sort!Positions : q[k] = m
    OBVIOUS
  <2>1. PICK k \in Sort!Positions : p[k] = m
    BY <1>1
  <2> QED
    BY <1>3, <2>1
<1>6. \A k \in Sort!Positions : num'[k] = input'[q[k]]
  BY <1>1, <1>3 DEF Exchanged
<1> QED
  BY <1>2, <1>4, <1>5, <1>6 DEF Kept

LEMMA KeptCounts ==
  ASSUME InBoundsSort, Kept, NEW v \in Numbers
  PROVE  Cardinality({k \in Sort!Positions : num[k] = v})
           = Cardinality({k \in Sort!Positions : input[k] = v})
<1>1. PICK p \in [Sort!Positions -> Sort!Positions] :
        /\ \A k, m \in Sort!Positions : p[k] = p[m] => k = m
        /\ \A m \in Sort!Positions : \E k \in Sort!Positions : p[k] = m
        /\ \A k \in Sort!Positions : num[k] = input[p[k]]
  BY DEF Kept
<1> DEFINE A == {k \in Sort!Positions : num[k] = v}
           B == {k \in Sort!Positions : input[k] = v}
           f == [k \in A |-> p[k]]
<1>2. f \in [A -> B]
  BY <1>1
<1>3. \A k, m \in A : f[k] = f[m] => k = m
  BY <1>1
<1>4. \A m \in B : \E k \in A : f[k] = m
  BY <1>1
<1>5. IsFiniteSet(A)
  <2>1. IsFiniteSet(Sort!Positions)
    BY FS_Interval, ExamplesAssumption DEF Sort!Positions
  <2> QED
    BY <2>1, FS_Subset
<1> HIDE DEF A, B, f
<1>6. f \in Bijection(A, B)
  BY <1>2, <1>3, <1>4 DEF Bijection, Injection, IsInjective, Surjection
<1>7. Cardinality(A) = Cardinality(B)
  BY <1>5, <1>6, FS_Bijection DEF ExistsBijection
<1> QED
  BY <1>7 DEF A, B
-----------------------------------------------------------------------------
(* Both elements are of one range that is still to be sorted. *)
Together(k, m) ==
  \/ \E a \in DOMAIN todo : Lo(a) <= k /\ m <= Hi(a)
  \/ Active /\ low <= k /\ m <= high

Settled == \A k, m \in Sort!Positions : k < m => num[k] <= num[m] \/ Together(k, m)

(* temp is the pivot, in the array at the place where the next loop stops; *)
(* the inner loops have passed what is on its right side.                  *)
Parted == Active =>
  /\ at = "right" => num[i] = temp
  /\ at = "left" => num[j] = temp
  /\ \A k \in Sort!Positions : low <= k /\ k < i => num[k] <= temp
  /\ \A k \in Sort!Positions : j < k /\ k <= high => temp <= num[k]

LEMMA NumInt ==
  ASSUME InBoundsSort
  PROVE  temp \in Int /\ \A k \in Sort!Positions : num[k] \in Int /\ k \in Nat
<1>1. temp \in Numbers /\ \A k \in Sort!Positions : num[k] \in Numbers
  BY DEF InBoundsSort
<1>2. Numbers \subseteq Int /\ Sort!Positions \subseteq Nat
  BY ExamplesAssumption DEF Sort!Positions
<1> QED
  BY <1>1, <1>2

(* Two elements of the range that is being parted change places: every     *)
(* element of it is still on the same side of every element outside.       *)
LEMMA ExchangeSettled ==
  ASSUME InBoundsSort, Untouching, Settled, Active, Active',
         UNCHANGED <<todo, low, high>>,
         NEW x \in Sort!Positions, NEW y \in Sort!Positions, Exchanged(x, y),
         low <= x, x <= high, low <= y, y <= high
  PROVE  Settled'
<1>0. /\ low \in Nat /\ high \in Nat
      /\ \A k \in Sort!Positions : num[k] \in Int /\ k \in Nat
      /\ \A a \in DOMAIN todo : high + 1 < Lo(a) /\ Lo(a) \in Int /\ Hi(a) \in Int
  BY NumInt, RangeEnds, ExamplesAssumption DEF InBoundsSort, Untouching, Sort!Positions
<1>1. \A k, m : Together(k, m)' <=> Together(k, m)
  BY DEF Together, Lo, Hi
<1> SUFFICES ASSUME NEW k \in Sort!Positions, NEW m \in Sort!Positions, k < m,
                    ~Together(k, m)
             PROVE  num'[k] <= num'[m]
  BY <1>1 DEF Settled
<1> DEFINE u == IF k = x THEN y ELSE IF k = y THEN x ELSE k
           v == IF m = x THEN y ELSE IF m = y THEN x ELSE m
<1>2. num'[k] = num[u] /\ num'[m] = num[v] /\ u \in Sort!Positions /\ v \in Sort!Positions
  BY DEF Exchanged
<1>3. ~(low <= k /\ m <= high)
  BY DEF Together
<1>4. u < v
  BY <1>0, <1>3
<1>5. ~Together(u, v)
  BY <1>0, <1>3 DEF Together
<1> QED
  BY <1>2, <1>4, <1>5 DEF Settled
LEMMA SameKept == ASSUME Kept, UNCHANGED <<num, input>> PROVE Kept'
BY DEF Kept

(* The pairs of a range that is taken are those of the call it is for, and *)
(* a range of less than two elements has none.                             *)
LEMMA PopSettled ==
  ASSUME InBoundsSort, Settled, ~Active, todo # <<>>, todo' = Tail(todo), num' = num,
         \/ Active' /\ low' = Lo(1) /\ high' = Hi(1)
         \/ Lo(1) >= Hi(1)
  PROVE  Settled'
<1> SUFFICES ASSUME NEW k \in Sort!Positions, NEW m \in Sort!Positions, k < m,
                    Together(k, m)
             PROVE  Together(k, m)'
  BY DEF Settled
<1>1. PICK a \in DOMAIN todo : Lo(a) <= k /\ m <= Hi(a)
  BY DEF Together
<1>2. k \in Nat /\ m \in Nat /\ Lo(a) \in Int /\ Hi(a) \in Int
  BY NumInt, RangeEnds, ExamplesAssumption
<1>3. CASE a = 1
  BY <1>1, <1>2, <1>3 DEF Together
<1>4. CASE a # 1
  <2>1. DOMAIN todo = 1..Len(todo) /\ Len(todo) \in Nat /\ Len(todo') = Len(todo) - 1
          /\ todo' \in Seq(Ranges)
    BY RangeEnds, PopEnds
  <2>2. DOMAIN todo' = 1..Len(todo')
    BY <2>1
  <2>3. a - 1 \in DOMAIN todo' /\ (a - 1) + 1 = a
    BY <1>4, <2>1, <2>2
  <2>4. Lo(a - 1)' = Lo(a) /\ Hi(a - 1)' = Hi(a)
    BY <2>2, <2>3, PopEnds
  <2> QED
    BY <1>1, <2>3, <2>4 DEF Together
<1> QED
  BY <1>3, <1>4

(* The two ranges that take the place of one hold every pair of it but     *)
(* those that lie on the two sides of the pivot, or at it.                 *)
LEMMA SplitSettled ==
  ASSUME InBoundsSort, Untouching, Settled, Parted, Active, at = "left", i = j,
         num' = num, todo' = <<<<low, i - 1>>, <<j + 1, high>>>> \o todo
  PROVE  Settled'
<1>0. /\ Length \in Nat
      /\ \A k \in Sort!Positions : num[k] \in Int /\ k \in Nat
      /\ temp \in Int
      /\ low \in 0..Length /\ i - 1 \in -1..(Length - 1) /\ j + 1 \in 0..Length
      /\ high \in -1..(Length - 1) /\ i \in Nat /\ j \in Nat
  BY NumInt, ExamplesAssumption DEF InBoundsSort, Untouching
<1>1. /\ todo' \in Seq(Ranges) /\ Len(todo') = Len(todo) + 2
      /\ Lo(1)' = low /\ Hi(1)' = i - 1 /\ Lo(2)' = j + 1 /\ Hi(2)' = high
      /\ \A a \in 1..Len(todo) : Lo(a + 2)' = Lo(a) /\ Hi(a + 2)' = Hi(a)
  BY <1>0, PushEnds
<1>2. DOMAIN todo = 1..Len(todo) /\ Len(todo) \in Nat
  BY RangeEnds
<1>3. DOMAIN todo' = 1..(Len(todo) + 2)
  BY <1>1
<1> SUFFICES ASSUME NEW k \in Sort!Positions, NEW m \in Sort!Positions, k < m,
                    Together(k, m), ~(num[k] <= num[m])
             PROVE  Together(k, m)'
  BY DEF Settled
<1>4. CASE \E a \in DOMAIN todo : Lo(a) <= k /\ m <= Hi(a)
  <2> PICK a \in DOMAIN todo : Lo(a) <= k /\ m <= Hi(a)
    BY <1>4
  <2>1. a + 2 \in DOMAIN todo' /\ Lo(a + 2)' = Lo(a) /\ Hi(a + 2)' = Hi(a)
    BY <1>1, <1>2, <1>3
  <2> QED
    BY <2>1 DEF Together
<1>5. CASE low <= k /\ m <= high
  <2>1. CASE m < i
    <3>1. 1 \in DOMAIN todo' /\ Lo(1)' <= k /\ m <= Hi(1)'
      BY <1>0, <1>1, <1>2, <1>3, <1>5, <2>1
    <3> QED
      BY <3>1 DEF Together
  <2>2. CASE j < k
    <3>1. 2 \in DOMAIN todo' /\ Lo(2)' <= k /\ m <= Hi(2)'
      BY <1>0, <1>1, <1>2, <1>3, <1>5, <2>2
    <3> QED
      BY <3>1 DEF Together
  <2>3. CASE k <= j /\ i <= m
    <3>1. num[j] = temp
      BY DEF Parted
    <3>2. num[k] <= temp
      BY <1>0, <1>5, <2>3, <3>1 DEF Parted
    <3>3. temp <= num[m]
      BY <1>0, <1>5, <2>3, <3>1 DEF Parted
    <3> QED
      BY <1>0, <3>2, <3>3
  <2> QED
    BY <1>0, <2>1, <2>2, <2>3
<1> QED
  BY <1>4, <1>5 DEF Together
(* An array that is in order but for the ranges still to be sorted. *)
Sound == Kept /\ Settled /\ Parted

LEMMA QuickStep ==
  ASSUME InBoundsSort, Untouching, Quick, Sound, Sort!Next
  PROVE  Sound' \/ Sort!Stuck'
<1> USE DEF Sound
<1>0. /\ temp \in Int /\ i \in Int /\ j \in Int
      /\ \A k \in Sort!Positions : num[k] \in Int /\ k \in Nat
  BY NumInt, ExamplesAssumption DEF InBoundsSort
<1>a. Active =>
        /\ low \in Nat /\ high \in Nat
        /\ low <= i /\ i <= j /\ j <= high
        /\ i \in Sort!Positions /\ j \in Sort!Positions
  BY ExamplesAssumption DEF InBoundsSort, Untouching, Active, Sort!Positions
<1>b. DOMAIN num = Sort!Positions
  BY DEF InBoundsSort
<1>1. CASE Sort!Call
  <2>1. /\ ~Active /\ Active' /\ at' = "right" /\ todo # <<>> /\ todo' = Tail(todo)
        /\ low' = Head(todo)[1] /\ high' = Head(todo)[2]
        /\ i' = low' /\ j' = high' /\ temp' = num[low'] /\ UNCHANGED <<num, input>>
    BY <1>1 DEF Sort!Call, Active
  <2>2. Settled'
    BY <2>1, PopEnds, PopSettled
  <2>3. low' \in Int /\ high' \in Int
    BY <2>1, PopEnds, RangeEnds, ExamplesAssumption
  <2>4. Parted'
    BY <1>0, <2>1, <2>3 DEF Parted
  <2> QED
    BY <2>1, <2>2, <2>4, SameKept
<1>2. CASE Sort!Return
  <2>1. /\ ~Active /\ ~Active' /\ todo # <<>> /\ todo' = Tail(todo)
        /\ Head(todo)[1] >= Head(todo)[2] /\ UNCHANGED <<num, input>>
    BY <1>2 DEF Sort!Return, Active
  <2>2. Settled'
    BY <2>1, PopEnds, PopSettled
  <2> QED
    BY <2>1, <2>2, SameKept DEF Parted
<1>3. CASE Sort!MoveRight
  <2>1. /\ Active /\ at = "right" /\ i < j /\ temp <= num[j] /\ j' = j - 1
        /\ UNCHANGED <<sort, input, num, todo, at, low, high, temp, i>>
    BY <1>3, <1>0, <1>a DEF Sort!MoveRight, Sort!PassesRight, Sort!ranges, Active
  <2>2. Parted'
    BY <1>0, <1>a, <2>1 DEF Parted, Active
  <2> QED
    BY <2>1, <2>2, SameKept DEF Settled, Together, Active, Lo, Hi
<1>4. CASE Sort!StopRight
  <2>1. /\ Active /\ Active' /\ at = "right" /\ at' = "left"
        /\ num' = [[num EXCEPT ![i] = num[j]] EXCEPT ![j] = temp]
        /\ ~Sort!PassesRight
        /\ UNCHANGED <<sort, input, todo, low, high, temp, i, j>>
    BY <1>4 DEF Sort!StopRight, Sort!ranges, Active
  <2>2. /\ num'[j] = temp /\ (i # j => num'[i] = num[j])
        /\ \A k \in Sort!Positions : k # i /\ k # j => num'[k] = num[k]
    BY <1>a, <1>b, <2>1
  <2>3. num[i] = temp
    BY <2>1 DEF Parted
  <2>4. Exchanged(i, j)
    BY <2>2, <2>3 DEF Exchanged
  <2>5. low <= i /\ i <= high /\ low <= j /\ j <= high /\ i <= j
          /\ i \in Sort!Positions /\ j \in Sort!Positions
    BY <1>0, <1>a, <2>1
  <2>6. \A k \in Sort!Positions : k < i \/ j < k => num'[k] = num[k]
    BY <1>0, <2>2, <2>5
  <2>7. Parted'
    BY <2>1, <2>2, <2>6 DEF Parted
  <2>8. Kept'
    BY <2>1, <2>4, <2>5, ExchangeKeeps
  <2>9. Settled'
    BY <2>1, <2>4, <2>5, ExchangeSettled
  <2> QED
    BY <2>7, <2>8, <2>9
<1>5. CASE Sort!MoveLeft
  <2>1. /\ Active /\ at = "left" /\ i < j /\ num[i] <= temp /\ i' = i + 1
        /\ UNCHANGED <<sort, input, num, todo, at, low, high, temp, j>>
    BY <1>5, <1>0, <1>a DEF Sort!MoveLeft, Sort!PassesLeft, Sort!ranges, Active
  <2>2. Parted'
    BY <1>0, <1>a, <2>1 DEF Parted, Active
  <2> QED
    BY <2>1, <2>2, SameKept DEF Settled, Together, Active, Lo, Hi
<1>6. CASE Sort!StopLeft
  <2>1. /\ Active /\ at = "left" /\ num' = Sort!Stopped /\ num[j] = temp
        /\ UNCHANGED <<sort, input, low, high, temp, i, j>>
    BY <1>6 DEF Sort!StopLeft, Sort!ranges, Active, Parted
  <2>2. CASE i = j
    <3>1. num' = num
      BY <1>a, <1>b, <2>1, <2>2 DEF InBoundsSort, Sort!Stopped
    <3>2. at' = "call" /\ todo' = <<<<low, i - 1>>, <<j + 1, high>>>> \o todo
      <4>1. ~(i < j)
        BY <1>0, <2>2
      <4> QED
        BY <1>6, <4>1 DEF Sort!StopLeft
    <3>3. Settled'
      BY <2>1, <2>2, <3>1, <3>2, SplitSettled
    <3> QED
      BY <2>1, <3>1, <3>2, <3>3, SameKept DEF Parted, Active
  <2>3. CASE i # j /\ sort = "quicksort"
    <3>1. i < j /\ at' = "right" /\ UNCHANGED todo
      BY <1>0, <1>a, <1>6, <2>1, <2>3 DEF Sort!StopLeft
    <3>2. num' = [[num EXCEPT ![j] = num[i]] EXCEPT ![i] = temp]
      BY <2>1, <2>3 DEF Sort!Stopped
    <3>3. /\ num'[i] = temp /\ num'[j] = num[i]
          /\ \A k \in Sort!Positions : k # i /\ k # j => num'[k] = num[k]
      BY <1>a, <1>b, <2>1, <2>3, <3>2
    <3>4. Exchanged(i, j)
      BY <2>1, <3>3 DEF Exchanged
    <3>5. Parted'
      BY <1>0, <1>a, <2>1, <3>1, <3>3 DEF Parted
    <3>6. low <= i /\ i <= high /\ low <= j /\ j <= high /\ Active'
            /\ i \in Sort!Positions /\ j \in Sort!Positions
      BY <1>0, <1>a, <2>1, <3>1 DEF Active
    <3>7. Kept'
      BY <2>1, <3>4, <3>6, ExchangeKeeps
    <3>8. Settled'
      BY <2>1, <3>1, <3>4, <3>6, ExchangeSettled
    <3> QED
      BY <3>5, <3>7, <3>8
  <2>4. CASE i # j /\ sort # "quicksort"
    <3>1. i < j /\ at' = "right" /\ sort' = "quicksort2"
      BY <1>0, <1>a, <1>6, <2>1, <2>4 DEF Sort!StopLeft, Quick
    <3>2. num' = [num EXCEPT ![i] = temp, ![j] = temp]
      BY <2>1, <2>4 DEF Sort!Stopped
    <3>3. num'[i] = temp /\ num'[j] = temp
      BY <1>a, <1>b, <2>1, <3>2
    <3> QED
      BY <2>1, <3>1, <3>3 DEF Sort!Stuck
  <2> QED
    BY <2>2, <2>3, <2>4
<1>7. CASE Sort!Compare \/ Sort!NextRow
  BY <1>7 DEF Sort!Compare, Sort!NextRow, InBoundsSort
<1>8. CASE Sort!End
  <2>1. ~Active /\ ~Active' /\ UNCHANGED <<num, input, todo>>
    BY <1>8 DEF Sort!End, Active
  <2> QED
    BY <2>1, SameKept DEF Settled, Together, Parted, Lo, Hi
<1> QED
  BY <1>1, <1>2, <1>3, <1>4, <1>5, <1>6, <1>7, <1>8 DEF Sort!Next

(* Where quicksort2 is stuck it stays. *)
LEMMA StuckStep ==
  ASSUME InBoundsSort, Untouching, Sort!Stuck, Sort!Next
  PROVE  Sort!Stuck'
<1>0. /\ temp \in Int /\ i \in Sort!Positions /\ j \in Sort!Positions
      /\ DOMAIN num = Sort!Positions /\ i < j /\ i \in Int /\ j \in Int
  BY NumInt, ExamplesAssumption DEF InBoundsSort, Untouching, Active, Sort!Positions, Sort!Stuck
<1>1. ~Sort!PassesRight /\ ~Sort!PassesLeft
  BY <1>0 DEF Sort!Stuck, Sort!PassesRight, Sort!PassesLeft
<1>2. CASE Sort!StopRight
  <2>1. num' = [[num EXCEPT ![i] = num[j]] EXCEPT ![j] = temp]
          /\ at' = "left" /\ UNCHANGED <<sort, temp, i, j>>
    BY <1>2 DEF Sort!StopRight, Sort!ranges
  <2>2. num'[i] = temp /\ num'[j] = temp
    BY <1>0, <2>1 DEF Sort!Stuck
  <2> QED
    BY <2>1, <2>2 DEF Sort!Stuck
<1>3. CASE Sort!StopLeft
  <2>1. num' = [num EXCEPT ![i] = temp, ![j] = temp]
    BY <1>3 DEF Sort!StopLeft, Sort!Stopped, Sort!Stuck
  <2>2. at' = "right" /\ UNCHANGED <<sort, temp, i, j>>
    BY <1>0, <1>3 DEF Sort!StopLeft, Sort!ranges
  <2>3. num'[i] = temp /\ num'[j] = temp
    BY <1>0, <2>1
  <2> QED
    BY <2>2, <2>3 DEF Sort!Stuck
<1>4. ~Sort!Call /\ ~Sort!Return /\ ~Sort!MoveRight /\ ~Sort!MoveLeft
        /\ ~Sort!Compare /\ ~Sort!NextRow /\ ~Sort!End
  BY <1>1
  DEF Sort!Stuck, Sort!Call, Sort!Return, Sort!MoveRight, Sort!MoveLeft, Sort!Compare,
      Sort!NextRow, Sort!End
<1> QED
  BY <1>2, <1>3, <1>4 DEF Sort!Next-----------------------------------------------------------------------------
(* The bubble sorts: after i rows the last i elements are in their places, *)
(* and in a row the largest so far is the one that is compared next.       *)
Rowed ==
  /\ i <= Sort!Rows
  /\ at = "end" => i = Sort!Rows
  /\ j = 0 \/ j <= Length - 1 - i
  /\ \A k, m \in Sort!Positions : k < m /\ m >= Length - i => Sort!Ordered(num[k], num[m])
  /\ \A k \in Sort!Positions : k < j => Sort!Ordered(num[k], num[j])

LEMMA OrderedTransitive ==
  ASSUME NEW k \in Int, NEW m \in Int, NEW n \in Int,
         Sort!Ordered(k, m), Sort!Ordered(m, n)
  PROVE  Sort!Ordered(k, n)
BY DEF Sort!Ordered

LEMMA CompareStep ==
  ASSUME InBoundsSort, ~Quick, Kept, Rowed, Sort!Compare
  PROVE  Kept' /\ Rowed'
<1>0. /\ Length \in Nat \ {0} /\ i \in Nat /\ j \in Nat
      /\ DOMAIN num = Sort!Positions
      /\ \A k \in Sort!Positions : num[k] \in Int /\ k \in Nat
  BY NumInt, ExamplesAssumption DEF InBoundsSort
<1>1. /\ at = "bubble" /\ j < Length - 1 - i /\ j' = j + 1
      /\ num' = IF Sort!Out THEN [num EXCEPT ![j] = num[j + 1], ![j + 1] = num[j]] ELSE num
      /\ UNCHANGED <<sort, input, at, i>>
  BY DEF Sort!Compare, Sort!InRow
<1>2. j \in Sort!Positions /\ j + 1 \in Sort!Positions
  BY <1>0, <1>1 DEF Sort!Positions
<1>a. /\ i <= Sort!Rows' /\ at' # "end" /\ (j' <= Length - 1 - i)
      /\ \A k, m \in Sort!Positions :
           Sort!Ordered(num[k], num[m])' <=> Sort!Ordered(num'[k], num'[m])
  BY <1>0, <1>1 DEF Rowed, Sort!Rows, Sort!Ordered
<1>3. CASE Sort!Out
  <2>1. /\ num'[j] = num[j + 1] /\ num'[j + 1] = num[j]
        /\ \A k \in Sort!Positions : k # j /\ k # j + 1 => num'[k] = num[k]
    BY <1>0, <1>1, <1>2, <1>3
  <2>2. Kept'
    BY <1>1, <1>2, <2>1, ExchangeKeeps DEF Exchanged
  <2>3. Sort!Ordered(num[j + 1], num[j])
    BY <1>0, <1>2, <1>3 DEF Sort!Out, Sort!Ordered, InBoundsSort, Quick
  <2>4. \A k \in Sort!Positions : k < j + 1 => Sort!Ordered(num'[k], num'[j + 1])
    BY <1>0, <2>1, <2>3 DEF Rowed
  <2>5. \A k, m \in Sort!Positions :
          k < m /\ m >= Length - i => Sort!Ordered(num'[k], num'[m])
    <3> SUFFICES ASSUME NEW k \in Sort!Positions, NEW m \in Sort!Positions,
                        k < m, m >= Length - i
                 PROVE  Sort!Ordered(num'[k], num'[m])
      OBVIOUS
    <3>1. j + 1 < m /\ num'[m] = num[m]
      BY <1>0, <1>1, <2>1
    <3>2. Sort!Ordered(num[j], num[m]) /\ Sort!Ordered(num[j + 1], num[m])
      BY <1>0, <1>2, <3>1 DEF Rowed
    <3>3. Sort!Ordered(num[k], num[m])
      BY DEF Rowed
    <3> QED
      BY <2>1, <3>1, <3>2, <3>3
  <2> QED
    BY <1>1, <1>2, <1>a, <2>2, <2>4, <2>5 DEF Rowed
<1>4. CASE ~Sort!Out
  <2>1. num' = num
    BY <1>1, <1>4
  <2>2. Sort!Ordered(num[j], num[j + 1])
    BY <1>0, <1>2, <1>4 DEF Sort!Out, Sort!Ordered, InBoundsSort, Quick
  <2>3. \A k \in Sort!Positions : k < j + 1 => Sort!Ordered(num[k], num[j + 1])
    <3> SUFFICES ASSUME NEW k \in Sort!Positions, k < j + 1
                 PROVE  Sort!Ordered(num[k], num[j + 1])
      OBVIOUS
    <3>1. k = j \/ Sort!Ordered(num[k], num[j])
      BY <1>0 DEF Rowed
    <3> QED
      BY <1>0, <1>2, <2>2, <3>1, OrderedTransitive
  <2>4. \A k, m \in Sort!Positions :
          k < m /\ m >= Length - i => Sort!Ordered(num[k], num[m])
    BY DEF Rowed
  <2> QED
    BY <1>1, <1>2, <1>a, <2>1, <2>3, <2>4, SameKept DEF Rowed
<1> QED
  BY <1>3, <1>4

LEMMA NextRowStep ==
  ASSUME InBoundsSort, ~Quick, Kept, Rowed, Sort!NextRow
  PROVE  Kept' /\ Rowed'
<1>0. /\ Length \in Nat \ {0} /\ i \in Nat /\ j \in Nat /\ Sort!Rows \in Int
      /\ \A k \in Sort!Positions : num[k] \in Int /\ k \in Nat
  BY NumInt, ExamplesAssumption DEF InBoundsSort, Sort!Rows
<1>1. /\ at = "bubble" /\ i < Sort!Rows /\ ~(j < Length - 1 - i)
      /\ i' = i + 1 /\ j' = 0 /\ UNCHANGED <<sort, input, num, at>>
  BY DEF Sort!NextRow, Sort!InRow
<1>2. i < Length
  BY <1>0, <1>1 DEF Sort!Rows
<1>3. j = Length - 1 - i
  BY <1>0, <1>1, <1>2 DEF Rowed
<1>4. \A k, m \in Sort!Positions :
        k < m /\ m >= Length - (i + 1) => Sort!Ordered(num[k], num[m])
  <2> SUFFICES ASSUME NEW k \in Sort!Positions, NEW m \in Sort!Positions,
                      k < m, m >= Length - (i + 1)
               PROVE  Sort!Ordered(num[k], num[m])
    OBVIOUS
  <2>1. m = j \/ m >= Length - i
    BY <1>0, <1>3
  <2> QED
    BY <2>1 DEF Rowed
<1>5. i + 1 <= Sort!Rows /\ Sort!Rows' = Sort!Rows
  BY <1>0, <1>1 DEF Sort!Rows
<1>6. \A k \in Sort!Positions : ~(k < 0)
  BY <1>0
<1> QED
  BY <1>1, <1>4, <1>5, <1>6, SameKept DEF Rowed, Sort!Ordered

SortInv ==
  /\ InBoundsSort /\ Untouching
  /\ Quick => (Sound /\ (at = "end" => todo = <<>>)) \/ Sort!Stuck
  /\ ~Quick => Kept /\ Rowed

LEMMA SortInit == Sort!Init => SortInv
<1> SUFFICES ASSUME Sort!Init PROVE SortInv
  OBVIOUS
<1>0. Length \in Nat \ {0} /\ \A k \in Sort!Positions : k \in Nat /\ k <= Length - 1
  BY ExamplesAssumption DEF Sort!Positions
<1>1. /\ todo = <<<<0, Length - 1>>>> /\ num = input /\ i = 0 /\ j = 0
      /\ at = IF sort \in {"quicksort", "quicksort2"} THEN "call" ELSE "bubble"
  BY DEF Sort!Init
<1>2. Kept
  <2> DEFINE p == [k \in Sort!Positions |-> k]
  <2>1. p \in [Sort!Positions -> Sort!Positions] /\ \A k \in Sort!Positions : p[k] = k
    OBVIOUS
  <2> HIDE DEF p
  <2> QED
    BY <1>1, <2>1 DEF Kept
<1>3. Settled
  <2>1. 1 \in DOMAIN todo /\ Lo(1) = 0 /\ Hi(1) = Length - 1
    BY <1>1 DEF Lo, Hi
  <2> QED
    BY <1>0, <2>1 DEF Settled, Together
<1>4. Parted /\ at # "end"
  BY <1>1 DEF Parted, Active
<1>5. ~Quick => Rowed
  BY <1>0, <1>1, <1>4 DEF Rowed, Sort!Rows
<1> QED
  BY <1>2, <1>3, <1>4, <1>5, SortBoundsInit DEF SortInv, Sound

LEMMA SortStep == SortInv /\ [Sort!Next]_(Sort!vars) => SortInv'
<1> SUFFICES ASSUME SortInv, [Sort!Next]_(Sort!vars) PROVE SortInv'
  OBVIOUS
<1>1. InBoundsSort /\ Untouching /\ InBoundsSort' /\ Untouching'
  BY SortBounds DEF SortInv
<1>2. CASE UNCHANGED Sort!vars
  BY <1>1, <1>2
  DEF Sort!vars, Sort!ranges, SortInv, Quick, Sound, Kept, Settled, Together, Active, Lo, Hi,
      Parted, Sort!Stuck, Rowed, Sort!Rows, Sort!Ordered
<1>3. CASE Sort!Next /\ Quick
  <2>1. Quick'
    BY <1>3
    DEF Quick, Sort!Next, Sort!Call, Sort!Return, Sort!MoveRight, Sort!StopRight,
        Sort!MoveLeft, Sort!StopLeft, Sort!Compare, Sort!NextRow, Sort!End
  <2>2. at' = "end" => todo' = <<>>
    BY <1>1, <1>3
    DEF InBoundsSort, Sort!Next, Sort!Call, Sort!Return, Sort!MoveRight, Sort!StopRight,
        Sort!MoveLeft, Sort!StopLeft, Sort!Compare, Sort!NextRow, Sort!End
  <2>3. Sound' \/ Sort!Stuck'
    BY <1>1, <1>3, QuickStep, StuckStep DEF SortInv
  <2> QED
    BY <1>1, <2>1, <2>2, <2>3 DEF SortInv
<1>4. CASE Sort!Next /\ ~Quick
  <2>1. Sort!Compare \/ Sort!NextRow \/ Sort!End
    BY <1>1, <1>4
    DEF InBoundsSort, Sort!Next, Sort!Call, Sort!Return, Sort!MoveRight, Sort!StopRight,
        Sort!MoveLeft, Sort!StopLeft
  <2>2. ~Quick'
    BY <1>4, <2>1 DEF Quick, Sort!Compare, Sort!NextRow, Sort!End
  <2>3. CASE Sort!End
    <3>1. i = Sort!Rows /\ UNCHANGED <<sort, input, num, i, j>>
      BY <1>1, <1>4, <2>3 DEF Sort!End, InBoundsSort
    <3> QED
      BY <1>1, <1>4, <2>2, <3>1, SameKept
      DEF SortInv, Rowed, Sort!Rows, Sort!Ordered
  <2> QED
    BY <1>1, <1>4, <2>1, <2>2, <2>3, CompareStep, NextRowStep DEF SortInv
<1> QED
  BY <1>2, <1>3, <1>4

LEMMA InOrderAtEnd == SortInv => Sort!EndsSorted
<1> SUFFICES ASSUME SortInv, at = "end" PROVE Sort!SortedAndKept
  BY DEF Sort!EndsSorted
<1> USE DEF SortInv
<1>0. /\ Length \in Nat \ {0} /\ Sort!Positions = 0..(Length - 1)
      /\ \A k \in Sort!Positions : num[k] \in Int
  BY NumInt, ExamplesAssumption DEF Sort!Positions
<1>1. ~Active /\ ~Sort!Stuck
  BY DEF Active, Sort!Stuck
<1>2. Kept
  BY <1>1 DEF Sound
<1>3. ASSUME NEW k \in 1..(Length - 1)
      PROVE  Sort!Ordered(num[k - 1], num[k])
  <2>1. k - 1 \in Sort!Positions /\ k \in Sort!Positions /\ k - 1 < k
    BY <1>0
  <2>2. CASE Quick
    <3>1. Settled /\ todo = <<>>
      BY <1>1, <2>2 DEF Sound
    <3>2. ~Together(k - 1, k)
      BY <1>1, <3>1 DEF Together
    <3>3. num[k - 1] <= num[k]
      BY <2>1, <3>1, <3>2 DEF Settled
    <3> QED
      BY <2>2, <3>3 DEF Sort!Ordered, Quick
  <2>3. CASE ~Quick
    <3>1. k >= Length - i
      <4>1. i = Sort!Rows
        BY <2>3 DEF Rowed
      <4>2. Sort!Rows = Length - 1 \/ Sort!Rows = Length
        BY DEF Sort!Rows
      <4> QED
        BY <1>0, <4>1, <4>2
    <3> QED
      BY <2>1, <2>3, <3>1 DEF Rowed
  <2> QED
    BY <2>2, <2>3
<1>4. \A v \in Numbers :
        Cardinality({k \in Sort!Positions : num[k] = v})
          = Cardinality({k \in Sort!Positions : input[k] = v})
  BY <1>2, KeptCounts
<1>5. \A S : Sort!Cardinality(S) = Cardinality(S)
  BY DEF Sort!Cardinality, Cardinality, Sort!IsFiniteSet, IsFiniteSet
<1> QED
  BY <1>3, <1>4, <1>5 DEF Sort!SortedAndKept

(* Every sort that ends has put the numbers it was given in order, however *)
(* many there are.  quicksort2 and the bubble sorts stay in their array;   *)
(* quicksort writes only there, but reads the one element after it, which  *)
(* it drops (quicksort.c:12).  Never more calls wait than there are        *)
(* elements and one.                                                       *)
THEOREM Sorts == Sort!Spec => [](Sort!TypeOK /\ Sort!ReadsInside /\ Sort!EndsSorted)
<1>1. SortInv /\ Sort!ReadsInside => Sort!TypeOK
  BY SortTypes DEF SortInv
<1>2. Sort!Init => Sort!ReadsInside
  BY DEF Sort!Init, Sort!ReadsInside
<1>3. SortInv /\ Sort!ReadsInside /\ [Sort!Next]_(Sort!vars) => Sort!ReadsInside'
  BY ReadsStep DEF SortInv
<1> QED
  BY <1>1, <1>2, <1>3, SortInit, SortStep, InOrderAtEnd, PTL DEF Sort!Spec
-----------------------------------------------------------------------------
(* The list of node.c. *)

(* Every set of natural numbers that is not empty has a least element. *)
LEMMA Least ==
  ASSUME NEW T \in SUBSET Nat, T # {}
  PROVE  \E x \in T : \A y \in T : x <= y
<1> DEFINE R == OpToRel(<, Nat)
<1>1. \A x, y \in Nat : <<x, y>> \in R <=> x < y
  BY DEF OpToRel
<1>2. IsWellFoundedOn(R, Nat)
  BY NatLessThanWellFounded
<1>3. \E x \in T : \A y \in T : ~(<<y, x>> \in R)
  BY <1>2, WFMin
<1>4. \E x \in T : \A y \in T : ~(y < x)
  BY <1>1, <1>3
<1> HIDE DEF R
<1> QED
  BY ONLY <1>4, T \in SUBSET Nat

(* The ring goes through the n nodes s[1], ..., s[n], from the head and    *)
(* back to it, and they are the cells in use.                              *)
Laid(s, n) ==
  /\ s \in [0..(n + 1) -> Node!Nodes] /\ s[0] = 0 /\ s[n + 1] = 0
  /\ \A k \in 1..n : s[k] \in used
  /\ \A c \in used : \E k \in 1..n : s[k] = c
  /\ \A k, m \in 1..n : s[k] = s[m] => k = m
  /\ \A k \in 0..n : next[s[k]] = s[k + 1] /\ pre[s[k + 1]] = s[k]

(* Where a walk has come to: input counts the hops, del one more.  A walk  *)
(* to insert starts when malloc has a cell left.                           *)
Walking(s, n) ==
  /\ doing = "input" => hops \in 0..n /\ pos = s[hops] /\ used # Node!Cells
  /\ doing = "del" => hops \in 1..(n + 1) /\ pos = s[hops]
  /\ doing = "show" => pos \in used \union {0} /\ hops = 0
  /\ doing \in {"create", "wait"} => pos = 0 /\ hops = 0

NodeTypes ==
  /\ next \in [Node!Nodes -> Node!Nodes] /\ pre \in [Node!Nodes -> Node!Nodes]
  /\ val \in [Node!Cells -> Values] /\ used \subseteq Node!Cells
  /\ doing \in {"create", "wait", "input", "del", "show"}
  /\ index \in Indexes /\ broken \in BOOLEAN
  /\ doing = "create" => used = {}
  /\ doing # "wait" => ~broken

NodeInv == NodeTypes /\ \E n \in Nat : \E s : Laid(s, n) /\ Walking(s, n)

LEMMA NodeNumbers ==
  /\ MaxLength \in Nat /\ Node!head = 0
  /\ Node!Cells = 1..MaxLength /\ Node!Nodes = 0..MaxLength
BY ExamplesAssumption DEF Node!head, Node!Cells, Node!Nodes

(* A ring of n nodes uses n cells. *)
LEMMA LaidCount ==
  ASSUME NodeTypes, NEW n \in Nat, NEW s, Laid(s, n)
  PROVE  /\ Node!Cardinality(used) = n /\ n <= MaxLength
         /\ used # Node!Cells => n < MaxLength
<1> DEFINE f == [k \in 1..n |-> s[k]]
<1>1. f \in Bijection(1..n, used)
  BY DEF Laid, Bijection, Injection, Surjection, IsInjective
<1>2. IsFiniteSet(1..n) /\ Cardinality(1..n) = n
  BY FS_Interval
<1>3. Cardinality(used) = n
  BY <1>1, <1>2, FS_Bijection DEF ExistsBijection
<1>4. IsFiniteSet(Node!Cells) /\ Cardinality(Node!Cells) = MaxLength
  BY FS_Interval, NodeNumbers
<1>5. n <= MaxLength /\ (n = MaxLength => used = Node!Cells)
  BY <1>3, <1>4, FS_Subset DEF NodeTypes
<1>6. Node!Cardinality(used) = Cardinality(used)
  BY DEF Node!Cardinality, Cardinality, Node!IsFiniteSet, IsFiniteSet
<1> QED
  BY <1>3, <1>5, <1>6, NodeNumbers

(* No two places of the ring but its ends hold the same node. *)
LEMMA LaidOnce ==
  ASSUME NodeTypes, NEW n \in Nat, NEW s, Laid(s, n)
  PROVE  /\ \A k, m \in 0..n : s[k] = s[m] => k = m
         /\ \A k, m \in 1..(n + 1) : s[k] = s[m] => k = m
         /\ \A k \in 0..(n + 1) : s[k] \in used \union {0}
         /\ \A k \in 1..n : s[k] # 0
<1>1. \A k \in 1..n : s[k] # 0
  BY NodeNumbers DEF Laid, NodeTypes
<1>2. ASSUME NEW k \in 0..(n + 1) PROVE k = 0 \/ k = n + 1 \/ k \in 1..n
  OBVIOUS
<1> QED
  BY <1>1, <1>2 DEF Laid

(* list_add: a node goes in behind place h. *)
LEMMA LaidInsert ==
  ASSUME NodeTypes, NEW n \in Nat, NEW s, Laid(s, n), NEW h \in 0..n, pos = s[h],
         NEW c \in Node!Cells \ used, Node!LinkBehind(c), used' = used \union {c},
         NEW t, t = [k \in 0..(n + 2) |-> IF k <= h THEN s[k]
                                          ELSE IF k = h + 1 THEN c ELSE s[k - 1]]
  PROVE  Laid(t, n + 1)'
<1>1. c \in Node!Nodes /\ c # 0 /\ \A k \in 0..(n + 1) : s[k] # c
  <2>1. c \in Node!Nodes /\ c # 0
    BY NodeNumbers
  <2>2. \A k \in 0..(n + 1) : s[k] \in used \union {0}
    BY LaidOnce
  <2> QED
    BY ONLY <2>1, <2>2, c \in Node!Cells \ used
<1>2. t \in [0..(n + 2) -> Node!Nodes] /\ t[0] = 0 /\ t[n + 2] = 0
  BY <1>1 DEF Laid
<1>3. \A k \in 1..(n + 1) : t[k] \in used'
  BY DEF Laid
<1>4. \A d \in used' : \E k \in 1..(n + 1) : t[k] = d
  <2>1. t[h + 1] = c
    OBVIOUS
  <2>2. \A k \in 1..n : (k <= h => t[k] = s[k]) /\ (k > h => t[k + 1] = s[k])
    OBVIOUS
  <2> QED
    BY <2>1, <2>2 DEF Laid
<1>5. \A k, m \in 1..(n + 1) : t[k] = t[m] => k = m
  BY <1>1, LaidOnce
<1>6. \A k \in 0..(n + 1) : next'[t[k]] = t[k + 1] /\ pre'[t[k + 1]] = t[k]
  <2> SUFFICES ASSUME NEW k \in 0..(n + 1)
               PROVE  next'[t[k]] = t[k + 1] /\ pre'[t[k + 1]] = t[k]
    OBVIOUS
  <2>1. next[pos] = s[h + 1] /\ pos \in Node!Nodes /\ s[h + 1] \in Node!Nodes
    <3>1. h \in 0..(n + 1) /\ h + 1 \in 0..(n + 1)
      OBVIOUS
    <3>2. next[s[h]] = s[h + 1] /\ s \in [0..(n + 1) -> Node!Nodes]
      BY DEF Laid
    <3> QED
      BY ONLY <3>1, <3>2, pos = s[h]
  <2>2. /\ \A x \in Node!Nodes : next'[x] = IF x = c THEN s[h + 1]
                                            ELSE IF x = s[h] THEN c ELSE next[x]
        /\ \A x \in Node!Nodes : pre'[x] = IF x = c THEN s[h]
                                           ELSE IF x = s[h + 1] THEN c ELSE pre[x]
    BY <1>1, <2>1 DEF Node!LinkBehind, NodeTypes
  <2>3. CASE k < h
    <3>1. t[k] = s[k] /\ t[k + 1] = s[k + 1]
      BY <2>3
    <3>4. k \in 0..n /\ k + 1 \in 1..(n + 1) /\ h + 1 \in 1..(n + 1) /\ k # h
          /\ k + 1 # h + 1
      BY <2>3
    <3>2. s[k] # s[h] /\ s[k + 1] # s[h + 1] /\ s[k] # c /\ s[k + 1] # c
      BY <1>1, <3>4, LaidOnce
    <3>3. /\ k \in 0..n /\ s[k] \in Node!Nodes /\ s[k + 1] \in Node!Nodes
          /\ next[s[k]] = s[k + 1] /\ pre[s[k + 1]] = s[k]
      BY <3>1, <2>3 DEF Laid
    <3> QED
      BY <3>1, <3>2, <3>3, <2>2
  <2>4. CASE k = h
    BY <1>1, <2>2, <2>4 DEF Laid
  <2>5. CASE k = h + 1
    <3>1. t[k] = c /\ t[k + 1] = s[h + 1]
      BY <2>5
    <3> QED
      BY <1>1, <3>1, <2>2, <2>1
  <2>6. CASE k > h + 1
    <3> DEFINE m == k - 1
    <3>1. m \in 1..n /\ m > h /\ t[k] = s[m] /\ t[k + 1] = s[m + 1]
      BY <2>6
    <3> HIDE DEF m
    <3>2. s[m] # s[h] /\ s[m + 1] # s[h + 1] /\ s[m] # c /\ s[m + 1] # c
      BY <1>1, <3>1, LaidOnce
    <3>3. /\ m \in 0..n /\ s[m] \in Node!Nodes /\ s[m + 1] \in Node!Nodes
          /\ next[s[m]] = s[m + 1] /\ pre[s[m + 1]] = s[m]
      BY <3>1 DEF Laid
    <3> QED
      BY <3>1, <3>2, <3>3, <2>2
  <2> QED
    BY <2>3, <2>4, <2>5, <2>6
<1>7. (n + 1) + 1 = n + 2
  OBVIOUS
<1> QED
  BY <1>2, <1>3, <1>4, <1>5, <1>6, <1>7 DEF Laid

(* list_del: the node at place h goes out. *)
LEMMA LaidDelete ==
  ASSUME NodeTypes, NEW n \in Nat, NEW s, Laid(s, n), NEW h \in 1..n, pos = s[h],
         Node!Unlink, used' = used \ {pos},
         NEW t, t = [k \in 0..n |-> IF k < h THEN s[k] ELSE s[k + 1]]
  PROVE  Laid(t, n - 1)'
<1>1. t \in [0..n -> Node!Nodes] /\ t[0] = 0 /\ t[n] = 0
  BY DEF Laid
<1>2. \A k \in 1..(n - 1) : t[k] \in used'
  BY LaidOnce DEF Laid
<1>3. \A d \in used' : \E k \in 1..(n - 1) : t[k] = d
  <2> SUFFICES ASSUME NEW d \in used' PROVE \E k \in 1..(n - 1) : t[k] = d
    OBVIOUS
  <2>1. PICK k \in 1..n : s[k] = d
    BY DEF Laid
  <2>2. k \in Int /\ h \in Int /\ k # h
    BY <2>1
  <2>3. ASSUME k < h PROVE k \in 1..(n - 1) /\ t[k] = d
    BY <2>1, <2>3
  <2>4. ASSUME k > h PROVE k - 1 \in 1..(n - 1) /\ t[k - 1] = d
    BY <2>1, <2>4
  <2> QED
    BY ONLY <2>2, <2>3, <2>4
<1>4. \A k, m \in 1..(n - 1) : t[k] = t[m] => k = m
  BY LaidOnce
<1>5. \A k \in 0..(n - 1) : next'[t[k]] = t[k + 1] /\ pre'[t[k + 1]] = t[k]
  <2> SUFFICES ASSUME NEW k \in 0..(n - 1)
               PROVE  next'[t[k]] = t[k + 1] /\ pre'[t[k + 1]] = t[k]
    OBVIOUS
  <2> DEFINE g == h - 1
  <2>0. g \in 0..n /\ h = g + 1
    OBVIOUS
  <2> HIDE DEF g
  <2>1. next[pos] = s[h + 1] /\ pre[pos] = s[g]
    BY <2>0 DEF Laid
  <2>2. s[h + 1] \in Node!Nodes /\ s[g] \in Node!Nodes /\ s[h] \in Node!Nodes
    BY <2>0 DEF Laid
  <2>3. s[g] # s[h] /\ s[h] # s[h + 1]
    BY <2>0, LaidOnce
  <2>4. /\ \A x \in Node!Nodes : next'[x] = IF x = s[h] THEN 0
                                            ELSE IF x = s[g] THEN s[h + 1] ELSE next[x]
        /\ \A x \in Node!Nodes : pre'[x] = IF x = s[h] THEN 0
                                           ELSE IF x = s[h + 1] THEN s[g] ELSE pre[x]
    BY <2>1, <2>2, NodeNumbers DEF Node!Unlink, NodeTypes
  <2>5. CASE k < g
    <3>1. t[k] = s[k] /\ t[k + 1] = s[k + 1]
      BY <2>0, <2>5
    <3>2. s[k] # s[h] /\ s[k] # s[g] /\ s[k + 1] # s[h] /\ s[k + 1] # s[h + 1]
      BY <2>0, <2>5, LaidOnce
    <3>3. /\ k \in 0..n /\ s[k] \in Node!Nodes /\ s[k + 1] \in Node!Nodes
          /\ next[s[k]] = s[k + 1] /\ pre[s[k + 1]] = s[k]
      BY <3>1, <2>5 DEF Laid
    <3> QED
      BY <3>1, <3>2, <3>3, <2>4
  <2>6. CASE k = g
    <3>1. t[k] = s[g] /\ t[k + 1] = s[h + 1]
      BY <2>0, <2>6
    <3> QED
      BY <3>1, <2>2, <2>3, <2>4
  <2>7. CASE k > g
    <3> DEFINE m == k + 1
    <3>1. m \in 1..n /\ m > h /\ t[k] = s[m] /\ t[k + 1] = s[m + 1]
      BY <2>0, <2>7
    <3> HIDE DEF m
    <3>2. s[m] # s[h] /\ s[m] # s[g] /\ s[m + 1] # s[h] /\ s[m + 1] # s[h + 1]
      BY <3>1, <2>0, LaidOnce
    <3>3. /\ m \in 0..n /\ s[m] \in Node!Nodes /\ s[m + 1] \in Node!Nodes
          /\ next[s[m]] = s[m + 1] /\ pre[s[m + 1]] = s[m]
      BY <3>1 DEF Laid
    <3> QED
      BY <3>1, <3>2, <3>3, <2>4
  <2> QED
    BY <2>0, <2>5, <2>6, <2>7
<1>6. (n - 1) + 1 = n
  OBVIOUS
<1> QED
  BY <1>1, <1>2, <1>3, <1>4, <1>5, <1>6 DEF Laid

(* Next leads from the ring into the ring, and pre leads back. *)
LEMMA LaidCloses ==
  ASSUME NodeTypes, NEW n \in Nat, NEW s, Laid(s, n), NEW x \in used \union {0}
  PROVE  next[x] \in used \union {0} /\ pre[next[x]] = x
<1>1. \E k \in 0..n : s[k] = x
  <2>1. CASE x = 0
    <3>1. 0 \in 0..n /\ s[0] = x
      BY <2>1 DEF Laid
    <3> QED
      BY <3>1
  <2>2. CASE x \in used
    <3>1. PICK k \in 1..n : s[k] = x
      BY <2>2 DEF Laid
    <3> QED
      BY <3>1
  <2> QED
    BY <2>1, <2>2
<1>2. PICK k \in 0..n : s[k] = x
  BY <1>1
<1>3. next[x] = s[k + 1] /\ pre[s[k + 1]] = x
  BY <1>2 DEF Laid
<1>4. s[k + 1] \in used \union {0}
  BY LaidOnce
<1> QED
  BY <1>3, <1>4

LEMMA SameLaid ==
  ASSUME NEW n, NEW s, Laid(s, n), UNCHANGED <<next, pre, used>>
  PROVE  Laid(s, n)'
BY DEF Laid

(* What malloc returns when it has a cell left. *)
LEMMA Fresh ==
  ASSUME NodeTypes, used # Node!Cells
  PROVE  Node!Min(Node!Cells \ used) \in Node!Cells \ used
<1> DEFINE free == Node!Cells \ used
<1>1. free \in SUBSET Nat
  BY NodeNumbers
<1>0. free # {}
  BY DEF NodeTypes
<1>2. \E c \in free : \A d \in free : c <= d
  BY <1>0, <1>1, Least
<1> HIDE DEF free
<1>3. Node!Min(free) \in free
  BY <1>2 DEF Node!Min
<1> QED
  BY <1>3 DEF free

LEMMA NodeInit == Node!Init => NodeInv
<1> SUFFICES ASSUME Node!Init PROVE NodeInv
  OBVIOUS
<1>1. NodeTypes
  <2>1. Node!Blank \in Values
    BY ExamplesAssumption DEF Node!Blank
  <2>2. Node!Min(Indexes) \in Indexes
    BY ExamplesAssumption DEF Node!Min
  <2>3. next \in [Node!Nodes -> Node!Nodes] /\ pre \in [Node!Nodes -> Node!Nodes]
    BY NodeNumbers DEF Node!Init
  <2>4. val \in [Node!Cells -> Values]
    BY <2>1 DEF Node!Init
  <2>5. used = {} /\ doing = "create" /\ index \in Indexes /\ broken = FALSE
    BY <2>2 DEF Node!Init
  <2> QED
    BY <2>3, <2>4, <2>5 DEF NodeTypes
<1>2. Laid([k \in 0..1 |-> 0], 0) /\ Walking([k \in 0..1 |-> 0], 0)
  BY NodeNumbers DEF Node!Init, Laid, Walking
<1> QED
  BY <1>1, <1>2 DEF NodeInv

(* create_data_list lays the nodes in the order of their numbers. *)
LEMMA CreateLays ==
  ASSUME NodeTypes, Node!create_data_list,
         \E n \in Nat : \E s : Walking(s, n)
  PROVE  NodeTypes' /\ \E n \in 0..MaxLength : \E s :
                         Laid(s, n)' /\ Walking(s, n)' /\ (broken' <=> n = 0)
<1>1. PICK size \in 0..MaxLength :
        /\ used' = 1..size
        /\ next' = [x \in Node!Nodes |-> IF x < size THEN x + 1 ELSE 0]
        /\ pre' = [x \in Node!Nodes |-> IF x = 0 THEN size
                                        ELSE IF x <= size THEN x - 1 ELSE 0]
        /\ broken' = (size = 0) /\ val' \in [Node!Cells -> Values]
  BY NodeNumbers DEF Node!create_data_list
<1>2. doing = "create" /\ doing' = "wait" /\ UNCHANGED <<pos, hops, index>>
  BY DEF Node!create_data_list, Node!walk
<1>3. size \in Nat /\ size <= MaxLength
  BY <1>1, NodeNumbers
<1>4. next' \in [Node!Nodes -> Node!Nodes] /\ pre' \in [Node!Nodes -> Node!Nodes]
  BY <1>1, <1>3, NodeNumbers
<1>5. used' \subseteq Node!Cells /\ broken' \in BOOLEAN
  BY <1>1, <1>3, NodeNumbers
<1>6. NodeTypes'
  BY <1>1, <1>2, <1>4, <1>5 DEF NodeTypes, Node!Nodes, Node!Cells
<1>7. ASSUME NEW s, s = [k \in 0..(size + 1) |-> IF k = size + 1 THEN 0 ELSE k]
      PROVE  Laid(s, size)'
  <2>1. s \in [0..(size + 1) -> Node!Nodes] /\ s[0] = 0 /\ s[size + 1] = 0
    BY <1>3, <1>7, NodeNumbers
  <2>2. \A k \in 1..size : s[k] = k
    BY <1>3, <1>7
  <2>3. \A k \in 0..size : next'[s[k]] = s[k + 1] /\ pre'[s[k + 1]] = s[k]
    <3> SUFFICES ASSUME NEW k \in 0..size
                 PROVE  next'[s[k]] = s[k + 1] /\ pre'[s[k + 1]] = s[k]
      OBVIOUS
    <3>1. s[k] = k /\ s[k + 1] = IF k = size THEN 0 ELSE k + 1
      BY <1>3, <1>7
    <3>2. k \in Node!Nodes /\ (k # size => k + 1 \in Node!Nodes) /\ 0 \in Node!Nodes
      BY <1>3, NodeNumbers
    <3>3. next'[k] = IF k < size THEN k + 1 ELSE 0
      BY <1>1, <3>2
    <3>4. pre'[0] = size /\ (k # size => pre'[k + 1] = k)
      BY <1>1, <1>3, <3>2
    <3> QED
      BY <1>3, <3>1, <3>3, <3>4
  <2> QED
    BY <1>1, <1>3, <2>1, <2>2, <2>3 DEF Laid
<1>9. pos = 0 /\ hops = 0
  BY <1>2 DEF Walking
<1>8. \A s : Walking(s, size)'
  BY <1>2, <1>9 DEF Walking
<1> QED
  BY <1>1, <1>3, <1>6, <1>7, <1>8

(* A walk goes one node on, and never into a freed one. *)
LEMMA HopKeeps ==
  ASSUME NodeTypes, NEW n \in Nat, NEW s, Laid(s, n), Walking(s, n), Node!Hop
  PROVE  NodeTypes' /\ Laid(s, n)' /\ Walking(s, n)'
<1>1. UNCHANGED <<next, pre, val, used, doing, index, broken>> /\ pos' = next[pos]
  BY DEF Node!Hop, Node!ring
<1>2. NodeTypes' /\ Laid(s, n)'
  BY <1>1, SameLaid DEF NodeTypes, Node!Nodes, Node!Cells
<1>3. CASE doing = "input"
  <2>1. next[pos] # 0 /\ hops' = hops + 1
    BY <1>3, NodeNumbers DEF Node!Hop, Node!Walks
  <2>2. hops \in 0..n /\ next[pos] = s[hops + 1] /\ s[n + 1] = 0
    BY <1>3 DEF Laid, Walking
  <2>3. hops + 1 \in 0..n
    BY <2>1, <2>2
  <2> QED
    BY <1>1, <1>2, <1>3, <2>1, <2>2, <2>3 DEF Walking, Node!Cells
<1>4. CASE doing = "del"
  <2>1. pos # 0 /\ hops' = hops + 1
    BY <1>4, NodeNumbers DEF Node!Hop, Node!Walks
  <2>2. hops \in 1..(n + 1) /\ pos = s[hops] /\ s[n + 1] = 0
    BY <1>4 DEF Laid, Walking
  <2>3. hops \in 0..n /\ hops + 1 \in 1..(n + 1)
    BY <2>1, <2>2
  <2>4. next[pos] = s[hops + 1]
    BY <2>2, <2>3 DEF Laid
  <2> QED
    BY <1>1, <1>2, <1>4, <2>1, <2>3, <2>4 DEF Walking
<1>5. CASE doing = "show"
  <2>1. hops' = hops /\ pos \in used \union {0} /\ hops = 0
    BY <1>5 DEF Node!Hop, Walking
  <2> QED
    BY <1>1, <1>2, <1>5, <2>1, LaidCloses DEF Walking
<1>6. doing \in {"input", "del", "show"}
  BY DEF Node!Hop, Node!Walks
<1> QED
  BY <1>2, <1>3, <1>4, <1>5, <1>6

(* A walk starts at the head or at the node behind it. *)
LEMMA StartKeeps ==
  ASSUME NodeTypes, NEW n \in Nat, NEW s, Laid(s, n), Walking(s, n),
         Node!StartInput \/ Node!StartDel \/ Node!StartShow
  PROVE  NodeTypes' /\ Laid(s, n)' /\ Walking(s, n)'
<1>1. UNCHANGED <<next, pre, val, used, broken>> /\ doing = "wait" /\ index' \in Indexes
      /\ ~broken
      /\ doing' \in {"input", "del", "show"}
  BY DEF Node!StartInput, Node!StartDel, Node!StartShow, Node!Start, Node!ring, NodeTypes
<1>2. NodeTypes' /\ Laid(s, n)'
  BY <1>1, SameLaid DEF NodeTypes, Node!Nodes, Node!Cells
<1>3. next[0] = s[1] /\ s[0] = 0 /\ s[1] \in used \union {0}
  <2>1. next[0] = s[1] /\ s[0] = 0
    BY DEF Laid
  <2> QED
    BY <2>1, LaidOnce
<1>4. CASE Node!StartInput
  BY <1>1, <1>2, <1>3, <1>4, NodeNumbers DEF Node!StartInput, Node!Start, Walking, Node!Cells
<1>5. CASE Node!StartDel
  BY <1>1, <1>2, <1>3, <1>5, NodeNumbers DEF Node!StartDel, Node!Start, Walking
<1>6. CASE Node!StartShow
  BY <1>1, <1>2, <1>3, <1>6, NodeNumbers DEF Node!StartShow, Node!Start, Walking
<1> QED
  BY <1>2, <1>4, <1>5, <1>6

(* A walk that does nothing at its end, or goes wrong at the head, leaves  *)
(* the ring as it is.                                                      *)
LEMMA IdleEnd ==
  ASSUME NodeTypes, NEW n \in Nat, NEW s, Laid(s, n),
         Node!Refused \/ Node!EndShow \/ Node!DelHead
  PROVE  NodeTypes' /\ Laid(s, n)' /\ Walking(s, n)'
<1>1. /\ UNCHANGED <<next, pre, val, used, index>> /\ broken' \in BOOLEAN
      /\ doing' = "wait" /\ pos' = 0 /\ hops' = 0
  BY NodeNumbers
  DEF Node!Refused, Node!EndShow, Node!DelHead, Node!Deletes, Node!End, Node!ring, NodeTypes
<1> QED
  BY <1>1, SameLaid DEF NodeTypes, Walking, Node!Nodes, Node!Cells

LEMMA InsertKeeps ==
  ASSUME NodeTypes, NEW n \in Nat, NEW s, Laid(s, n), Walking(s, n),
         Node!input_data_node2
  PROVE  /\ NodeTypes'
         /\ \E t : \E c \in Node!Cells, v \in Values :
              /\ t = [k \in 0..(n + 2) |-> IF k <= hops THEN s[k]
                                           ELSE IF k = hops + 1 THEN c ELSE s[k - 1]]
              /\ c \notin used /\ val' = [val EXCEPT ![c] = v]
              /\ Laid(t, n + 1)' /\ Walking(t, n + 1)'
<1>1. /\ doing = "input" /\ doing' = "wait" /\ pos' = 0 /\ hops' = 0
      /\ UNCHANGED <<index, broken>>
  BY NodeNumbers DEF Node!input_data_node2, Node!End
<1>2. hops \in 0..n /\ pos = s[hops] /\ used # Node!Cells
  BY <1>1 DEF Walking
<1> DEFINE c == Node!Min(Node!Cells \ used)
<1>3. Node!LinkBehind(c) /\ used' = used \union {c}
  BY DEF Node!input_data_node2
<1>4. PICK v \in Values : val' = [val EXCEPT ![c] = v]
  BY DEF Node!input_data_node2
<1>5. c \in Node!Cells \ used
  BY <1>2, Fresh
<1> HIDE DEF c
<1>6. PICK t : t = [k \in 0..(n + 2) |-> IF k <= hops THEN s[k]
                                         ELSE IF k = hops + 1 THEN c ELSE s[k - 1]]
  OBVIOUS
<1>7. Laid(t, n + 1)'
  BY <1>2, <1>3, <1>5, <1>6, LaidInsert
<1>8. Walking(t, n + 1)'
  BY <1>1 DEF Walking
<1>9. NodeTypes'
  <2>1. pos \in Node!Nodes /\ next[pos] \in Node!Nodes /\ c \in Node!Nodes
    <3>1. hops \in 0..(n + 1) /\ s \in [0..(n + 1) -> Node!Nodes]
      BY <1>2 DEF Laid
    <3> QED
      BY <1>2, <1>5, <3>1, NodeNumbers DEF NodeTypes
  <2>2. next' \in [Node!Nodes -> Node!Nodes] /\ pre' \in [Node!Nodes -> Node!Nodes]
    BY <1>3, <2>1 DEF Node!LinkBehind, NodeTypes
  <2>3. val' \in [Node!Cells -> Values] /\ used' \subseteq Node!Cells
    BY <1>3, <1>4, <1>5 DEF NodeTypes
  <2> QED
    BY <1>1, <2>2, <2>3 DEF NodeTypes, Node!Nodes, Node!Cells
<1> QED
  BY <1>4, <1>5, <1>6, <1>7, <1>8, <1>9

LEMMA DeleteKeeps ==
  ASSUME NodeTypes, NEW n \in Nat, NEW s, Laid(s, n), Walking(s, n), Node!del_data_node
  PROVE  /\ NodeTypes' /\ hops \in 1..n
         /\ \E t : \E c \in Node!Cells, v \in Values :
              /\ t = [k \in 0..n |-> IF k < hops THEN s[k] ELSE s[k + 1]]
              /\ c = s[hops] /\ val' = [val EXCEPT ![c] = v]
              /\ Laid(t, n - 1)' /\ Walking(t, n - 1)'
<1>1. /\ doing = "del" /\ doing' = "wait" /\ pos' = 0 /\ hops' = 0 /\ pos # 0
      /\ UNCHANGED <<index, broken>>
  BY NodeNumbers DEF Node!del_data_node, Node!Deletes, Node!End
<1>2. hops \in 1..(n + 1) /\ pos = s[hops] /\ s[n + 1] = 0
  BY <1>1 DEF Walking, Laid
<1>3. hops \in 1..n
  BY <1>1, <1>2
<1>4. Node!Unlink /\ used' = used \ {pos} /\ val' = [val EXCEPT ![pos] = Node!Blank]
  BY DEF Node!del_data_node
<1>5. PICK t : t = [k \in 0..n |-> IF k < hops THEN s[k] ELSE s[k + 1]]
  OBVIOUS
<1>6. Laid(t, n - 1)'
  BY <1>2, <1>3, <1>4, <1>5, LaidDelete
<1>7. Walking(t, n - 1)'
  BY <1>1 DEF Walking
<1>8. pos \in Node!Cells
  BY <1>2, <1>3 DEF Laid, NodeTypes
<1>9. Node!Blank \in Values
  BY ExamplesAssumption DEF Node!Blank
<1>10. NodeTypes'
  <2>0. pos \in Node!Nodes /\ Node!head \in Node!Nodes
    BY <1>8, NodeNumbers
  <2>1. next[pos] \in Node!Nodes /\ pre[pos] \in Node!Nodes
    BY <2>0 DEF NodeTypes
  <2>2. next' \in [Node!Nodes -> Node!Nodes] /\ pre' \in [Node!Nodes -> Node!Nodes]
    BY <1>4, <2>0, <2>1 DEF Node!Unlink, NodeTypes
  <2>3. val' \in [Node!Cells -> Values] /\ used' \subseteq Node!Cells
    BY <1>4, <1>8, <1>9 DEF NodeTypes
  <2> QED
    BY <1>1, <2>2, <2>3 DEF NodeTypes, Node!Nodes, Node!Cells
<1> QED
  BY <1>2, <1>3, <1>4, <1>5, <1>6, <1>7, <1>8, <1>9, <1>10

LEMMA NodeStep == NodeInv /\ [Node!Next]_(Node!vars) => NodeInv'
<1> SUFFICES ASSUME NodeInv, [Node!Next]_(Node!vars) PROVE NodeInv'
  OBVIOUS
<1>0. PICK n \in Nat : \E s : Laid(s, n) /\ Walking(s, n)
  BY DEF NodeInv
<1>1. PICK s : Laid(s, n) /\ Walking(s, n)
  BY <1>0
<1>2. NodeTypes
  BY DEF NodeInv
<1>3. CASE Node!create_data_list
  <2>1. \E m \in Nat : \E r : Walking(r, m)
    BY <1>1
  <2>2. NodeTypes' /\ \E m \in 0..MaxLength : \E r : Laid(r, m)' /\ Walking(r, m)'
    BY <1>2, <1>3, <2>1, CreateLays
  <2> QED
    BY <2>2 DEF NodeInv
<1>4. CASE Node!StartInput \/ Node!StartDel \/ Node!StartShow
  <2>1. NodeTypes' /\ Laid(s, n)' /\ Walking(s, n)'
    BY <1>1, <1>2, <1>4, StartKeeps
  <2> QED
    BY <2>1 DEF NodeInv
<1>5. CASE Node!Hop
  <2>1. NodeTypes' /\ Laid(s, n)' /\ Walking(s, n)'
    BY <1>1, <1>2, <1>5, HopKeeps
  <2> QED
    BY <2>1 DEF NodeInv
<1>6. CASE Node!Refused \/ Node!EndShow \/ Node!DelHead
  <2>1. NodeTypes' /\ Laid(s, n)' /\ Walking(s, n)'
    BY <1>1, <1>2, <1>6, IdleEnd
  <2> QED
    BY <2>1 DEF NodeInv
<1>7. CASE Node!input_data_node2
  <2>1. NodeTypes' /\ \E t : Laid(t, n + 1)' /\ Walking(t, n + 1)'
    BY <1>1, <1>2, <1>7, InsertKeeps
  <2>2. n + 1 \in Nat
    OBVIOUS
  <2> QED
    BY <2>1, <2>2 DEF NodeInv
<1>8. CASE Node!del_data_node
  <2>1. NodeTypes' /\ hops \in 1..n /\ \E t : Laid(t, n - 1)' /\ Walking(t, n - 1)'
    BY <1>1, <1>2, <1>8, DeleteKeeps
  <2>2. n - 1 \in Nat
    BY <2>1
  <2> QED
    BY <2>1, <2>2 DEF NodeInv
<1>9. CASE UNCHANGED Node!vars
  <2>1. NodeTypes' /\ Laid(s, n)' /\ Walking(s, n)'
    BY <1>1, <1>2, <1>9
    DEF Node!vars, Node!ring, Node!walk, NodeTypes, Laid, Walking, Node!Nodes, Node!Cells
  <2> QED
    BY <2>1 DEF NodeInv
<1> QED
  BY <1>3, <1>4, <1>5, <1>6, <1>7, <1>8, <1>9 DEF Node!Next, Node!Walk

(* The recursion that follows a pointer from the head has a solution. *)
Follows(h, p, m) ==
  h = [k \in 0..m |-> IF k = 0 THEN p[Node!head] ELSE p[h[k - 1]]]

LEMMA FollowsExists ==
  ASSUME NEW p, NEW m \in Nat
  PROVE  \E h : Follows(h, p, m)
<1> DEFINE None == {k \in Nat : ~ \E h : Follows(h, p, k)}
<1>1. SUFFICES ASSUME None # {} PROVE FALSE
  OBVIOUS
<1>2. PICK k \in None : \A l \in None : k <= l
  BY <1>1, Least
<1>3. CASE k = 0
  <2>1. Follows([l \in 0..0 |-> p[Node!head]], p, 0)
    BY DEF Follows
  <2> QED
    BY <1>2, <1>3, <2>1
<1>4. CASE k > 0
  <2>1. k - 1 \in Nat /\ ~(k <= k - 1)
    BY <1>4
  <2>2. k - 1 \notin None
    BY <1>2, <2>1
  <2>3. PICK g : Follows(g, p, k - 1)
    BY <2>1, <2>2
  <2> DEFINE h == [l \in 0..k |-> IF l = k THEN p[g[k - 1]] ELSE g[l]]
  <2>4. \A l \in 0..(k - 1) : g[l] = IF l = 0 THEN p[Node!head] ELSE p[g[l - 1]]
    BY <2>3 DEF Follows
  <2>5. ASSUME NEW l \in 0..k
        PROVE  h[l] = IF l = 0 THEN p[Node!head] ELSE p[h[l - 1]]
    <3>1. CASE l = k
      BY <1>4, <3>1
    <3>2. CASE l # k
      <4>1. l \in 0..(k - 1) /\ (l # 0 => l - 1 \in 0..k /\ l - 1 # k)
        BY <3>2
      <4> QED
        BY <2>4, <4>1
    <3> QED
      BY <3>1, <3>2
  <2>6. Follows(h, p, k)
    BY <2>5 DEF Follows
  <2> QED
    BY <1>2, <2>6
<1> QED
  BY <1>2, <1>3, <1>4

(* What next leads to from the head are the nodes of the ring in turn. *)
LEMMA AlongLaid ==
  ASSUME NodeTypes, NEW n \in Nat, NEW s, Laid(s, n)
  PROVE  Node!Along(next) = [k \in 1..n |-> s[k]]
<1> DEFINE h == CHOOSE g : g = [k \in 0..MaxLength |->
                                  IF k = 0 THEN next[Node!head] ELSE next[g[k - 1]]]
<1>0. \E g : Follows(g, next, MaxLength)
  BY FollowsExists, NodeNumbers
<1>1. Follows(h, next, MaxLength)
  BY <1>0 DEF Follows
<1>2. Node!Along(next) = [k \in 1..Node!Cardinality(used) |-> h[k - 1]]
  BY DEF Node!Along
<1> HIDE DEF h
<1>3. n <= MaxLength /\ Node!Cardinality(used) = n
  BY LaidCount
<1>4. \A k \in 0..MaxLength : h[k] = IF k = 0 THEN next[0] ELSE next[h[k - 1]]
  BY <1>1, NodeNumbers DEF Follows
<1> DEFINE Off == {k \in 0..(n - 1) : h[k] # s[k + 1]}
<1>5. Off = {}
  <2> SUFFICES ASSUME Off # {} PROVE FALSE
    OBVIOUS
  <2>0. Off \in SUBSET Nat
    OBVIOUS
  <2>1. PICK k \in Off : \A l \in Off : k <= l
    BY <2>0, Least
  <2>2. k \in 0..(n - 1) /\ h[k] # s[k + 1]
    BY <2>1
  <2>5. k \in 0..MaxLength
    BY <1>3, <2>2, NodeNumbers
  <2>3. CASE k = 0
    <3>1. next[s[0]] = s[0 + 1] /\ s[0] = 0
      BY DEF Laid
    <3> QED
      BY <1>4, <2>2, <2>3, <2>5, <3>1
  <2>4. CASE k > 0
    <3>1. k - 1 \in 0..(n - 1) /\ ~(k <= k - 1) /\ k \in 0..n
      BY <2>2, <2>4
    <3>2. h[k - 1] = s[(k - 1) + 1]
      BY <2>1, <3>1
    <3>3. (k - 1) + 1 = k
      BY <2>2
    <3>4. next[s[k]] = s[k + 1]
      BY <3>1 DEF Laid
    <3> QED
      BY <1>4, <2>2, <2>4, <2>5, <3>2, <3>3, <3>4
  <2> QED
    BY <2>2, <2>3, <2>4
<1>6. \A k \in 1..n : h[k - 1] = s[k]
  <2> SUFFICES ASSUME NEW k \in 1..n PROVE h[k - 1] = s[k]
    OBVIOUS
  <2>1. k - 1 \in 0..(n - 1) /\ (k - 1) + 1 = k
    OBVIOUS
  <2> QED
    BY <1>5, <2>1
<1> QED
  BY <1>2, <1>3, <1>6

LEMMA RingAtRest == NodeInv => Node!TypeOK /\ Node!RingWhole
<1> SUFFICES ASSUME NodeInv PROVE Node!TypeOK /\ Node!RingWhole
  OBVIOUS
<1>0. PICK n \in Nat : \E s : Laid(s, n) /\ Walking(s, n)
  BY DEF NodeInv
<1>1. PICK s : Laid(s, n) /\ Walking(s, n)
  BY <1>0
<1>2. NodeTypes
  BY DEF NodeInv
<1>3. n <= MaxLength
  BY <1>1, <1>2, LaidCount
<1>4. s \in [0..(n + 1) -> Node!Nodes]
  BY <1>1 DEF Laid
<1>5. hops \in 0..(MaxLength + 1) /\ pos \in Node!Nodes
  <2>1. hops \in 0..(n + 1) /\ (pos = s[hops] \/ pos \in used \union {0})
    BY <1>1, <1>2 DEF Walking, NodeTypes
  <2>2. used \union {0} \subseteq Node!Nodes
    <3>1. used \subseteq 1..MaxLength
      BY <1>2, NodeNumbers DEF NodeTypes
    <3> QED
      BY <3>1, NodeNumbers
  <2> QED
    BY <1>3, <1>4, <2>1, <2>2, NodeNumbers
<1>6. Node!TypeOK
  BY <1>2, <1>5, NodeNumbers DEF NodeTypes, Node!TypeOK
<1>7. \A x \in used \union {0} : next[x] \in used \union {0} /\ pre[next[x]] = x
  BY <1>1, <1>2, LaidCloses
<1>8. Node!Along(next) = [k \in 1..n |-> s[k]]
  BY <1>1, <1>2, AlongLaid
<1>9. {Node!Along(next)[k] : k \in DOMAIN Node!Along(next)} = used
  BY <1>1, <1>8 DEF Laid
<1> QED
  BY <1>6, <1>7, <1>9, NodeNumbers DEF Node!RingWhole

(* The list of node.c is a ring in both directions of all the cells malloc *)
(* has given, whatever is typed and wherever a walk is.                    *)
THEOREM RingStaysWhole == Node!Spec => [](Node!TypeOK /\ Node!RingWhole)
BY NodeInit, NodeStep, RingAtRest, PTL DEF Node!Spec

(* The list as the promise sees it: the values of the ring's nodes.        *)
ContentsAreLaid == \A n \in Nat : \A s :
  NodeTypes /\ Laid(s, n) => Node!Contents = [k \in 1..n |-> val[s[k]]]

LEMMA ContentsLaid == ContentsAreLaid
<1> SUFFICES ASSUME NEW n \in Nat, NEW s, NodeTypes, Laid(s, n)
             PROVE  Node!Contents = [k \in 1..n |-> val[s[k]]]
  BY DEF ContentsAreLaid
<1>1. Node!Along(next) = [k \in 1..n |-> s[k]]
  BY AlongLaid
<1> QED
  BY <1>1 DEF Node!Contents

LEMMA ContentsLaidNext == ContentsAreLaid'
BY ContentsLaid, PTL

(* InsertAt and RemoveAt on q, of length n, element by element. *)
Wider(q, n, p, e) ==
  [k \in 1..(n + 1) |-> IF k < p THEN q[k] ELSE IF k = p THEN e ELSE q[k - 1]]

Shorter(q, n, p) == [k \in 1..(n - 1) |-> IF k < p THEN q[k] ELSE q[k + 1]]

LEMMA Inserted ==
  ASSUME NEW S, NEW n \in Nat, NEW q \in [1..n -> S], NEW p \in 1..(n + 1), NEW e \in S
  PROVE  Node!List!InsertAt(q, p, e) = Wider(q, n, p, e)
<1> DEFINE a == SubSeq(q, 1, p - 1)
           z == SubSeq(q, p, n)
<1>1. q \in Seq(S) /\ Len(q) = n
  OBVIOUS
<1>2. a \in Seq(S) /\ Len(a) = p - 1 /\ \A k \in 1..(p - 1) : a[k] = q[k]
  BY <1>1, SubSeqProperties
<1>3. z \in Seq(S) /\ Len(z) = n - p + 1 /\ \A k \in 1..(n - p + 1) : z[k] = q[p + k - 1]
  BY <1>1, SubSeqProperties
<1>4. Node!List!InsertAt(q, p, e) = a \o <<e>> \o z
  BY <1>1 DEF Node!List!InsertAt
<1> QED
  BY <1>1, <1>2, <1>3, <1>4 DEF Wider

LEMMA Removed ==
  ASSUME NEW S, NEW n \in Nat, NEW q \in [1..n -> S], NEW p \in 1..n
  PROVE  Node!List!RemoveAt(q, p) = Shorter(q, n, p)
<1> DEFINE a == SubSeq(q, 1, p - 1)
           z == SubSeq(q, p + 1, n)
<1>1. q \in Seq(S) /\ Len(q) = n
  OBVIOUS
<1>2. a \in Seq(S) /\ Len(a) = p - 1 /\ \A k \in 1..(p - 1) : a[k] = q[k]
  BY <1>1, SubSeqProperties
<1>3. z \in Seq(S) /\ Len(z) = n - p /\ \A k \in 1..(n - p) : z[k] = q[p + k]
  BY <1>1, SubSeqProperties
<1>4. Node!List!RemoveAt(q, p) = a \o z
  BY <1>1 DEF Node!List!RemoveAt
<1> HIDE DEF a, z
<1>5. /\ a \o z \in Seq(S) /\ Len(a \o z) = Len(a) + Len(z)
      /\ \A k \in 1..(Len(a) + Len(z)) :
           (a \o z)[k] = IF k <= Len(a) THEN a[k] ELSE z[k - Len(a)]
  BY <1>2, <1>3, ConcatProperties
<1>6. Len(a) + Len(z) = n - 1
  BY <1>2, <1>3
<1>7. Len(a \o z) = n - 1
  BY <1>5, <1>6
<1> DEFINE w == a \o z
<1>8. /\ w \in Seq(S) /\ Len(w) = n - 1
      /\ \A k \in 1..(n - 1) : w[k] = IF k <= p - 1 THEN a[k] ELSE z[k - (p - 1)]
  BY <1>2, <1>5, <1>6, <1>7
<1> HIDE DEF w
<1>9. ASSUME NEW k \in 1..(n - 1)
      PROVE  w[k] = IF k < p THEN q[k] ELSE q[k + 1]
  <2>1. ASSUME k < p PROVE w[k] = q[k]
    BY <1>2, <1>8, <2>1
  <2>2. ASSUME ~(k < p) PROVE w[k] = q[k + 1]
    <3>1. k - (p - 1) \in 1..(n - p) /\ p + (k - (p - 1)) = k + 1 /\ ~(k <= p - 1)
      BY <2>2
    <3> QED
      BY <1>3, <1>8, <3>1
  <2> QED
    BY <2>1, <2>2
<1>10. w = [k \in 1..(n - 1) |-> w[k]]
  BY <1>8
<1> QED
  BY <1>4, <1>9, <1>10 DEF w, Shorter

LEMMA SameContents ==
  ASSUME UNCHANGED <<next, pre, val, used>>
  PROVE  Node!Contents' = Node!Contents
BY DEF Node!Contents, Node!Along

LEMMA ListInit == Node!Init => Node!List!Init
<1> SUFFICES ASSUME Node!Init PROVE Node!List!Init
  OBVIOUS
<1>1. NodeTypes
  BY NodeInit DEF NodeInv
<1>2. Laid([k \in 0..1 |-> 0], 0)
  BY NodeNumbers DEF Node!Init, Laid
<1>3. Node!Contents = <<>>
  BY <1>1, <1>2, ContentsLaid DEF ContentsAreLaid
<1> QED
  BY <1>1, <1>3 DEF Node!List!Init, Node!Init, NodeTypes

LEMMA ListCreate == NodeInv /\ Node!create_data_list => Node!List!Create
<1> SUFFICES ASSUME NodeInv, Node!create_data_list PROVE Node!List!Create
  OBVIOUS
<1>1. \E n \in Nat : \E s : Walking(s, n)
  BY DEF NodeInv
<1>0. PICK n \in 0..MaxLength : \E s : NodeTypes' /\ Laid(s, n)' /\ (broken' <=> n = 0)
  BY <1>1, CreateLays DEF NodeInv
<1>2. PICK s : NodeTypes' /\ Laid(s, n)' /\ (broken' <=> n = 0)
  BY <1>0
<1>3. doing = "create" /\ doing' = "wait" /\ index' = index /\ broken = FALSE
  BY DEF Node!create_data_list, Node!walk, NodeInv, NodeTypes
<1>4. CASE n = 0
  <2>1. broken' = TRUE
    BY <1>2, <1>4 DEF NodeTypes
  <2> QED
    BY <1>3, <2>1 DEF Node!List!Create, Node!List!Break
<1>5. CASE n # 0
  <2>1. broken' = FALSE
    BY <1>2, <1>5 DEF NodeTypes
  <2> DEFINE q == [k \in 1..n |-> val'[s[k]]]
  <2>2. Node!Contents' = q
    BY <1>2, ContentsLaidNext DEF ContentsAreLaid
  <2>3. q \in [1..n -> Values]
    BY <1>2 DEF Laid, NodeTypes
  <2>5. q \in Node!List!SeqOf(Values, MaxLength) \ {<<>>}
    BY <1>5, <2>3, NodeNumbers DEF Node!List!SeqOf
  <2> QED
    BY <1>3, <2>1, <2>2, <2>5 DEF Node!List!Create
<1> QED
  BY <1>4, <1>5

LEMMA ListInput == NodeInv /\ Node!input_data_node2 => Node!List!Input
<1> SUFFICES ASSUME NodeInv, Node!input_data_node2 PROVE Node!List!Input
  OBVIOUS
<1>0. PICK n \in Nat : \E s : Laid(s, n) /\ Walking(s, n)
  BY DEF NodeInv
<1>1. PICK s : Laid(s, n) /\ Walking(s, n)
  BY <1>0
<1>2. NodeTypes
  BY DEF NodeInv
<1>3. PICK t : \E c \in Node!Cells, v \in Values :
        /\ t = [k \in 0..(n + 2) |-> IF k <= hops THEN s[k]
                                     ELSE IF k = hops + 1 THEN c ELSE s[k - 1]]
        /\ c \notin used /\ val' = [val EXCEPT ![c] = v]
        /\ NodeTypes' /\ Laid(t, n + 1)'
  BY <1>1, <1>2, InsertKeeps
<1>4. PICK c \in Node!Cells, v \in Values :
        /\ t = [k \in 0..(n + 2) |-> IF k <= hops THEN s[k]
                                     ELSE IF k = hops + 1 THEN c ELSE s[k - 1]]
        /\ c \notin used /\ val' = [val EXCEPT ![c] = v]
        /\ NodeTypes' /\ Laid(t, n + 1)'
  BY <1>3
<1>5. /\ doing = "input" /\ doing' = "wait" /\ hops = index
      /\ UNCHANGED <<index, broken>>
  BY DEF Node!input_data_node2, Node!End
<1>6. hops \in 0..n /\ used # Node!Cells /\ broken = FALSE
  BY <1>1, <1>2, <1>5 DEF Walking, NodeTypes
<1> DEFINE q == [k \in 1..n |-> val[s[k]]]
           r == [k \in 1..(n + 1) |-> val'[t[k]]]
<1>7. Node!Contents = q /\ Node!Contents' = r
  <2>1. Node!Contents = q
    BY <1>1, <1>2, ContentsLaid DEF ContentsAreLaid
  <2>2. n + 1 \in Nat /\ NodeTypes' /\ Laid(t, n + 1)'
    BY <1>4
  <2>3. Node!Contents' = r
    BY <2>2, ContentsLaidNext DEF ContentsAreLaid
  <2> QED
    BY <2>1, <2>3
<1>8. q \in [1..n -> Values]
  BY <1>1, <1>2 DEF Laid, NodeTypes
<1>9. r = Node!List!InsertAt(q, index + 1, v)
  <2>1. Node!List!InsertAt(q, index + 1, v) = Wider(q, n, index + 1, v)
    <3>1. index + 1 \in 1..(n + 1) /\ v \in Values
      BY <1>5, <1>6
    <3> HIDE DEF q
    <3> QED
      BY <1>8, <3>1, Inserted
  <2>2. ASSUME NEW k \in 1..n PROVE val'[s[k]] = val[s[k]]
    BY <1>1, <1>2, <1>4 DEF Laid, NodeTypes
  <2>3. ASSUME NEW k \in 1..(n + 1)
        PROVE  r[k] = IF k < index + 1 THEN q[k]
                      ELSE IF k = index + 1 THEN v ELSE q[k - 1]
    <3>1. CASE k <= hops
      <4>1. k \in 1..n /\ t[k] = s[k]
        BY <1>4, <1>6, <3>1
      <4> QED
        BY <1>5, <1>6, <2>2, <3>1, <4>1
    <3>2. CASE k = hops + 1
      <4>1. t[k] = c /\ val'[c] = v
        BY <1>2, <1>4, <1>6, <3>2 DEF NodeTypes
      <4> QED
        BY <1>5, <1>6, <3>2, <4>1
    <3>3. CASE k > hops + 1
      <4>1. k - 1 \in 1..n /\ t[k] = s[k - 1]
        BY <1>4, <1>6, <3>3
      <4> QED
        BY <1>5, <1>6, <2>2, <3>3, <4>1
    <3> QED
      BY <1>6, <3>1, <3>2, <3>3
  <2> QED
    BY <2>1, <2>3 DEF Wider
<1>10. Len(q) = n /\ n < MaxLength
  <2>1. n < MaxLength
    BY <1>1, <1>2, <1>6, LaidCount
  <2> QED
    BY <1>8, <2>1
<1> HIDE DEF q, r
<1> QED
  BY <1>5, <1>6, <1>7, <1>9, <1>10 DEF Node!List!Input

LEMMA ListDelete == NodeInv /\ Node!del_data_node => Node!List!Delete
<1> SUFFICES ASSUME NodeInv, Node!del_data_node PROVE Node!List!Delete
  OBVIOUS
<1>0. PICK n \in Nat : \E s : Laid(s, n) /\ Walking(s, n)
  BY DEF NodeInv
<1>1. PICK s : Laid(s, n) /\ Walking(s, n)
  BY <1>0
<1>2. NodeTypes
  BY DEF NodeInv
<1>3. PICK t : \E c \in Node!Cells, v \in Values :
        /\ t = [k \in 0..n |-> IF k < hops THEN s[k] ELSE s[k + 1]]
        /\ c = s[hops] /\ val' = [val EXCEPT ![c] = v]
        /\ NodeTypes' /\ Laid(t, n - 1)' /\ hops \in 1..n
  BY <1>1, <1>2, DeleteKeeps
<1>4. PICK c \in Node!Cells, v \in Values :
        /\ t = [k \in 0..n |-> IF k < hops THEN s[k] ELSE s[k + 1]]
        /\ c = s[hops] /\ val' = [val EXCEPT ![c] = v]
        /\ NodeTypes' /\ Laid(t, n - 1)' /\ hops \in 1..n
  BY <1>3
<1>5. /\ doing = "del" /\ doing' = "wait" /\ hops = index
      /\ UNCHANGED <<index, broken>>
  BY DEF Node!del_data_node, Node!Deletes, Node!End
<1>6. broken = FALSE /\ n - 1 \in Nat
  BY <1>2, <1>4, <1>5 DEF NodeTypes
<1> DEFINE q == [k \in 1..n |-> val[s[k]]]
           r == [k \in 1..(n - 1) |-> val'[t[k]]]
<1>7. Node!Contents = q /\ Node!Contents' = r
  <2>1. Node!Contents = q
    BY <1>1, <1>2, ContentsLaid DEF ContentsAreLaid
  <2>2. NodeTypes' /\ Laid(t, n - 1)'
    BY <1>4
  <2>3. Node!Contents' = r
    BY <1>6, <2>2, ContentsLaidNext DEF ContentsAreLaid
  <2> QED
    BY <2>1, <2>3
<1>8. q \in [1..n -> Values]
  BY <1>1, <1>2 DEF Laid, NodeTypes
<1>9. r = Node!List!RemoveAt(q, index)
  <2>1. Node!List!RemoveAt(q, index) = Shorter(q, n, index)
    BY <1>4, <1>5, <1>8, Removed
  <2>2. ASSUME NEW k \in 1..n, k # hops PROVE val'[s[k]] = val[s[k]]
    <3>1. s[k] # c /\ s[k] \in Node!Cells
      BY <1>1, <1>2, <1>4, <2>2 DEF Laid, NodeTypes
    <3> QED
      BY <1>2, <1>4, <3>1 DEF NodeTypes
  <2>3. ASSUME NEW k \in 1..(n - 1)
        PROVE  r[k] = IF k < index THEN q[k] ELSE q[k + 1]
    <3>1. CASE k < hops
      <4>1. k \in 1..n /\ k # hops /\ t[k] = s[k]
        BY <1>4, <3>1
      <4> QED
        BY <1>5, <2>2, <3>1, <4>1
    <3>2. CASE k >= hops
      <4>1. k + 1 \in 1..n /\ k + 1 # hops /\ t[k] = s[k + 1] /\ ~(k < hops)
        BY <1>4, <3>2
      <4> QED
        BY <1>5, <2>2, <3>2, <4>1
    <3> QED
      BY <1>4, <3>1, <3>2
  <2> QED
    BY <2>1, <2>3 DEF Shorter
<1>10. DOMAIN q = 1..n
  OBVIOUS
<1> HIDE DEF q, r
<1> QED
  BY <1>4, <1>5, <1>6, <1>7, <1>9, <1>10 DEF Node!List!Delete

LEMMA ListDeleteEnd == NodeInv /\ Node!DelHead => Node!List!DeleteEnd
<1> SUFFICES ASSUME NodeInv, Node!DelHead PROVE Node!List!DeleteEnd
  OBVIOUS
<1>0. PICK n \in Nat : \E s : Laid(s, n) /\ Walking(s, n)
  BY DEF NodeInv
<1>1. PICK s : Laid(s, n) /\ Walking(s, n)
  BY <1>0
<1>2. NodeTypes
  BY DEF NodeInv
<1>3. /\ doing = "del" /\ doing' = "wait" /\ hops = index /\ pos = 0
      /\ index' = index /\ broken' = TRUE
  BY NodeNumbers DEF Node!DelHead, Node!Deletes, Node!End
<1>4. broken = FALSE /\ hops \in 1..(n + 1) /\ s[hops] = 0
  BY <1>1, <1>2, <1>3 DEF Walking, NodeTypes
<1>5. hops = n + 1
  <2>1. \A k \in 1..n : s[k] # 0
    BY <1>1, <1>2, LaidOnce
  <2> QED
    BY <1>4, <2>1
<1>6. Node!Contents = [k \in 1..n |-> val[s[k]]]
  BY <1>1, <1>2, ContentsLaid DEF ContentsAreLaid
<1>7. Len(Node!Contents) = n
  BY <1>6
<1> QED
  BY <1>3, <1>4, <1>5, <1>7 DEF Node!List!DeleteEnd, Node!List!Break

LEMMA ListStep ==
  NodeInv /\ [Node!Next]_(Node!vars) => [Node!List!Next]_(Node!List!vars)
<1> SUFFICES ASSUME NodeInv, [Node!Next]_(Node!vars)
             PROVE  [Node!List!Next]_(Node!List!vars)
  OBVIOUS
<1>1. CASE Node!create_data_list
  BY <1>1, ListCreate DEF Node!List!Next
<1>2. CASE Node!input_data_node2
  BY <1>2, ListInput DEF Node!List!Next
<1>3. CASE Node!del_data_node
  BY <1>3, ListDelete DEF Node!List!Next
<1>4. CASE Node!DelHead
  BY <1>4, ListDeleteEnd DEF Node!List!Next
<1>5. CASE Node!StartInput \/ Node!StartDel
  <2>1. /\ UNCHANGED <<next, pre, val, used, broken>> /\ index' \in Indexes
        /\ doing # "create" /\ doing' # "create"
    BY <1>5 DEF Node!StartInput, Node!StartDel, Node!Start, Node!ring
  <2> QED
    BY <2>1, SameContents DEF Node!List!Next, Node!List!Type
<1>6. CASE Node!StartShow \/ Node!Hop \/ Node!Refused \/ Node!EndShow
  <2>1. /\ UNCHANGED <<next, pre, val, used, broken, index>>
        /\ doing # "create" /\ doing' # "create"
    BY <1>6 DEF Node!StartShow, Node!Start, Node!Hop, Node!Walks, Node!Refused,
                Node!EndShow, Node!End, Node!ring
  <2> QED
    BY <2>1, SameContents DEF Node!List!vars
<1>7. CASE UNCHANGED Node!vars
  <2>1. UNCHANGED <<next, pre, val, used, broken, index, doing>>
    BY <1>7 DEF Node!vars, Node!ring, Node!walk
  <2> QED
    BY <2>1, SameContents DEF Node!List!vars
<1> QED
  BY <1>1, <1>2, <1>3, <1>4, <1>5, <1>6, <1>7 DEF Node!Next, Node!Walk

(* The ring with its walks implements a sequence that is indexed as it     *)
(* says.                                                                   *)
THEOREM NodeIsList == Node!Spec => Node!KeepsList
BY NodeInit, NodeStep, ListInit, ListStep, PTL DEF Node!Spec, Node!KeepsList, Node!List!Spec
-----------------------------------------------------------------------------
(* All of them together. *)

(* A step of the chosen program is a step of it and a stutter of the rest. *)
LEMMA Separate ==
  ASSUME [MCNext]_mcVars
  PROVE  /\ [Next]_vars /\ [Timer!Next]_(Timer!vars) /\ [Misc!Next]_(Misc!vars)
         /\ [Sort!Next]_(Sort!vars) /\ [Search!Next]_(Search!vars)
         /\ [Node!Next]_(Node!vars)
<1>1. [Next]_vars
  BY DEF MCNext, mcVars
<1>2. [Timer!Next]_(Timer!vars)
  BY DEF MCNext, mcVars, timerVars, Timer!vars, Timer!load, Timer!timer, Timer!work
<1>3. [Misc!Next]_(Misc!vars)
  BY DEF MCNext, mcVars, miscVars, Misc!vars, Misc!lock
<1>4. [Sort!Next]_(Sort!vars)
  BY DEF MCNext, mcVars, sortVars, Sort!vars, Sort!ranges
<1>5. [Search!Next]_(Search!vars)
  BY DEF MCNext, mcVars, searchVars, Search!vars
<1>6. [Node!Next]_(Node!vars)
  BY DEF MCNext, mcVars, nodeVars, Node!vars, Node!ring, Node!walk
<1> QED
  BY <1>1, <1>2, <1>3, <1>4, <1>5, <1>6

(* Whichever program is chosen, each of them keeps to its specification.   *)
THEOREM Programs ==
  MCSpec => Spec /\ Timer!Spec /\ Misc!Spec /\ Sort!Spec /\ Search!Spec /\ Node!Spec
<1>1. MCInit =>
        Init /\ Timer!Init /\ Misc!Init /\ Sort!Init /\ Search!Init /\ Node!Init
  BY DEF MCInit
<1>2. [MCNext]_mcVars =>
         /\ [Next]_vars /\ [Timer!Next]_(Timer!vars) /\ [Misc!Next]_(Misc!vars)
         /\ [Sort!Next]_(Sort!vars) /\ [Search!Next]_(Search!vars)
         /\ [Node!Next]_(Node!vars)
  BY Separate
<1> QED
  BY <1>1, <1>2, PTL
  DEF MCSpec, Spec, Timer!Spec, Misc!Spec, Sort!Spec, Search!Spec, Node!Spec

(* No walk or count runs past what it is for, no write leaves its array or *)
(* buffer, and a read does only past the end after llseek (complete.c) or  *)
(* by one element (quicksort).                                             *)
THEOREM TypesStay == MCSpec => []TypesOK
BY Programs, CompleteTypes, LoadersHarmless, TimersHarmless, RingStaysWhole, Sorts,
   Finds, PTL DEF TypesOK

(* A module does harm only when a call or an expiry came in while it was   *)
(* being loaded.                                                           *)
THEOREM HasteOnly == MCSpec => []OnlyHasteHarms
BY Programs, TimersHarmless, LoadersHarmless, PTL DEF OnlyHasteHarms

(* A module that has gone has left nothing behind that comes back to it.   *)
THEOREM NothingStays == MCSpec => []GoneForGood
BY Programs, TimersHarmless, LoadersHarmless, PTL DEF GoneForGood

(* The list of node.c is a ring both ways of all the cells in use.         *)
THEOREM Whole == MCSpec => []RingWhole
BY Programs, RingStaysWhole, PTL DEF RingWhole

(* The list of node.c is a sequence to the person at the keyboard.         *)
THEOREM Promised == MCSpec => KeepsList
BY Programs, NodeIsList, PTL DEF KeepsList

(* Every sort that ends has sorted what it was given and lost nothing, and *)
(* every search that ends has found what is there and nothing else.        *)
THEOREM Right == MCSpec => []RightResult
BY Programs, Sorts, Finds, PTL DEF RightResult

(* What the completion driver promises holds when it is the one to run.    *)
THEOREM CompleteRuns == MCSpec => [](ReadsAreWritten /\ OnePerWrite)
BY Programs, Written, Counted, PTL
=============================================================================
