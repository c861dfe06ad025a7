----------------------------- MODULE PollProofs -----------------------------
(***************************************************************************)
(* The semaphore of the two poll drivers keeps their calls apart, for any  *)
(* number of callers, signals and failed copies.  First come the steps the *)
(* drivers share, then those of each driver.                               *)
(***************************************************************************)
EXTENDS MCPoll, TLAPS

Free == Places \ Locked

(* The inductive invariant.  While the semaphore is up nobody is inside.   *)
(* A call that a failed copy ends, or a signal in poll_select2.c, leaves   *)
(* it down with nobody inside, so that the converse is DownMeansInside.    *)
DownInside == sem = 1 => \A t \in Threads : pc[t] \in Free

EmptyBeforeCopy ==
  \A t \in Writers : pc[t] = "copyIn" /\ signals = 0 => count = 0

(* Only writers get to the places where the buffer is filled. *)
WriterPlaces == {"writeDown", "writeWait", "writeSlept", "copyIn"}

Roles == \A t \in Threads : pc[t] \in WriterPlaces => t \in Writers

SlotInv ==
  /\ Roles
  /\ TypeOK /\ DownInside /\ OneInside /\ DownMeansInside
  /\ ClearsWhatItCopied /\ EmptyBeforeCopy

(* A thread inside that goes on, or leaves, without touching the count or  *)
(* any size: the other threads stay outside.                               *)
LEMMA Moves ==
  ASSUME SlotInv, NEW t \in Threads, NEW to \in Places,
         pc' = [pc EXCEPT ![t] = to],
         UNCHANGED <<count, size>>, sem' \in {0, 1}, signals' \in 0..MaxSignals,
         signals' = 0 => signals = 0,
         faults' = 0 => faults = 0, misled' \in BOOLEAN,
         faults' \in 0..MaxFaults, buffer' \in Writers \union {None},
         sem' = 0 /\ to \in Free =>
           sem = 0 /\ (pc[t] \notin Locked \/ signals' # 0 \/ faults' # 0),
         sem' = 1 => to \in Free /\ (sem = 1 \/ pc[t] \in Locked),
         to \in Locked => (pc[t] \in Locked \/ sem = 1),
         to = "clear" /\ t \in Readers => size[t] = count,
         to = "copyIn" /\ signals' = 0 => count = 0,
         to \in WriterPlaces => t \in Writers
  PROVE  SlotInv'
<1> USE DEF SlotInv
<1>0. /\ pc'[t] = to /\ \A u \in Threads \ {t} : pc'[u] = pc[u]
      /\ Readers \subseteq Threads /\ Writers \subseteq Threads
  BY DEF TypeOK, Threads
<1>1. TypeOK' BY DEF TypeOK
<1>2. DownInside'
  <2> SUFFICES ASSUME sem' = 1, NEW u \in Threads PROVE pc'[u] \in Free
    BY DEF DownInside
  <2>1. CASE u = t BY <1>0, <2>1
  <2>2. CASE u # t
    <3>1. sem = 1 => pc[u] \in Free BY DEF DownInside
    <3>2. pc[t] \in Locked => pc[u] \in Free
      BY <2>2 DEF OneInside, TypeOK, Free
    <3> QED BY <1>0, <2>2, <3>1, <3>2
  <2> QED BY <2>1, <2>2
<1>3. OneInside'
  <2> SUFFICES ASSUME NEW u \in Threads \ {t}, to \in Locked PROVE pc[u] \notin Locked
    BY <1>0 DEF OneInside
  <2>1. CASE sem = 1 BY <2>1 DEF DownInside, Free
  <2>2. CASE pc[t] \in Locked BY <2>2 DEF OneInside
  <2> QED BY <2>1, <2>2
<1>4. ClearsWhatItCopied' BY <1>0 DEF ClearsWhatItCopied
<1>5. EmptyBeforeCopy' BY <1>0 DEF EmptyBeforeCopy
<1>6. Roles' BY <1>0 DEF Roles
<1>7. DownMeansInside'
  <2> SUFFICES ASSUME sem' = 0, signals' = 0, faults' = 0
               PROVE  \E u \in Threads : pc'[u] \in Locked
    BY DEF DownMeansInside
  <2>1. CASE to \in Locked BY <1>0, <2>1
  <2>2. CASE to \notin Locked
    <3>1. sem = 0 /\ pc[t] \notin Locked BY <2>2 DEF Free
    <3>2. PICK u \in Threads : pc[u] \in Locked BY <3>1 DEF DownMeansInside
    <3> QED BY <1>0, <3>1, <3>2
  <2> QED BY <2>1, <2>2
<1> QED BY <1>1, <1>2, <1>3, <1>4, <1>5, <1>6, <1>7
-----------------------------------------------------------------------------
(* A move that leaves the semaphore and the history alone, and does not    *)
(* leave the places inside.                                                *)
LEMMA MovesOn ==
  ASSUME SlotInv, NEW t \in Threads, NEW to \in Places \ {"clear"},
         pc' = [pc EXCEPT ![t] = to],
         UNCHANGED <<sem, count, buffer, size, signals, faults, misled>>,
         to \in Locked <=> pc[t] \in Locked,
         to = "copyIn" /\ signals = 0 => count = 0,
         to \in WriterPlaces => t \in Writers
  PROVE  SlotInv'
<1>1. /\ sem' \in {0, 1} /\ misled' \in BOOLEAN /\ signals' \in 0..MaxSignals
      /\ faults' \in 0..MaxFaults /\ buffer' \in Writers \union {None}
  BY DEF SlotInv, TypeOK
<1>2. pc[t] \in Locked => sem = 0
  BY DEF SlotInv, TypeOK, DownInside, Free
<1>3. /\ to \in Places /\ to # "clear"
      /\ to \in Free <=> to \notin Locked
      /\ signals' = signals /\ faults' = faults /\ count' = count /\ size' = size
  BY DEF Free
<1>4. /\ sem' = 0 /\ to \in Free => sem = 0 /\ pc[t] \notin Locked
      /\ sem' = 1 => to \in Free /\ sem = 1
      /\ to \in Locked => pc[t] \in Locked
  BY <1>2, <1>3
<1> QED BY <1>1, <1>3, <1>4, Moves

LEMMA DownKeeps ==
  ASSUME SlotInv, NEW t \in Threads, NEW from, NEW to \in Locked \ {"clear", "copyIn"},
         to \in WriterPlaces => t \in Writers, Down(t, from, to)
  PROVE  SlotInv'
<1>1. pc' = [pc EXCEPT ![t] = to] /\ sem = 1 /\ sem' = 0
      /\ UNCHANGED <<count, buffer, size, signals, faults, misled>>
  BY DEF Down, Go, past
<1>2. to \in Places /\ to # "clear" /\ to # "copyIn" /\ to \notin Free BY DEF Places, Free
<1>3. /\ sem' \in {0, 1} /\ misled' \in BOOLEAN /\ (faults' = 0 => faults = 0)
      /\ signals' \in 0..MaxSignals /\ faults' \in 0..MaxFaults
      /\ buffer' \in Writers \union {None} /\ sem' # 1 /\ (signals' = 0 => signals = 0)
  BY <1>1 DEF SlotInv, TypeOK
<1> QED BY <1>1, <1>2, <1>3, Moves

LEMMA UpKeeps ==
  ASSUME SlotInv, NEW t \in Threads, NEW from \in Locked, NEW to \in Free \ WriterPlaces,
         Up(t, from, to)
  PROVE  SlotInv'
<1>0. sem = 0 /\ pc[t] = from
  BY DEF Up, Go, SlotInv, TypeOK, DownInside, Free
<1>1. pc' = [pc EXCEPT ![t] = to] /\ sem' = 1
      /\ UNCHANGED <<count, buffer, size, signals, faults, misled>>
  BY <1>0 DEF Up, Go, past
<1>2. /\ to \in Places /\ to \notin Locked /\ to # "clear" /\ to # "copyIn"
      /\ to \notin WriterPlaces
  BY DEF Free, Locked, WriterPlaces
<1>3. /\ sem' \in {0, 1} /\ misled' \in BOOLEAN /\ (faults' = 0 => faults = 0)
      /\ signals' \in 0..MaxSignals /\ (signals' = 0 => signals = 0)
      /\ faults' \in 0..MaxFaults /\ buffer' \in Writers \union {None}
  BY <1>1 DEF SlotInv, TypeOK
<1>4. pc[t] \in Locked /\ sem' # 0 /\ to \in Free BY <1>0, <1>1
<1> QED BY <1>1, <1>2, <1>3, <1>4, Moves

LEMMA WaitKeeps ==
  ASSUME SlotInv, NEW t \in Threads, NEW from \in Locked,
         NEW to \in Locked \ {"clear"}, NEW slept \in Locked \ {"clear", "copyIn"},
         NEW cond, to = "copyIn" => (cond => count = 0),
         {to, slept} \subseteq WriterPlaces \/ {to, slept} \intersect WriterPlaces = {},
         from \in WriterPlaces <=> to \in WriterPlaces,
         Wait(t, from, cond, to, slept)
  PROVE  SlotInv'
<1> DEFINE next == IF cond THEN to ELSE slept
<1>1. next \in Locked \ {"clear"} /\ (next = "copyIn" => count = 0)
  OBVIOUS
<1>2. pc[t] = from /\ pc' = [pc EXCEPT ![t] = next]
      /\ UNCHANGED <<sem, count, buffer, size, signals, faults, misled>>
  BY DEF Wait, Go, past
<1> HIDE DEF next
<1>3. next \in Places BY <1>1 DEF Places
<1>5. next \in WriterPlaces => t \in Writers
  BY <1>2 DEF SlotInv, Roles, next
<1> QED BY <1>1, <1>2, <1>3, <1>5, MovesOn

(* A wake moves sleepers inside to places inside, and sleepers outside to  *)
(* places outside.                                                         *)
LEMMA WakeKeeps ==
  ASSUME SlotInv, NEW t \in Threads, NEW from, NEW to \in Places,
         NEW slept, NEW again \in Places \ {"clear", "copyIn"},
         Wake(t, from, to, slept, again),
         from \in Locked <=> to \in Locked, to \notin {"clear", "copyIn"},
         slept \in Locked <=> again \in Locked,
         to \notin WriterPlaces, again \in WriterPlaces => slept \in WriterPlaces
  PROVE  SlotInv'
<1> USE DEF SlotInv
<1>1. /\ \A u \in Threads : pc'[u] \in Places /\ (pc'[u] \in Locked <=> pc[u] \in Locked)
      /\ \A u \in Threads : pc'[u] \in {"clear", "copyIn"} => pc'[u] = pc[u]
      /\ pc' = [u \in Threads |-> pc'[u]]
  BY DEF Wake, TypeOK, Places, Locked, Asleep
<1>2. UNCHANGED <<sem, count, buffer, size, signals, faults, misled>>
  BY DEF Wake, past
<1>3. TypeOK' BY <1>1, <1>2 DEF TypeOK
<1>4. DownInside' BY <1>1, <1>2 DEF DownInside, Free
<1>5. OneInside' BY <1>1 DEF OneInside
<1>6. ClearsWhatItCopied' BY <1>1, <1>2 DEF ClearsWhatItCopied, Threads
<1>7. EmptyBeforeCopy' BY <1>1, <1>2 DEF EmptyBeforeCopy, Threads
<1>8. Roles' BY DEF Wake, Roles, WriterPlaces
<1>9. DownMeansInside' BY <1>1, <1>2 DEF DownMeansInside
<1> QED BY <1>3, <1>4, <1>5, <1>6, <1>7, <1>8, <1>9

LEMMA SelectKeeps ==
  ASSUME SlotInv, NEW t \in Threads, Select(t)
  PROVE  SlotInv'
<1> QED
  BY MovesOn DEF Select, Go, past, Places, Locked, WriterPlaces

LEMMA StartReadKeeps ==
  ASSUME SlotInv, NEW t \in Threads, NEW first \in Free \ WriterPlaces, StartRead(t, first)
  PROVE  SlotInv'
<1>1. pc' = [pc EXCEPT ![t] = first]
      /\ UNCHANGED <<sem, count, buffer, size, signals, faults, misled>>
  BY DEF StartRead, Go, past
<1>2. /\ first \in Places \ {"clear"} /\ first \notin Locked /\ first # "copyIn"
      /\ first \notin WriterPlaces
  BY DEF Free, Locked, WriterPlaces
<1>3. pc[t] \notin Locked BY DEF StartRead, Go, Locked
<1> QED BY <1>1, <1>2, <1>3, MovesOn

LEMMA StartWriteKeeps ==
  ASSUME SlotInv, NEW t \in Threads, StartWrite(t)
  PROVE  SlotInv'
<1> USE DEF SlotInv
<1>1. /\ t \in Writers /\ pc' = [pc EXCEPT ![t] = "writeDown"]
      /\ UNCHANGED <<sem, count, buffer, signals, faults, misled>>
  BY DEF StartWrite, Go, past
<1>2. PICK n \in Counts : size' = [size EXCEPT ![t] = n] BY DEF StartWrite
<1>3. TypeOK'
  <2>1. size' \in [Threads -> Sizes] BY <1>2 DEF TypeOK, Sizes
  <2>2. misled' \in BOOLEAN BY <1>1 DEF TypeOK
  <2> QED BY <1>1, <2>1, <2>2 DEF TypeOK, Places, Locked
<1>4. DownInside' BY <1>1 DEF DownInside, TypeOK, Free, Places, Locked
<1>5. OneInside' BY <1>1 DEF OneInside, TypeOK, Locked
<1>6. ClearsWhatItCopied'
  BY <1>1, <1>2, SlotAssumption DEF ClearsWhatItCopied, TypeOK, Threads
<1>7. EmptyBeforeCopy' BY <1>1 DEF EmptyBeforeCopy, TypeOK, Threads
<1>8. Roles' BY <1>1 DEF Roles, TypeOK
<1>9. DownMeansInside'
  <2>1. pc[t] \notin Locked BY DEF StartWrite, Go, Locked
  <2>2. \A u \in Threads : pc[u] \in Locked => pc'[u] = pc[u] BY <1>1, <2>1 DEF TypeOK
  <2> QED BY <1>1, <2>2 DEF DownMeansInside
<1> QED BY <1>3, <1>4, <1>5, <1>6, <1>7, <1>8, <1>9

LEMMA PollUpKeeps ==
  ASSUME SlotInv, NEW t \in Threads, PollUp(t)
  PROVE  SlotInv'
<1>1. PICK to \in {"ready", "selectSlept", "idle"}, from \in {"poll", "signalPoll"} :
        Up(t, from, to)
  BY DEF PollUp
<1>2. to \in Free \ WriterPlaces /\ from \in Locked
  BY DEF Free, Places, Locked, Asleep, WriterPlaces
<1> QED BY <1>1, <1>2, UpKeeps

(* A thread inside that changes the count or its size: nobody else is at a *)
(* place where those matter.                                               *)
LEMMA Changes ==
  ASSUME SlotInv, NEW t \in Threads, pc[t] \in Locked,
         NEW to \in Locked \ WriterPlaces, pc' = [pc EXCEPT ![t] = to],
         count' \in Sizes, NEW n \in Sizes, size' = [size EXCEPT ![t] = n],
         to = "clear" => n = count',
         UNCHANGED <<sem, signals, faults, misled>>, buffer' \in Writers \union {None}
  PROVE  SlotInv'
<1> USE DEF SlotInv
<1>1. /\ pc'[t] = to /\ \A u \in Threads \ {t} : pc'[u] = pc[u] /\ pc[u] \notin Locked
      /\ size'[t] = n
  BY DEF TypeOK, OneInside
<1>2. TypeOK' BY DEF TypeOK, Places
<1>3. DownInside' BY DEF DownInside, Free
<1>4. OneInside' BY <1>1 DEF OneInside
<1>5. ClearsWhatItCopied' BY <1>1 DEF ClearsWhatItCopied, Threads, Locked
<1>6. EmptyBeforeCopy' BY <1>1 DEF EmptyBeforeCopy, Threads, Locked, WriterPlaces
<1>7. Roles' BY <1>1 DEF Roles
<1>8. DownMeansInside' BY <1>1 DEF DownMeansInside
<1> QED BY <1>2, <1>3, <1>4, <1>5, <1>6, <1>7, <1>8

LEMMA CopyOutKeeps ==
  ASSUME SlotInv, NEW t \in Threads, CopyOut(t)
  PROVE  SlotInv'
<1>1. /\ pc[t] = "copyOut" /\ pc' = [pc EXCEPT ![t] = "clear"]
      /\ size' = [size EXCEPT ![t] = count]
      /\ UNCHANGED <<sem, count, buffer, signals, faults, misled>>
  BY DEF CopyOut, Go, past
<1>2. "copyOut" \in Locked /\ "clear" \in Locked \ WriterPlaces BY DEF Locked, WriterPlaces
<1>3. count \in Sizes /\ buffer \in Writers \union {None} BY DEF SlotInv, TypeOK
<1> QED BY <1>1, <1>2, <1>3, Changes

LEMMA ClearKeeps ==
  ASSUME SlotInv, NEW t \in Threads, NEW to \in Locked \ (WriterPlaces \union {"clear"}),
         Clear(t, to)
  PROVE  SlotInv'
<1>1. /\ pc[t] = "clear" /\ pc' = [pc EXCEPT ![t] = to] /\ count' = 0
      /\ UNCHANGED <<sem, buffer, size, signals, faults, misled>>
  BY DEF Clear, Go, past
<1>2. pc[t] \in Locked /\ count' \in Sizes BY <1>1 DEF Locked, Sizes
<1>3. size = [size EXCEPT ![t] = size[t]] /\ size[t] \in Sizes
      /\ buffer \in Writers \union {None}
  BY DEF SlotInv, TypeOK
<1>4. to \in Locked \ WriterPlaces /\ to # "clear" OBVIOUS
<1> QED BY <1>1, <1>2, <1>3, <1>4, Changes

LEMMA FillKeeps ==
  ASSUME SlotInv, NEW t \in Threads, NEW to \in Locked \ (WriterPlaces \union {"clear"}),
         Fill(t, to)
  PROVE  SlotInv'
<1>1. /\ pc[t] = "fill" /\ pc' = [pc EXCEPT ![t] = to] /\ count' = size[t]
      /\ UNCHANGED <<sem, buffer, size, signals, faults, misled>>
  BY DEF Fill, Go, past
<1>2. "fill" \in Locked BY DEF Locked
<1>3. size = [size EXCEPT ![t] = size[t]] /\ size[t] \in Sizes
      /\ buffer \in Writers \union {None}
  BY DEF SlotInv, TypeOK
<1> QED BY <1>1, <1>2, <1>3, Changes

LEMMA CopyInKeeps ==
  ASSUME SlotInv, NEW t \in Threads, CopyIn(t)
  PROVE  SlotInv'
<1>1. /\ pc[t] = "copyIn" /\ pc' = [pc EXCEPT ![t] = "fill"] /\ buffer' = t
      /\ UNCHANGED <<sem, count, size, signals, faults, misled>>
  BY DEF CopyIn, Go, past
<1>2. "copyIn" \in Locked /\ "fill" \in Locked \ WriterPlaces /\ "copyIn" \in WriterPlaces
  BY DEF Locked, WriterPlaces
<1>3. size = [size EXCEPT ![t] = size[t]] /\ size[t] \in Sizes /\ count \in Sizes
      /\ t \in Writers
  BY <1>1, <1>2 DEF SlotInv, TypeOK, Roles
<1> QED BY <1>1, <1>2, <1>3, Changes

(* A demo_poll that a signal interrupts, with or without a new signal. *)
LEMMA InterruptedKeeps ==
  ASSUME SlotInv, NEW t \in Threads, NEW from \in {"pollDown", "signalDown"},
         Interrupted(t, from), faults' = faults,
         signals' \in 0..MaxSignals, signals' = 0 => signals = 0
  PROVE  SlotInv'
<1>1. PICK to \in {"ready", "idle"} :
        /\ pc[t] = from /\ pc' = [pc EXCEPT ![t] = to]
        /\ sem = 0 /\ UNCHANGED <<sem, count, buffer, size>>
  BY DEF Interrupted, Go
<1>2. to \in Places /\ to \in Free /\ to \notin Locked \union WriterPlaces \union {"clear", "copyIn"}
  BY DEF Places, Free, Locked, WriterPlaces
<1>3. from \notin Locked BY DEF Locked
<1>4. misled' \in BOOLEAN BY DEF Interrupted
<1>5. sem \in {0, 1} /\ faults \in 0..MaxFaults /\ buffer \in Writers \union {None}
  BY DEF SlotInv, TypeOK
<1> QED BY <1>1, <1>2, <1>3, <1>4, <1>5, Moves

LEMMA SignalPollKeeps ==
  ASSUME SlotInv, NEW t \in Threads, SignalPoll(t)
  PROVE  SlotInv'
<1>1. Interrupted(t, "signalDown") /\ UNCHANGED <<signals, faults>>
  BY DEF SignalPoll
<1>2. signals \in 0..MaxSignals BY DEF SlotInv, TypeOK
<1> QED BY <1>1, <1>2, InterruptedKeeps

LEMMA SignalKeeps ==
  ASSUME SlotInv, NEW t \in Threads, NEW readSlept \in {"readSlept", "copyOut", "idle"},
         Signal(t, readSlept)
  PROVE  SlotInv'
<1>1. /\ signals' = signals + 1 /\ faults' = faults
      /\ signals' \in 0..MaxSignals /\ signals' # 0
  BY SlotAssumption DEF Signal, SlotInv, TypeOK
<1>2. CASE Interrupted(t, "pollDown")
  BY <1>1, <1>2, InterruptedKeeps
<1>3. CASE \E from \in Places, to \in {"idle", "readSlept", "copyOut", "copyIn", "signalDown"} :
             /\ Go(t, from, to)
             /\ to \in Locked => from \in {"readSlept", "writeSlept"}
             /\ to = "copyIn" => from = "writeSlept"
             /\ UNCHANGED <<sem, count, buffer, size, misled>>
  <2>1. PICK from \in Places, to \in {"idle", "readSlept", "copyOut", "copyIn", "signalDown"} :
             /\ pc[t] = from /\ pc' = [pc EXCEPT ![t] = to]
             /\ to \in Locked => from \in {"readSlept", "writeSlept"}
             /\ to = "copyIn" => from = "writeSlept"
             /\ UNCHANGED <<sem, count, buffer, size, misled>>
    BY <1>3 DEF Go
  <2>2. /\ to \in Places /\ to # "clear"
        /\ to \in Free <=> to \notin Locked
        /\ to \in Locked => pc[t] \in Locked
    BY <2>1 DEF Places, Locked, Free, Asleep
  <2>3. to \in WriterPlaces => t \in Writers
    BY <2>1 DEF SlotInv, Roles, WriterPlaces
  <2>4. sem = 1 => to \in Free
    BY <2>2 DEF SlotInv, DownInside, Free
  <2>5. /\ sem \in {0, 1} /\ faults \in 0..MaxFaults /\ buffer \in Writers \union {None}
        /\ misled \in BOOLEAN
    BY DEF SlotInv, TypeOK
  <2> QED BY <1>1, <2>1, <2>2, <2>3, <2>4, <2>5, Moves
<1>4. Interrupted(t, "pollDown") \/
        \E from \in Places, to \in {"idle", "readSlept", "copyOut", "copyIn", "signalDown"} :
             /\ Go(t, from, to)
             /\ to \in Locked => from \in {"readSlept", "writeSlept"}
             /\ to = "copyIn" => from = "writeSlept"
             /\ UNCHANGED <<sem, count, buffer, size, misled>>
  <2> USE DEF Places, Locked, Asleep
  <2>1. CASE Interrupted(t, "pollDown") BY <2>1
  <2>2. CASE UNCHANGED <<sem, count, buffer, size, misled>>
    <3>1. CASE Go(t, "readDown", "idle") BY <2>2, <3>1
    <3>2. CASE Go(t, "writeDown", "idle") BY <2>2, <3>2
    <3>3. CASE Go(t, "selectSlept", "signalDown") BY <2>2, <3>3
    <3>4. CASE Go(t, "readSlept", readSlept) BY <2>2, <3>4
    <3>5. CASE Go(t, "writeSlept", "copyIn") BY <2>2, <3>5
    <3> QED BY <2>2, <3>1, <3>2, <3>3, <3>4, <3>5 DEF Signal, Interrupted, Go
  <2> QED BY <2>1, <2>2 DEF Signal
<1> QED BY <1>2, <1>3, <1>4

LEMMA FaultKeeps ==
  ASSUME SlotInv, NEW t \in Threads, Fault(t)
  PROVE  SlotInv'
<1>1. /\ pc' = [pc EXCEPT ![t] = "idle"]
      /\ UNCHANGED <<sem, count, size, signals, misled>>
      /\ faults < MaxFaults /\ faults' = faults + 1
      /\ buffer' = buffer \/ (buffer' = t /\ t \in Writers)
  BY DEF Fault, Go, SlotInv, Roles, WriterPlaces
<1>2. faults' \in 0..MaxFaults BY <1>1, SlotAssumption DEF SlotInv, TypeOK
<1>3. /\ buffer' \in Writers \union {None} /\ sem \in {0, 1} /\ signals \in 0..MaxSignals
      /\ misled \in BOOLEAN
  BY <1>1 DEF SlotInv, TypeOK
<1>5. faults \in Nat /\ faults' # 0 /\ sem # 1
  <2>1. pc[t] \in Locked BY DEF Fault, Go, Locked
  <2> QED BY <1>1, <2>1 DEF SlotInv, TypeOK, DownInside, Free
<1>4. "idle" \in Free /\ "idle" \in Places /\ "idle" \notin Locked \union WriterPlaces
  BY DEF Free, Places, Locked, WriterPlaces
<1> QED BY <1>1, <1>2, <1>3, <1>4, <1>5, Moves
-----------------------------------------------------------------------------
(* The steps of poll_select.c. *)
LEMMA FirstKeeps ==
  ASSUME SlotInv, One!Next
  PROVE  SlotInv'
<1> USE DEF Locked, Free, Places, Asleep, WriterPlaces, Go, past, One!Go, One!past
<1>0. One!Threads = Threads
  BY DEF One!Threads, Threads
<1>1. ASSUME NEW t \in Threads, One!Select(t) PROVE SlotInv'
  BY <1>1, SelectKeeps DEF One!Select, Select
<1>2. ASSUME NEW t \in Threads, One!StartWrite(t) PROVE SlotInv'
  BY <1>2, StartWriteKeeps DEF One!StartWrite, StartWrite
<1>3. ASSUME NEW t \in Threads, One!StartRead(t, "test") PROVE SlotInv'
  <2>1. StartRead(t, "test")
    BY <1>3 DEF One!StartRead, StartRead
  <2> QED
    BY <2>1, StartReadKeeps
<1>4. ASSUME NEW t \in Threads, One!PollDown(t) PROVE SlotInv'
  <2>1. Down(t, "pollDown", "poll")
    BY <1>4 DEF One!PollDown, One!Down, Down
  <2> QED
    BY <2>1, DownKeeps
<1>5. ASSUME NEW t \in Threads, One!ReadDown(t) PROVE SlotInv'
  <2>1. Down(t, "readDown", "copyOut")
    BY <1>5 DEF One!ReadDown, One!Down, Down
  <2> QED
    BY <2>1, DownKeeps
<1>6. ASSUME NEW t \in Threads, One!WriteDown(t) PROVE SlotInv'
  <2>1. Down(t, "writeDown", "writeWait")
    BY <1>6 DEF One!WriteDown, One!Down, Down
  <2>2. t \in Writers
    BY <2>1 DEF Down, SlotInv, Roles
  <2> QED
    BY <2>1, <2>2, DownKeeps
<1>7. ASSUME NEW t \in Threads, One!PollUp(t) PROVE SlotInv'
  <2>1. PICK to \in {"ready", "selectSlept", "idle"}, from \in {"poll", "signalPoll"} :
          Up(t, from, to)
    BY <1>7 DEF One!PollUp, One!Up, Up
  <2> QED
    BY <2>1, UpKeeps
<1>8. ASSUME NEW t \in Threads, One!ReadTest(t) PROVE SlotInv'
  <2>1. PICK to \in {"readDown", "idle"} : pc' = [pc EXCEPT ![t] = to]
    BY <1>8 DEF One!ReadTest
  <2>2. UNCHANGED <<sem, count, buffer, size, signals, faults, misled>>
    BY <1>8 DEF One!ReadTest
  <2>3. pc[t] = "test" BY <1>8 DEF One!ReadTest
  <2> QED
    BY <2>1, <2>2, <2>3, MovesOn
<1>9. ASSUME NEW t \in Threads, One!CopyOut(t) PROVE SlotInv'
  BY <1>9, CopyOutKeeps DEF One!CopyOut, CopyOut
<1>10. ASSUME NEW t \in Threads, One!Clear(t, "wakeUp") PROVE SlotInv'
  <2>1. Clear(t, "wakeUp")
    BY <1>10 DEF One!Clear, Clear
  <2> QED
    BY <2>1, ClearKeeps
<1>11. ASSUME NEW t \in Threads, One!ReadWakes(t) PROVE SlotInv'
  <2>1. Wake(t, "wakeUp", "readUp", "writeSlept", "writeWait")
    BY <1>0, <1>11 DEF One!ReadWakes, One!Wake, Wake
  <2> QED
    BY <2>1, WakeKeeps, SMTT(30)
<1>12. ASSUME NEW t \in Threads, One!ReadUp(t) PROVE SlotInv'
  <2>1. Up(t, "readUp", "idle")
    BY <1>12 DEF One!ReadUp, One!Up, Up
  <2> QED
    BY <2>1, UpKeeps
<1>13. ASSUME NEW t \in Threads, One!WriteWait(t) PROVE SlotInv'
  <2>1. Wait(t, "writeWait", count = 0, "copyIn", "writeSlept")
    BY <1>13 DEF One!WriteWait, One!Wait, Wait
  <2> QED
    BY <2>1, WaitKeeps
<1>14. ASSUME NEW t \in Threads, One!CopyIn(t) PROVE SlotInv'
  BY <1>14, CopyInKeeps DEF One!CopyIn, CopyIn
<1>15. ASSUME NEW t \in Threads, One!Fill(t, "writeUp") PROVE SlotInv'
  <2>1. Fill(t, "writeUp")
    BY <1>15 DEF One!Fill, Fill
  <2> QED
    BY <2>1, FillKeeps
<1>16. ASSUME NEW t \in Threads, One!WriteUp(t) PROVE SlotInv'
  <2>1. Up(t, "writeUp", "idle")
    BY <1>16 DEF One!WriteUp, One!Up, Up
  <2> QED
    BY <2>1, UpKeeps
<1>17. ASSUME NEW t \in Threads, One!Signal(t, "readSlept") PROVE SlotInv'
  <2>1. Signal(t, "readSlept")
    BY <1>17 DEF One!Signal, Signal, One!Interrupted, Interrupted
  <2> QED
    BY <2>1, SignalKeeps
<1>20. ASSUME NEW t \in Threads, One!SignalDown(t) PROVE SlotInv'
  <2>1. Down(t, "signalDown", "signalPoll")
    BY <1>20 DEF One!SignalDown, One!Down, Down
  <2> QED
    BY <2>1, DownKeeps
<1>21. ASSUME NEW t \in Threads, One!SignalPoll(t) PROVE SlotInv'
  BY <1>21, SignalPollKeeps DEF One!SignalPoll, SignalPoll, One!Interrupted, Interrupted
<1>18. ASSUME NEW t \in Threads, One!Fault(t) PROVE SlotInv'
  BY <1>18, FaultKeeps DEF One!Fault, Fault
<1> QED
  BY <1>0, <1>1, <1>2, <1>3, <1>4, <1>5, <1>6, <1>7, <1>8, <1>9, <1>10, <1>11, <1>12, <1>13, <1>14, <1>15, <1>16, <1>17, <1>18, <1>20, <1>21
  DEF One!Next, One!Start, One!Enter, One!Inside

(* The steps of poll_select2.c. *)
LEMMA SecondKeeps ==
  ASSUME SlotInv, Two!Next
  PROVE  SlotInv'
<1> USE DEF Locked, Free, Places, Asleep, WriterPlaces, Go, past, Two!Go, Two!past
<1>0. Two!Threads = Threads
  BY DEF Two!Threads, Threads
<1>1. ASSUME NEW t \in Threads, Two!Select(t) PROVE SlotInv'
  BY <1>1, SelectKeeps DEF Two!Select, Select
<1>2. ASSUME NEW t \in Threads, Two!StartWrite(t) PROVE SlotInv'
  BY <1>2, StartWriteKeeps DEF Two!StartWrite, StartWrite
<1>3. ASSUME NEW t \in Threads, Two!StartRead(t, "readDown") PROVE SlotInv'
  <2>1. StartRead(t, "readDown")
    BY <1>3 DEF Two!StartRead, StartRead
  <2> QED
    BY <2>1, StartReadKeeps
<1>4. ASSUME NEW t \in Threads, Two!PollDown(t) PROVE SlotInv'
  <2>1. Down(t, "pollDown", "poll")
    BY <1>4 DEF Two!PollDown, Two!Down, Down
  <2> QED
    BY <2>1, DownKeeps
<1>5. ASSUME NEW t \in Threads, Two!ReadDown(t) PROVE SlotInv'
  <2>1. Down(t, "readDown", "readWait")
    BY <1>5 DEF Two!ReadDown, Two!Down, Down
  <2> QED
    BY <2>1, DownKeeps
<1>6. ASSUME NEW t \in Threads, Two!WriteDown(t) PROVE SlotInv'
  <2>1. Down(t, "writeDown", "writeWait")
    BY <1>6 DEF Two!WriteDown, Two!Down, Down
  <2>2. t \in Writers
    BY <2>1 DEF Down, SlotInv, Roles
  <2> QED
    BY <2>1, <2>2, DownKeeps
<1>7. ASSUME NEW t \in Threads, Two!PollUp(t) PROVE SlotInv'
  <2>1. PICK to \in {"ready", "selectSlept", "idle"}, from \in {"poll", "signalPoll"} :
          Up(t, from, to)
    BY <1>7 DEF Two!PollUp, Two!Up, Up
  <2> QED
    BY <2>1, UpKeeps
<1>8. ASSUME NEW t \in Threads, Two!ReadWait(t) PROVE SlotInv'
  <2>1. Wait(t, "readWait", count > 0, "copyOut", "readSlept")
    BY <1>8 DEF Two!ReadWait, Two!Wait, Wait
  <2> QED
    BY <2>1, WaitKeeps
<1>9. ASSUME NEW t \in Threads, Two!CopyOut(t) PROVE SlotInv'
  BY <1>9, CopyOutKeeps DEF Two!CopyOut, CopyOut
<1>10. ASSUME NEW t \in Threads, Two!Clear(t, "readUp") PROVE SlotInv'
  <2>1. Clear(t, "readUp")
    BY <1>10 DEF Two!Clear, Clear
  <2> QED
    BY <2>1, ClearKeeps
<1>11. ASSUME NEW t \in Threads, Two!ReadUp(t) PROVE SlotInv'
  <2>1. Up(t, "readUp", "readWake")
    BY <1>11 DEF Two!ReadUp, Two!Up, Up
  <2> QED
    BY <2>1, UpKeeps
<1>12. ASSUME NEW t \in Threads, Two!ReadWakes(t) PROVE SlotInv'
  <2>1. Wake(t, "readWake", "idle", "writeSlept", "writeWait")
    BY <1>0, <1>12 DEF Two!ReadWakes, Two!Wake, Wake
  <2> QED
    BY <2>1, WakeKeeps
<1>13. ASSUME NEW t \in Threads, Two!WriteWait(t) PROVE SlotInv'
  <2>1. Wait(t, "writeWait", count = 0, "copyIn", "writeSlept")
    BY <1>13 DEF Two!WriteWait, Two!Wait, Wait
  <2> QED
    BY <2>1, WaitKeeps
<1>14. ASSUME NEW t \in Threads, Two!CopyIn(t) PROVE SlotInv'
  BY <1>14, CopyInKeeps DEF Two!CopyIn, CopyIn
<1>15. ASSUME NEW t \in Threads, Two!Fill(t, "wake") PROVE SlotInv'
  <2>1. Fill(t, "wake")
    BY <1>15 DEF Two!Fill, Fill
  <2> QED
    BY <2>1, FillKeeps
<1>16. ASSUME NEW t \in Threads, Two!WriteWakes(t) PROVE SlotInv'
  <2>1. Wake(t, "wake", "writeUp", "readSlept", "readWait")
    BY <1>0, <1>16 DEF Two!WriteWakes, Two!Wake, Wake
  <2> QED
    BY <2>1, WakeKeeps
<1>17. ASSUME NEW t \in Threads, Two!WriteUp(t) PROVE SlotInv'
  <2>1. Up(t, "writeUp", "idle")
    BY <1>17 DEF Two!WriteUp, Two!Up, Up
  <2> QED
    BY <2>1, UpKeeps
<1>18. ASSUME NEW t \in Threads, Two!Signal(t, IF count > 0 THEN "copyOut" ELSE "idle") PROVE SlotInv'
  <2> DEFINE to == IF count > 0 THEN "copyOut" ELSE "idle"
  <2>1. Signal(t, to)
    BY <1>18 DEF Two!Signal, Signal, Two!Interrupted, Interrupted
  <2>2. to \in {"readSlept", "copyOut", "idle"}
    OBVIOUS
  <2> HIDE DEF to
  <2> QED
    BY <2>1, <2>2, SignalKeeps
<1>20. ASSUME NEW t \in Threads, Two!SignalDown(t) PROVE SlotInv'
  <2>1. Down(t, "signalDown", "signalPoll")
    BY <1>20 DEF Two!SignalDown, Two!Down, Down
  <2> QED
    BY <2>1, DownKeeps
<1>21. ASSUME NEW t \in Threads, Two!SignalPoll(t) PROVE SlotInv'
  BY <1>21, SignalPollKeeps DEF Two!SignalPoll, SignalPoll, Two!Interrupted, Interrupted
<1>19. ASSUME NEW t \in Threads, Two!Fault(t) PROVE SlotInv'
  BY <1>19, FaultKeeps DEF Two!Fault, Fault
<1> QED
  BY <1>0, <1>1, <1>2, <1>3, <1>4, <1>5, <1>6, <1>7, <1>8, <1>9, <1>10, <1>11, <1>12, <1>13, <1>14, <1>15, <1>16, <1>17, <1>18, <1>19, <1>20, <1>21
  DEF Two!Next, Two!Start, Two!Enter, Two!Inside

LEMMA Initially == MCInit => SlotInv
<1> USE SlotAssumption, PollAssumption
    DEF SlotInv, TypeOK, DownInside, DownMeansInside, OneInside, ClearsWhatItCopied, EmptyBeforeCopy, Places,
        Free, Locked, Sizes, Threads, Roles, WriterPlaces
<1>1. One!Init => SlotInv
  <2> HAVE One!Init
  <2>3. misled \in BOOLEAN BY Zenon DEF One!Init
  <2>4. /\ sem = 1 /\ count \in {0, Initial} /\ buffer = None
        /\ pc = [t \in Threads |-> "idle"] /\ size = [t \in Threads |-> 0]
        /\ signals = 0 /\ faults = 0
    BY DEF One!Init, One!Threads, One!None, None
  <2>1. TypeOK BY <2>3, <2>4
  <2>2. SlotInv BY <2>1 DEF One!Init, One!Threads
  <2> QED BY <2>2
<1>2. Two!Init => SlotInv
  <2> HAVE Two!Init
  <2>3. misled \in BOOLEAN BY Zenon DEF Two!Init
  <2>4. /\ sem = 1 /\ count \in {0, Initial} /\ buffer = None
        /\ pc = [t \in Threads |-> "idle"] /\ size = [t \in Threads |-> 0]
        /\ signals = 0 /\ faults = 0
    BY DEF Two!Init, Two!Threads, Two!None, None
  <2>1. TypeOK BY <2>3, <2>4
  <2>2. SlotInv BY <2>1 DEF Two!Init, Two!Threads
  <2> QED BY <2>2
<1> QED
  BY <1>1, <1>2 DEF MCInit

LEMMA Inductive == MCSpec => []SlotInv
<1>1. SlotInv /\ [MCNext]_mcVars => SlotInv'
  <2> SUFFICES ASSUME SlotInv, [MCNext]_mcVars PROVE SlotInv'
    OBVIOUS
  <2>1. CASE UNCHANGED mcVars
    BY <2>1 DEF mcVars, vars, past, SlotInv, Roles, TypeOK, DownInside, OneInside,
       DownMeansInside, ClearsWhatItCopied, EmptyBeforeCopy
  <2> QED
    BY <2>1, FirstKeeps, SecondKeeps DEF MCNext
<1> QED
  BY <1>1, Initially, PTL DEF MCSpec

(* The variables keep their types: the semaphore of either driver is never *)
(* up twice, and its count is 0 or the size of some message.               *)
THEOREM TypeCorrect == MCSpec => []TypeOK
  BY Inductive, PTL DEF SlotInv

(* At most one call of demo_read, demo_write or demo_poll is between its   *)
(* down and its up, for any number of callers, signals and failed copies;  *)
(* and while no copy has failed and no signal came, the semaphore is down  *)
(* only for such a call, which will put it up: no path of the two drivers  *)
(* returns with it but those.                                              *)
THEOREM Exclusion == MCSpec => []SemaphoreKeeps
  BY Inductive, PTL DEF SlotInv, SemaphoreKeeps

(* What demo_read clears is the message it copied to its caller.           *)
THEOREM NothingLostUnread == MCSpec => []ClearsWhatItCopied
  BY Inductive, PTL DEF SlotInv

(* Unless a signal ended a writer's wait, demo_write copies over an empty  *)
(* buffer only.                                                            *)
THEOREM NothingOverwritten == MCSpec => UnreadKept
<1>1. SlotInv /\ [MCNext]_mcVars => [\A t \in Writers :
        pc[t] = "copyIn" /\ pc'[t] = "fill" /\ signals = 0 => count = 0]_vars
  BY DEF SlotInv, EmptyBeforeCopy
<1> QED BY <1>1, Inductive, PTL DEF MCSpec, UnreadKept
=============================================================================
