------------------------------ MODULE Complete ------------------------------
(***************************************************************************)
(* The driver of drv/complete/complete.c: a read waits for a completion    *)
(* and copies out of one buffer, a write copies into it and completes one  *)
(* waiting read or all reads, by the module parameter option.  The copies  *)
(* go byte by byte, so that calls of other threads may come in between.    *)
(***************************************************************************)
EXTENDS Integers

CONSTANTS
  Threads,      \* each with the device open on a file of its own
  MAX,          \* size of the buffer (20 in the code)
  Counts,       \* the byte counts passed to read and write
  Offsets,      \* the offsets passed to llseek
  MaxCalls,     \* bound: reads and writes of each thread
  MaxSignals,   \* bound: signals delivered to waiting reads
  MaxFaults     \* bound: failed copies from or to user space

ASSUME CompleteAssumption ==
  /\ MAX \in Nat \ {0}
  /\ Counts \subseteq Nat /\ Offsets \subseteq Int
  /\ MaxCalls \in Nat /\ MaxSignals \in Nat /\ MaxFaults \in Nat
  /\ Threads \intersect {"zero", "outside"} = {}

VARIABLES
  option,     \* module parameter: 0, or anything else
  done,       \* the completions given and not yet taken
  all,        \* calls of complete_all
  c_kbuf,     \* who wrote each byte of the buffer
  f_pos,      \* position of each thread's file
  pc, count,  \* where each thread is and the bytes it asked for
  copied,     \* how many of them it has copied
  got,        \* what a read has put into the user's buffer
  waited,     \* what ended the wait of its last read
  given, taken,   \* history: completions given, waits they ended
  calls, signals, faults

buffers == <<c_kbuf, got>>
com == <<done, all, given, taken>>
budget == <<calls, signals, faults>>
vars == <<option, com, buffers, f_pos, pc, count, copied, waited, budget>>

Bytes == 0..(MAX - 1)

Contents == Threads \union {"zero"}

TypeOK ==
  /\ option \in {0, 1}
  /\ done \in Nat /\ all \in Nat /\ given \in Nat /\ taken \in Nat
  /\ c_kbuf \in [Bytes -> Contents]
  /\ f_pos \in [Threads -> Bytes]
  /\ pc \in [Threads -> {"idle", "wait", "copyOut", "copyIn", "done"}]
  /\ count \in [Threads -> Nat]
  /\ copied \in [Threads -> 0..MAX]
  /\ got \in [Threads -> [Bytes -> Contents \union {"outside"}]]
  /\ waited \in [Threads -> {"completed", "interrupted"}]
  /\ calls \in [Threads -> 0..MaxCalls]
  /\ signals \in 0..MaxSignals /\ faults \in 0..MaxFaults

(* complete_init; c_kbuf is a static array. *)
Init ==
  /\ option \in {0, 1}
  /\ done = 0 /\ all = 0 /\ given = 0 /\ taken = 0
  /\ c_kbuf = [k \in Bytes |-> "zero"]
  /\ f_pos = [t \in Threads |-> 0]
  /\ pc = [t \in Threads |-> "idle"]
  /\ count = [t \in Threads |-> 0]
  /\ copied = [t \in Threads |-> 0]
  /\ got = [t \in Threads |-> [k \in Bytes |-> "zero"]]
  /\ waited = [t \in Threads |-> "interrupted"]
  /\ calls = [t \in Threads |-> 0] /\ signals = 0 /\ faults = 0
-----------------------------------------------------------------------------
Go(t, from, to) == pc[t] = from /\ pc' = [pc EXCEPT ![t] = to]

(* The call is over: what it kept for itself is given up. *)
Forget(t) ==
  /\ got' = [got EXCEPT ![t] = [k \in Bytes |-> "zero"]]
  /\ count' = [count EXCEPT ![t] = 0]
  /\ copied' = [copied EXCEPT ![t] = 0]
  /\ waited' = [waited EXCEPT ![t] = "interrupted"]

(* if(count>=MAX) count=MAX; *)
Clamp(n) == IF n >= MAX THEN MAX ELSE n

Start(t, to) ==
  /\ Go(t, "idle", to)
  /\ calls[t] < MaxCalls /\ calls' = [calls EXCEPT ![t] = @ + 1]
  /\ UNCHANGED <<option, com, buffers, f_pos, copied, waited, signals, faults>>

StartRead(t) ==
  /\ Start(t, "wait")
  /\ \E n \in Counts : count' = [count EXCEPT ![t] = n]

(* wait_for_completion_interruptible returns, and the count is clamped. *)
Wait(t, how) ==
  /\ Go(t, "wait", "copyOut")
  /\ waited' = [waited EXCEPT ![t] = how]
  /\ count' = [count EXCEPT ![t] = Clamp(@)]
  /\ UNCHANGED <<option, buffers, f_pos, copied, calls, faults>>

Woken(t) ==
  /\ Wait(t, "completed")
  /\ all > 0 \/ done > 0
  /\ done' = IF all > 0 THEN done ELSE done - 1
  /\ taken' = taken + 1
  /\ UNCHANGED <<all, given, signals>>

(* A signal ends the wait too; the driver does not look at the result. *)
Interrupted(t) ==
  /\ Wait(t, "interrupted")
  /\ signals < MaxSignals /\ signals' = signals + 1
  /\ UNCHANGED com

(* One byte of copy_to_user(buffer, c_kbuf+pos, count). *)
CopyOut(t) ==
  /\ pc[t] = "copyOut" /\ copied[t] < count[t]
  /\ LET k == f_pos[t] + copied[t] IN
     got' = [got EXCEPT ![t][copied[t]] = IF k < MAX THEN c_kbuf[k] ELSE "outside"]
  /\ copied' = [copied EXCEPT ![t] = @ + 1]
  /\ UNCHANGED <<option, com, c_kbuf, f_pos, pc, count, waited, budget>>

ReadDone(t) ==
  /\ Go(t, "copyOut", "done")
  /\ copied[t] = count[t]
  /\ UNCHANGED <<option, com, buffers, f_pos, count, copied, waited, budget>>

ReadReturn(t) ==
  /\ Go(t, "done", "idle")
  /\ Forget(t)
  /\ UNCHANGED <<option, com, c_kbuf, f_pos, budget>>

StartWrite(t) ==
  /\ Start(t, "copyIn")
  /\ \E n \in Counts : count' = [count EXCEPT ![t] = Clamp(n)]

(* One byte of copy_from_user(c_kbuf, buffer, count). *)
CopyIn(t) ==
  /\ pc[t] = "copyIn" /\ copied[t] < count[t]
  /\ c_kbuf' = [c_kbuf EXCEPT ![copied[t]] = t]
  /\ copied' = [copied EXCEPT ![t] = @ + 1]
  /\ UNCHANGED <<option, com, got, f_pos, pc, count, waited, budget>>

MutWriteDone(t) ==   \* completed before everything is copied
  /\ Go(t, "copyIn", "idle")
  /\ given' = given + 1
  /\ IF option = 0 THEN done' = done + 1 /\ UNCHANGED all
                   ELSE all' = all + 1 /\ UNCHANGED done
  /\ Forget(t)
  /\ UNCHANGED <<option, taken, c_kbuf, f_pos, budget>>

MutWriteDoneAll(t) ==   \* option is not looked at
  /\ Go(t, "copyIn", "idle")
  /\ copied[t] = count[t]
  /\ given' = given + 1
  /\ all' = all + 1
  /\ Forget(t)
  /\ UNCHANGED <<option, done, taken, c_kbuf, f_pos, budget>>

MutWriteDoneOne(t) ==   \* never completes all
  /\ Go(t, "copyIn", "idle")
  /\ copied[t] = count[t]
  /\ given' = given + 1 /\ done' = done + 1
  /\ Forget(t)
  /\ UNCHANGED <<option, all, taken, c_kbuf, f_pos, budget>>

(* complete(&com), or complete_all(&com). *)
WriteDone(t) ==
  /\ Go(t, "copyIn", "idle")
  /\ copied[t] = count[t]
  /\ given' = given + 1
  /\ IF option = 0 THEN done' = done + 1 /\ UNCHANGED all
                   ELSE all' = all + 1 /\ UNCHANGED done
  /\ Forget(t)
  /\ UNCHANGED <<option, taken, c_kbuf, f_pos, budget>>

(* A copy fails, maybe half way: the call returns -1. *)
Fault(t) ==
  /\ Go(t, "copyOut", "idle") \/ Go(t, "copyIn", "idle")
  /\ copied[t] < count[t]
  /\ faults < MaxFaults /\ faults' = faults + 1
  /\ Forget(t)
  /\ UNCHANGED <<option, com, c_kbuf, f_pos, calls, signals>>

Seek(t, whence, offset) ==
  CASE whence = 0 -> offset
    [] whence = 1 -> f_pos[t] + offset
    [] whence = 2 -> MAX + offset - 1

MutLlseek(t) ==   \* the end of the buffer is taken as a position
  /\ pc[t] = "idle"
  /\ \E whence \in 0..2, offset \in Offsets :
       LET pos == Seek(t, whence, offset) IN
       /\ pos \in 0..MAX
       /\ f_pos' = [f_pos EXCEPT ![t] = pos]
  /\ UNCHANGED <<option, com, buffers, pc, count, copied, waited, budget>>

(* complete_llseek, when it does not return -EINVAL. *)
Llseek(t) ==
  /\ pc[t] = "idle"
  /\ \E whence \in 0..2, offset \in Offsets :
       LET pos == Seek(t, whence, offset) IN
       /\ pos \in Bytes
       /\ f_pos' = [f_pos EXCEPT ![t] = pos]
  /\ UNCHANGED <<option, com, buffers, pc, count, copied, waited, budget>>

(* The steps of a call that is not waiting, and of one that is. *)
Inside(t) == CopyOut(t) \/ ReadDone(t) \/ ReadReturn(t) \/ CopyIn(t) \/ WriteDone(t)

Next == \E t \in Threads :
  \/ StartRead(t) \/ StartWrite(t) \/ Llseek(t)
  \/ Woken(t) \/ Inside(t)
  \/ Interrupted(t) \/ Fault(t)

Spec == Init /\ [][Next]_vars

(* A thread in the kernel runs on; nobody has to make a call. *)
FairSpec == Spec /\ \A t \in Threads : WF_vars(Woken(t)) /\ WF_vars(Inside(t))
-----------------------------------------------------------------------------
(* A completed read returns nothing from before the first write: within    *)
(* the bytes that every write covers, each byte is one some write put      *)
(* there, also after failed writes and with writes in progress.            *)
Covered(k) == \A n \in Counts : k < n

ReadsAreWritten == \A t \in Threads :
  pc[t] = "done" /\ waited[t] = "completed" =>
    \A k \in Bytes : k < count[t] /\ Covered(f_pos[t] + k) => got[t][k] # "zero"

(* A write stays in the buffer; a read, whose count is clamped as if it    *)
(* began at 0, leaves it for the bytes that lie past the end of it from    *)
(* the position llseek has set, and for no other.                          *)
OutsideOnlyPastEnd == \A t \in Threads, k \in Bytes :
  got[t][k] = "outside" => f_pos[t] + k >= MAX

(* With option 0 a completed write lets one read go: reads whose wait was  *)
(* not interrupted never outnumber the writes.  Interrupted reads and      *)
(* failed writes do not count.                                             *)
OnePerWrite == option = 0 => taken <= given

(* With any other option one write lets every read return, those that wait *)
(* and those that come later, so that app.c, which writes once and reads   *)
(* twice, ends.                                                            *)
ReadsReturn == \A t \in Threads :
  (option # 0 /\ given > 0 /\ pc[t] = "wait") ~> (pc[t] = "idle")
=============================================================================
