------------------------------ MODULE OneSlot ------------------------------
(***************************************************************************)
(* What drv/poll/poll_select.c and poll_select2.c share: a buffer for one  *)
(* message, a semaphore, wait queues, demo_poll, and the callers: threads  *)
(* that read or write straight away, or that select() first, as the loop   *)
(* of test_select.c does.                                                  *)
(***************************************************************************)
EXTENDS Naturals, FiniteSets

CONSTANTS
  Readers, Writers,   \* the callers of demo_read and of demo_write
  Pollers,            \* those of them that select() before each call
  Sleepers,           \* pollers that select() for their own direction only
  Counts,             \* the sizes of the messages written
  Initial,            \* buffer_char_count when the module is loaded
  MaxSignals,         \* bound: signals delivered to waiting callers
  MaxFaults           \* bound: failed copies from or to user space

Threads == Readers \union Writers

ASSUME SlotAssumption ==
  /\ Readers \intersect Writers = {}
  /\ Sleepers \subseteq Pollers /\ Pollers \subseteq Threads
  /\ Counts \subseteq Nat /\ Initial \in Nat
  /\ MaxSignals \in Nat /\ MaxFaults \in Nat

VARIABLES
  sem,        \* count of the semaphore: 1 or 0
  count,      \* buffer_char_count
  buffer,     \* the writer whose message is in the buffer
  pc,         \* where each caller is
  size,       \* bytes each caller passed to write or copied in read
  signals, faults,
  misled      \* has a writer been told that it can write while the buffer was full?

vars == <<sem, count, buffer, pc, size, signals, faults, misled>>
past == <<signals, faults, misled>>

None == "none"

(* Places between down and up; "slept" is asleep inside a wait_event. *)
Locked == {"poll", "readWait", "readSlept", "copyOut", "clear", "readUp", "wakeUp",
           "writeWait", "writeSlept", "copyIn", "fill", "wake", "writeUp", "signalPoll"}

Asleep == {"readSlept", "writeSlept", "selectSlept"}

Places == Locked \union Asleep
            \union {"idle", "pollDown", "ready", "test", "readDown", "readWake",
                    "writeDown", "signalDown"}

Sizes == Counts \union {0, Initial}

TypeOK ==
  /\ sem \in {0, 1}
  /\ count \in Sizes
  /\ buffer \in Writers \union {None}
  /\ pc \in [Threads -> Places]
  /\ size \in [Threads -> Sizes]
  /\ signals \in 0..MaxSignals /\ faults \in 0..MaxFaults
  /\ misled \in BOOLEAN

Init ==
  /\ sem = 1
  /\ count = Initial
  /\ buffer = None
  /\ pc = [t \in Threads |-> "idle"]
  /\ size = [t \in Threads |-> 0]
  /\ signals = 0 /\ faults = 0 /\ misled = FALSE
-----------------------------------------------------------------------------
Go(t, from, to) == pc[t] = from /\ pc' = [pc EXCEPT ![t] = to]

(* down_interruptible(&sem) *)
Down(t, from, to) ==
  /\ Go(t, from, to)
  /\ sem = 1 /\ sem' = 0
  /\ UNCHANGED <<count, buffer, size, past>>

(* up(&sem) *)
Up(t, from, to) ==
  /\ Go(t, from, to)
  /\ sem' = sem + 1
  /\ UNCHANGED <<count, buffer, size, past>>

(* The first test of wait_event_interruptible, and the test after a wake:  *)
(* the caller is on the queue before it tests, so that it misses no wake.  *)
Wait(t, from, cond, to, slept) ==
  /\ Go(t, from, IF cond THEN to ELSE slept)
  /\ UNCHANGED <<sem, count, buffer, size, past>>

(* wake_up_interruptible of a queue on which the callers at slept wait, by *)
(* a thread at from.  A woken select() calls demo_poll again.              *)
Wake(t, from, to, slept, again) ==
  /\ pc[t] = from
  /\ pc' = [u \in Threads |-> CASE u = t -> to
                                [] pc[u] = slept -> again
                                [] pc[u] = "selectSlept" -> "pollDown"
                                [] OTHER -> pc[u]]
  /\ UNCHANGED <<sem, count, buffer, size, past>>

(* A caller starts with a select(), or with the call. *)
Select(t) ==
  /\ t \in Pollers
  /\ Go(t, "idle", "pollDown")
  /\ UNCHANGED <<sem, count, buffer, size, past>>

StartWrite(t) ==
  /\ t \in Writers
  /\ Go(t, IF t \in Pollers THEN "ready" ELSE "idle", "writeDown")
  /\ \E n \in Counts : size' = [size EXCEPT ![t] = n]
  /\ UNCHANGED <<sem, count, buffer, past>>

StartRead(t, first) ==
  /\ t \in Readers
  /\ Go(t, IF t \in Pollers THEN "ready" ELSE "idle", first)
  /\ UNCHANGED <<sem, count, buffer, size, past>>

(* demo_poll puts the caller on the queues and tells it whether the buffer *)
(* is full or empty.  test_select.c asks for both, and so always gets an   *)
(* answer: when it is not the one it wants it selects again.               *)
PollDown(t) == Down(t, "pollDown", "poll")

MutPollUp(t) ==   \* demo_poll returns without up(&sem)
  /\ Go(t, "poll", IF (count > 0) = (t \in Readers) THEN "ready" ELSE "idle")
  /\ UNCHANGED <<sem, count, buffer, size, past>>

PollUp(t) ==
  LET wanted == IF t \in Readers THEN count > 0 ELSE count = 0 IN
  \/ Up(t, "poll", IF wanted THEN "ready"
                   ELSE IF t \in Sleepers THEN "selectSlept" ELSE "idle")
  \/ Up(t, "signalPoll", IF wanted THEN "ready" ELSE "idle")

(* The select() that a signal woke calls demo_poll once more, and does not *)
(* sleep again.                                                            *)
SignalDown(t) == Down(t, "signalDown", "signalPoll")

(* demo_poll that a signal keeps from the semaphore returns -ERESTARTSYS   *)
(* as its mask of events.  Read as unsigned this has POLLWRBAND and none   *)
(* of the bits that stand for data: select() tells a writer that it can    *)
(* write, whatever the count is, and a reader nothing.                     *)
Interrupted(t, from) ==
  /\ sem = 0
  /\ Go(t, from, IF t \in Writers THEN "ready" ELSE "idle")
  /\ misled' = (misled \/ (t \in Writers /\ count > 0))
  /\ UNCHANGED <<sem, count, buffer, size>>

SignalPoll(t) == Interrupted(t, "signalDown") /\ UNCHANGED <<signals, faults>>

CopyOut(t) ==
  /\ Go(t, "copyOut", "clear")
  /\ size' = [size EXCEPT ![t] = count]
  /\ UNCHANGED <<sem, count, buffer, past>>

Clear(t, to) ==
  /\ Go(t, "clear", to)
  /\ count' = 0
  /\ UNCHANGED <<sem, buffer, size, past>>

MutWriteDown(t) ==   \* a write that does not take the semaphore
  /\ Go(t, "writeDown", "writeWait")
  /\ UNCHANGED <<sem, count, buffer, size, past>>

WriteDown(t) == Down(t, "writeDown", "writeWait")

WriteWait(t) == Wait(t, "writeWait", count = 0, "copyIn", "writeSlept")

CopyIn(t) ==
  /\ Go(t, "copyIn", "fill")
  /\ buffer' = t
  /\ UNCHANGED <<sem, count, size, past>>

MutFill(t, to) ==   \* the count is added to what was left
  /\ Go(t, "fill", to)
  /\ count' = count + size[t]
  /\ UNCHANGED <<sem, buffer, size, past>>

Fill(t, to) ==
  /\ Go(t, "fill", to)
  /\ count' = size[t]
  /\ UNCHANGED <<sem, buffer, size, past>>

WriteUp(t) == Up(t, "writeUp", "idle")

(* A signal ends a wait for the semaphore and wakes select(); a wait_event *)
(* ends too, and the driver, which does not look at its result, goes on.   *)
Signal(t, readSlept) ==
  /\ signals < MaxSignals /\ signals' = signals + 1
  /\ UNCHANGED faults
  /\ \/ Interrupted(t, "pollDown")
     \/ /\ \/ sem = 0 /\ (Go(t, "readDown", "idle") \/ Go(t, "writeDown", "idle"))
           \/ Go(t, "selectSlept", "signalDown")
           \/ Go(t, "readSlept", readSlept)
           \/ Go(t, "writeSlept", "copyIn")
        /\ UNCHANGED <<sem, count, buffer, size, misled>>

(* A copy of some bytes fails, maybe half way: the call returns -EINVAL    *)
(* with the semaphore still down.                                          *)
Fault(t) ==
  /\ faults < MaxFaults /\ faults' = faults + 1
  /\ \/ Go(t, "copyOut", "idle") /\ count > 0 /\ UNCHANGED buffer
     \/ Go(t, "copyIn", "idle") /\ size[t] > 0 /\ buffer' \in {buffer, t}
  /\ UNCHANGED <<sem, count, size, signals, misled>>
-----------------------------------------------------------------------------
OneInside ==
  \A t, u \in Threads : pc[t] \in Locked /\ pc[u] \in Locked => t = u

DownMeansInside ==
  sem = 0 /\ signals = 0 /\ faults = 0 => \E t \in Threads : pc[t] \in Locked

(* The semaphore stands for the call that is between its down and its up.  *)
(* There are never two of them, also when a signal or a failed copy makes  *)
(* a call return early.  And it is down with nobody inside, so that no     *)
(* later call gets in, only after a failed copy, or a signal that sent a   *)
(* reader of poll_select2.c away: no other path returns without up.        *)
SemaphoreKeeps == OneInside /\ DownMeansInside

(* What demo_read is about to clear is what it copied: no message slips in *)
(* between and is lost unread.                                             *)
ClearsWhatItCopied ==
  \A t \in Readers : pc[t] = "clear" => size[t] = count

(* Unless a signal ends the writer's wait, a message is overwritten only   *)
(* after a reader has cleared it.                                          *)
UnreadKept ==
  [][\A t \in Writers :
       pc[t] = "copyIn" /\ pc'[t] = "fill" /\ signals = 0 => count = 0]_vars

(* Every call of write comes back, as long as no interrupted demo_poll     *)
(* sends a writer to a full buffer: it waits there with the semaphore down *)
(* that the reader needs.                                                  *)
WritesReturn ==
  \A t \in Writers : pc[t] = "writeDown" ~> (pc[t] = "idle" \/ misled)

(* What is in the buffer is read, under the same condition: test_select.c  *)
(* prints "Data can be read!" and reads it.                                *)
DataGetsRead == count > 0 ~> (count = 0 \/ misled)

(* Who select() tells that "Data can be written" (test_select.c) writes    *)
(* and returns.                                                            *)
ToldCanWrite ==
  \A t \in Writers : pc[t] = "ready" ~> pc[t] = "idle"
=============================================================================
