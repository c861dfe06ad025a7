---------------------------- MODULE PollSelect2 ----------------------------
(***************************************************************************)
(* drv/poll/poll_select2.c: demo_read, too, waits with the semaphore down, *)
(* for a message; a reader that a signal wakes while the buffer is empty   *)
(* returns 0 and leaves the semaphore down.  Each side wakes the other.    *)
(***************************************************************************)
EXTENDS OneSlot

ReadDown(t) == Down(t, "readDown", "readWait")
ReadWait(t) == Wait(t, "readWait", count > 0, "copyOut", "readSlept")

ReadUp(t) == Up(t, "readUp", "readWake")
ReadWakes(t) == Wake(t, "readWake", "idle", "writeSlept", "writeWait")

MutWriteWakes(t) ==   \* a write that wakes nobody
  /\ Go(t, "wake", "writeUp")
  /\ UNCHANGED <<sem, count, buffer, size, past>>

WriteWakes(t) == Wake(t, "wake", "writeUp", "readSlept", "readWait")

Start(t) == Select(t) \/ StartWrite(t) \/ StartRead(t, "readDown")
Enter(t) == PollDown(t) \/ ReadDown(t) \/ WriteDown(t)

Inside(t) ==
  \/ PollUp(t) \/ SignalDown(t) \/ SignalPoll(t)
  \/ ReadWait(t) \/ CopyOut(t) \/ Clear(t, "readUp") \/ ReadUp(t) \/ ReadWakes(t)
  \/ WriteWait(t) \/ CopyIn(t) \/ Fill(t, "wake") \/ WriteWakes(t) \/ WriteUp(t)

Next == \E t \in Threads :
  \/ Start(t) \/ Enter(t) \/ Inside(t) \/ Fault(t)
  \/ Signal(t, IF count > 0 THEN "copyOut" ELSE "idle")

Spec == Init /\ [][Next]_vars

(* As in PollSelect. *)
FairSpec ==
  /\ Spec
  /\ \A t \in Threads : WF_vars(Inside(t)) /\ SF_vars(Enter(t))
  /\ \A t \in Pollers : WF_vars(Start(t))
=============================================================================
