----------------------------- MODULE PollSelect -----------------------------
(***************************************************************************)
(* drv/poll/poll_select.c: demo_read looks at the count before it takes    *)
(* the semaphore and never waits; demo_write waits for the empty buffer    *)
(* with the semaphore down and wakes nobody.                               *)
(***************************************************************************)
EXTENDS OneSlot

ReadTest(t) ==
  /\ Go(t, "test", IF count > 0 THEN "readDown" ELSE "idle")
  /\ UNCHANGED <<sem, count, buffer, size, past>>

ReadDown(t) == Down(t, "readDown", "copyOut")
ReadWakes(t) == Wake(t, "wakeUp", "readUp", "writeSlept", "writeWait")
ReadUp(t) == Up(t, "readUp", "idle")

Start(t) == Select(t) \/ StartWrite(t) \/ StartRead(t, "test")
Enter(t) == PollDown(t) \/ ReadDown(t) \/ WriteDown(t)

Inside(t) ==
  \/ PollUp(t) \/ SignalDown(t) \/ SignalPoll(t)
  \/ ReadTest(t) \/ CopyOut(t) \/ Clear(t, "wakeUp") \/ ReadWakes(t) \/ ReadUp(t)
  \/ WriteWait(t) \/ CopyIn(t) \/ Fill(t, "writeUp") \/ WriteUp(t)

Next == \E t \in Threads :
  Start(t) \/ Enter(t) \/ Inside(t) \/ Signal(t, "readSlept") \/ Fault(t)

Spec == Init /\ [][Next]_vars

(* A thread in the kernel runs on, the semaphore serves its waiters in     *)
(* order, and the select loop of test_select.c never stops.                *)
FairSpec ==
  /\ Spec
  /\ \A t \in Threads : WF_vars(Inside(t)) /\ SF_vars(Enter(t))
  /\ \A t \in Pollers : WF_vars(Start(t))
=============================================================================
