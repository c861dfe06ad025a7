------------------------------- MODULE MCPoll -------------------------------
(***************************************************************************)
(* Both poll drivers for TLC: which of the two modules is loaded is chosen *)
(* at the start.  They differ in buffer_char_count when loaded and in who  *)
(* must select() for both directions to be woken at all.                   *)
(***************************************************************************)
EXTENDS OneSlot

CONSTANT Sleepers1    \* the Sleepers of poll_select.c

(* buffer_char_count of poll_select.c when it is loaded. *)
ASSUME PollAssumption == Initial = 2

VARIABLE driver       \* the driver that is loaded: 1 or 2

One == INSTANCE PollSelect WITH Sleepers <- Sleepers1, Initial <- 2
Two == INSTANCE PollSelect2 WITH Initial <- 0

mcVars == <<vars, driver>>

MCInit == \/ driver = 1 /\ One!Init
          \/ driver = 2 /\ Two!Init

MCNext == /\ UNCHANGED driver
          /\ \/ driver = 1 /\ One!Next
             \/ driver = 2 /\ Two!Next

MCSpec == MCInit /\ [][MCNext]_mcVars

MCStart(t) == (driver = 1 /\ One!Start(t)) \/ (driver = 2 /\ Two!Start(t))
MCEnter(t) == (driver = 1 /\ One!Enter(t)) \/ (driver = 2 /\ Two!Enter(t))
MCInside(t) == (driver = 1 /\ One!Inside(t)) \/ (driver = 2 /\ Two!Inside(t))

(* The fairness of the two modules, under the driver that is loaded. *)
MCFairSpec ==
  /\ MCSpec
  /\ \A t \in Threads : /\ WF_mcVars(MCInside(t) /\ UNCHANGED driver)
                        /\ SF_mcVars(MCEnter(t) /\ UNCHANGED driver)
  /\ \A t \in Pollers : WF_mcVars(MCStart(t) /\ UNCHANGED driver)
=============================================================================
