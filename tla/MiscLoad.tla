------------------------------ MODULE MiscLoad ------------------------------
(***************************************************************************)
(* Loading and unloading the drivers that lock: demo_init of               *)
(* poll_select.c and poll_select2.c, complete_init and gpio_i2c_rtc_init   *)
(* all register the device first, so that calls come in while the objects  *)
(* they need are still being initialised.  What a call does inside is in   *)
(* the module of each driver.  The kernel's module count and its ticket    *)
(* spinlocks are external.                                                 *)
(***************************************************************************)
EXTENDS Integers, Sequences

CONSTANTS
  Callers,      \* processes that open the device and call the driver
  Tickets       \* bound: tickets of a spinlock (2^16 in the kernel)

VARIABLES
  module,       \* the driver
  loading,      \* which call of its init and exit code comes next
  opened,       \* callers that have the device open
  inside,       \* those of them that are in a call, past its first lock
  spins,        \* the ticket of each caller that spins
  head, tail,   \* the spinlock: ticket that is served, and the next one
  overrun,      \* history: the lock was initialised under a caller
  oops          \* an uninitialised semaphore or completion was used

lock == <<head, tail>>
vars == <<module, loading, opened, inside, spins, lock, overrun, oops>>

MutPollCalls ==   \* the semaphore is forgotten
  <<"misc_register", "init_waitqueue_head", "loaded", "misc_deregister", "gone">>

(* demo_init and demo_exit of poll_select.c; poll_select2.c has two queues. *)
PollCalls ==
  <<"misc_register", "init_waitqueue_head", "sema_init", "loaded",
    "misc_deregister", "gone">>

Poll2Calls ==
  <<"misc_register", "init_waitqueue_head", "init_waitqueue_head", "sema_init",
    "loaded", "misc_deregister", "gone">>

(* complete_init and complete_exit. *)
CompleteCalls ==
  <<"misc_register", "init_completion", "loaded", "misc_deregister", "gone">>

(* gpio_i2c_rtc_init and gpio_i2c_rtc_exit. *)
RtcCalls ==
  <<"misc_register", "i2c_set", "spin_lock_init", "loaded", "misc_deregister", "gone">>

Calls == CASE module = "poll" -> PollCalls
           [] module = "poll2" -> Poll2Calls
           [] module = "complete" -> CompleteCalls
           [] module = "rtc" -> RtcCalls

Done(call) == \E k \in DOMAIN Calls : Calls[k] = call /\ k < loading
At(call) == Calls[loading] = call

NoTicket == -1

TypeOK ==
  /\ module \in {"poll", "poll2", "complete", "rtc"}
  /\ loading \in DOMAIN Calls
  /\ inside \subseteq opened /\ opened \subseteq Callers
  /\ spins \in [Callers -> {NoTicket} \union 0..(Tickets - 1)]
  /\ head \in 0..(Tickets - 1) /\ tail \in 0..(Tickets - 1)
  /\ overrun \in BOOLEAN /\ oops \in BOOLEAN

(* A lock in zeroed static data is free. *)
Init ==
  /\ module \in {"poll", "poll2", "complete", "rtc"}
  /\ loading = 1
  /\ opened = {} /\ inside = {}
  /\ spins = [c \in Callers |-> NoTicket]
  /\ head = 0 /\ tail = 0
  /\ overrun = FALSE /\ oops = FALSE
-----------------------------------------------------------------------------
InCall(c) == c \in inside \/ spins[c] # NoTicket

(* The next call of the init code: it sets the lock to free, whoever has   *)
(* it.                                                                     *)
InitStep ==
  /\ ~oops /\ ~Done("loaded") /\ ~At("loaded")
  /\ loading' = loading + 1
  /\ IF At("spin_lock_init")
     THEN /\ head' = 0 /\ tail' = 0
          /\ overrun' = (overrun \/ \E c \in Callers : InCall(c))
     ELSE UNCHANGED <<lock, overrun>>
  /\ UNCHANGED <<module, opened, inside, spins, oops>>

(* An open file with .owner holds the module. *)
Unused == opened = {}

(* rmmod, when the module is not in use. *)
Unload ==
  /\ ~oops /\ At("loaded") /\ Unused
  /\ loading' = loading + 1
  /\ UNCHANGED <<module, opened, inside, spins, lock, overrun, oops>>

Deregister ==
  /\ ~oops /\ At("misc_deregister")
  /\ loading' = loading + 1
  /\ UNCHANGED <<module, opened, inside, spins, lock, overrun, oops>>

(* insmod of the module that has gone. *)
Reload ==
  /\ ~oops /\ At("gone")
  /\ loading' = 1
  /\ head' = 0 /\ tail' = 0 /\ overrun' = FALSE
  /\ UNCHANGED <<module, opened, inside, spins, oops>>

(* Refused before misc_register and from rmmod on. *)
Open(c) ==
  /\ ~oops /\ c \notin opened
  /\ Done("misc_register") /\ ~Done("loaded")
  /\ opened' = opened \union {c}
  /\ UNCHANGED <<module, loading, inside, spins, lock, overrun, oops>>

Close(c) ==
  /\ ~oops /\ c \in opened /\ ~InCall(c)
  /\ opened' = opened \ {c}
  /\ UNCHANGED <<module, loading, inside, spins, lock, overrun, oops>>

Ready == IF module = "complete" THEN Done("init_completion") ELSE Done("sema_init")

(* down_interruptible, complete and wait_for_completion_interruptible go   *)
(* through a list that is NULL before it is initialised.                   *)
Sleep(c) ==
  /\ ~oops /\ module # "rtc"
  /\ c \in opened \ inside
  /\ IF Ready THEN inside' = inside \union {c} /\ UNCHANGED oops
              ELSE oops' = TRUE /\ UNCHANGED inside
  /\ UNCHANGED <<module, loading, opened, spins, lock, overrun>>

(* spin_lock takes a ticket ... *)
Spin(c) ==
  /\ module = "rtc"
  /\ c \in opened /\ ~InCall(c)
  /\ spins' = [spins EXCEPT ![c] = tail]
  /\ tail' = (tail + 1) % Tickets
  /\ UNCHANGED <<module, loading, opened, inside, head, overrun, oops>>

(* ... and waits until it is served. *)
Served(c) ==
  /\ spins[c] = head
  /\ spins' = [spins EXCEPT ![c] = NoTicket]
  /\ inside' = inside \union {c}
  /\ UNCHANGED <<module, loading, opened, lock, overrun, oops>>

(* The call ends; spin_unlock serves the next ticket. *)
Leave(c) ==
  /\ ~oops /\ c \in inside
  /\ inside' = inside \ {c}
  /\ head' = IF module = "rtc" THEN (head + 1) % Tickets ELSE head
  /\ UNCHANGED <<module, loading, opened, spins, tail, overrun, oops>>

Next ==
  \/ InitStep \/ Unload \/ Deregister \/ Reload
  \/ \E c \in Callers : Open(c) \/ Close(c) \/ Sleep(c) \/ Spin(c) \/ Served(c) \/ Leave(c)

Spec == Init /\ [][Next]_vars
-----------------------------------------------------------------------------
(* A loaded driver has everything its calls need: an uninitialised object  *)
(* is only used by a call that comes in before the init code is over.      *)
OopsWhileLoading == oops => ~Done("loaded") /\ ~At("loaded")

(* The unloading code runs, and the code goes, only when no call is in it. *)
NoneInsideGone == Done("loaded") => \A c \in Callers : ~InCall(c)

(* The I2C lock keeps calls apart, unless a call was in progress when it   *)
(* was initialised: calls that came and went before do no harm, which one  *)
(* that stays does even when loading is over.                              *)
OneHolder == module = "rtc" /\ ~overrun =>
  \A c, d \in inside : c = d
=============================================================================
