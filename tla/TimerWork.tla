----------------------------- MODULE TimerWork -----------------------------
(***************************************************************************)
(* The modules drv/time/time.c, drv/time/time_workqueue.c and              *)
(* drv/workqueue/test2.c: a timer that arms itself again, the work its     *)
(* handler queues, and loading and unloading against both.  Interrupts and *)
(* the worker thread run between any two calls of the loader.  A count is  *)
(* only printed: what is kept is how many counts are still due.            *)
(***************************************************************************)
EXTENDS Integers, Sequences

VARIABLES
  source,     \* the module that is loaded
  step,       \* which call of its load and unload code comes next
  armed,      \* the timer is pending
  handler,    \* which call of time_fuc comes next, 0 when it does not run
  queue,      \* the workqueue exists
  ready,      \* the work item is initialised
  pending, running,   \* the work item is queued; the worker executes it
  due,        \* history: expiries or queued works not yet counted
  rushed,     \* history: the timer expired before loading was over
  crashed

load == <<source, step>>
timer == <<armed, handler>>
work == <<pending, running>>
vars == <<load, timer, queue, ready, work, due, rushed, crashed>>

(* time_init and time_exit of time.c. *)
TimeCalls == <<"add_timer", "loaded", "del_timer_sync", "gone">>

(* time_init and time_exit of time_workqueue.c. *)
TimeWorkqueueCalls ==
  <<"add_timer", "create_workqueue", "INIT_WORK", "loaded",
    "del_timer_sync", "flush_workqueue", "destroy_workqueue", "gone">>

(* jin_init and jin_exit of test2.c. *)
Test2Calls ==
  <<"create_workqueue", "queue_work", "loaded",
    "flush_workqueue", "destroy_workqueue", "gone">>

Calls == CASE source = "time" -> TimeCalls
           [] source = "time_workqueue" -> TimeWorkqueueCalls
           [] source = "test2" -> Test2Calls

(* time_fuc of the two timer modules. *)
TimeFuc == <<"count", "mod_timer">>
TimeWorkqueueFuc == <<"mod_timer", "queue_work">>

Handler == IF source = "time" THEN TimeFuc ELSE TimeWorkqueueFuc

Position(call) == \E k \in DOMAIN Calls : Calls[k] = call /\ step = k

TypeOK ==
  /\ source \in {"time", "time_workqueue", "test2"}
  /\ step \in DOMAIN Calls
  /\ handler \in 0..Len(Handler)
  /\ due \in 0..2
  /\ {armed, queue, ready, pending, running, rushed, crashed} \subseteq BOOLEAN

(* Static data of a module that has just been loaded; only test2.c uses    *)
(* DECLARE_WORK.                                                           *)
Init ==
  /\ source \in {"time", "time_workqueue", "test2"}
  /\ step = 1
  /\ armed = FALSE /\ handler = 0 /\ queue = FALSE
  /\ ready = (source = "test2")
  /\ pending = FALSE /\ running = FALSE /\ due = 0
  /\ rushed = FALSE /\ crashed = FALSE
-----------------------------------------------------------------------------
(* The loader makes its next call. *)
Call(call) ==
  /\ ~crashed
  /\ Position(call)
  /\ step' = step + 1
  /\ UNCHANGED source

(* queue_work: nothing if the item is already queued; an oops without a    *)
(* queue, a BUG if the item is not initialised.                            *)
QueueWork ==
  /\ pending' = IF queue /\ ready THEN TRUE ELSE pending
  /\ due' = IF queue /\ ready /\ ~pending THEN due + 1 ELSE due
  /\ crashed' = ~(queue /\ ready)
  /\ UNCHANGED <<queue, ready, running>>

AddTimer ==
  /\ Call("add_timer")
  /\ armed' = TRUE
  /\ UNCHANGED <<handler, queue, ready, work, due, rushed, crashed>>

CreateWorkqueue ==
  /\ Call("create_workqueue")
  /\ queue' = TRUE
  /\ UNCHANGED <<timer, ready, work, due, rushed, crashed>>

InitWork ==
  /\ Call("INIT_WORK")
  /\ ready' = TRUE /\ pending' = FALSE
  /\ UNCHANGED <<timer, queue, running, due, rushed, crashed>>

LoadQueueWork ==
  /\ Call("queue_work")
  /\ QueueWork
  /\ UNCHANGED <<timer, rushed>>

(* rmmod, whenever it comes. *)
Unload ==
  /\ Call("loaded")
  /\ UNCHANGED <<timer, queue, ready, work, due, rushed, crashed>>

MutDelTimerSync ==   \* del_timer
  /\ Call("del_timer_sync")
  /\ armed' = FALSE
  /\ UNCHANGED <<handler, queue, ready, work, due, rushed, crashed>>

(* Takes the timer off, once its handler does not run. *)
DelTimerSync ==
  /\ Call("del_timer_sync")
  /\ handler = 0
  /\ armed' = FALSE
  /\ UNCHANGED <<handler, queue, ready, work, due, rushed, crashed>>

Drained == ~pending /\ ~running

FlushWorkqueue ==
  /\ Call("flush_workqueue")
  /\ Drained
  /\ UNCHANGED <<timer, queue, ready, work, due, rushed, crashed>>

(* Also waits for what is queued. *)
DestroyWorkqueue ==
  /\ Call("destroy_workqueue")
  /\ Drained
  /\ queue' = FALSE
  /\ UNCHANGED <<timer, ready, work, due, rushed, crashed>>

(* insmod of the module that has gone: its static data is new. *)
Reload ==
  /\ ~crashed /\ Position("gone")
  /\ step' = 1
  /\ armed' = FALSE /\ handler' = 0 /\ queue' = FALSE
  /\ ready' = (source = "test2")
  /\ pending' = FALSE /\ running' = FALSE /\ due' = 0 /\ rushed' = FALSE
  /\ UNCHANGED <<source, crashed>>
-----------------------------------------------------------------------------
(* The timer interrupt: HZ after it was armed, so perhaps before the       *)
(* loader, which may sleep, has done its next call.                        *)
Expire ==
  /\ ~crashed /\ armed /\ handler = 0
  /\ armed' = FALSE /\ handler' = 1
  /\ due' = IF source = "time" THEN due + 1 ELSE due
  /\ rushed' = (rushed \/ \E k \in DOMAIN Calls : Calls[k] = "loaded" /\ step < k)
  /\ UNCHANGED <<load, queue, ready, work, crashed>>

(* The next call of time_fuc; after the last one it returns. *)
Fire(call) ==
  /\ ~crashed
  /\ handler # 0 /\ Handler[handler] = call
  /\ handler' = (handler + 1) % (Len(Handler) + 1)
  /\ UNCHANGED <<load, rushed>>

ModTimer ==
  /\ Fire("mod_timer")
  /\ armed' = TRUE
  /\ UNCHANGED <<queue, ready, work, due, crashed>>

Count ==
  /\ Fire("count")
  /\ due' = due - 1
  /\ UNCHANGED <<armed, queue, ready, work, crashed>>

FireQueueWork ==
  /\ Fire("queue_work")
  /\ QueueWork
  /\ UNCHANGED armed

(* The worker takes the item off the queue before it executes it. *)
StartWork ==
  /\ ~crashed /\ queue /\ pending /\ ~running
  /\ pending' = FALSE /\ running' = TRUE
  /\ UNCHANGED <<load, timer, queue, ready, due, rushed, crashed>>

(* time_queue_work counts; work_handler_me only prints. *)
DoWork ==
  /\ ~crashed /\ running
  /\ running' = FALSE /\ due' = due - 1
  /\ UNCHANGED <<load, timer, queue, ready, pending, rushed, crashed>>

Loader ==
  \/ AddTimer \/ CreateWorkqueue \/ InitWork \/ LoadQueueWork
  \/ FlushWorkqueue \/ DestroyWorkqueue
TimeFucStep == ModTimer \/ Count \/ FireQueueWork
Worker == StartWork \/ DoWork

Next == Loader \/ DelTimerSync \/ Unload \/ Reload \/ Expire \/ TimeFucStep \/ Worker

Spec == Init /\ [][Next]_vars

(* The loader, the interrupt handler and the worker run on.  The two waits *)
(* for something that starts again and again get their turn: del_timer_sync*)
(* tries again while the handler, which runs once in HZ, runs; a queue is  *)
(* found drained between two expiries.  Nobody has to unload.              *)
FairSpec ==
  /\ Spec
  /\ SF_vars(Loader) /\ SF_vars(DelTimerSync)
  /\ WF_vars(TimeFucStep) /\ WF_vars(Worker)
-----------------------------------------------------------------------------
(* Unloaded code and data are left alone: when a module has gone, no timer *)
(* of it is armed, no handler and no work of it runs or is queued, and     *)
(* everything it took on before has been counted, a work that was queued   *)
(* while the worker was executing the item included.                       *)
NothingLeft == Position("gone") =>
  ~armed /\ handler = 0 /\ ~queue /\ Drained /\ due = 0

(* The one crash is that of time_workqueue.c when the timer expires before *)
(* its load code has made the queue and the item, which it does after      *)
(* add_timer: no unload, reload or later expiry finds either missing.      *)
CrashOnlyRushed == crashed => source = "time_workqueue" /\ rushed

(* rmmod comes back, whatever the timer and the worker are doing. *)
UnloadEnds == Position("del_timer_sync") \/ Position("flush_workqueue")
                ~> Position("gone") \/ crashed
=============================================================================
