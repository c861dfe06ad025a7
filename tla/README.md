# Verification of the drivers in this repository

The repository is a collection of small Linux drivers, the programs that use
them, and C exercises. Most of its own logic, and most of what is hard to
test, is in the drivers under `drv/`: bit-banged buses driven from several
processes, ioctls that make several register accesses, semaphores held across
waits, timers that arm themselves again, and modules that register a device
before they are ready for its calls. This directory holds TLA+ modules of
those drivers and programs, TLC configurations that model-check them, and
TLAPS proofs of what matters most about them for every value of the constants.

## Inventory

| Component | State | Operations | Hard part |
|---|---|---|---|
| IP1810 register access, `drv/ip1810/smi.c` | spinlock, MDC/MDIO pins and their direction; page and registers in the chip | `me_mdio_read`, `me_mdio_write`, `IP2Page` | two frames per access that must stay together and in step with the chip; an unlocked `IP2Page`; MDC is an input until the first read |
| IP1810 commands, `drv/ip1810/mdio.c` | locals of each ioctl; VLAN table and PHYs behind the chip | `demo_init`, `MDIO_READ`, `MDIO_WRITE`, `MDIO_COUNT`, `MDIO_PHY_READ`, `SWITCH_RESET` | ioctls run while `demo_init` programs the switch; busy loops; resets in the middle |
| IP1810 user program, `drv/ip1810/app.c` | a process's variables; the switch, which it shares with every other process | one invocation per option | sequences of ioctls that nothing keeps together; busy loops in user space |
| IP1810 link program, `link.c` | - | ioctls of a device that is not in the repository | - |
| IP1818 driver, `drv/gpio_mdio/` | pins; registers and PHY command in the chip | `PHY_READ`, `PHY_WRITE`, `MD_READ`, `MD_WRITE` | no lock at all |
| Poll drivers, `drv/poll/poll_select.c`, `poll_select2.c` | one message buffer with its count, a semaphore, one or two wait queues | read, write, poll, init, exit | waiting with the semaphore down, wake-ups, signals, failed copies, calls before the semaphore is initialised |
| RTC bus, `drv/rtc/hym1307/gpio_i2c_rtc.c` | spinlock, SCL/SDA; chip at the other end | `gpio_i2c_rtc_read`, `gpio_i2c_rtc_write`, two ioctls, init, exit | I2C by pin writes, acknowledges ignored, a lock initialised last |
| RTC clock, `drv/rtc/hym1307/rtc.c` | the chip's time | `HI_RTC_RD_TIME`, `HI_RTC_SET_TIME` | seven accesses that the ticking chip and other callers interleave with; BCD and hour modes |
| Completion driver, `drv/complete/` | a completion, a buffer, a position per file | read, write, llseek, init, exit | who is woken by which write |
| Timers and work, `drv/time/`, `drv/workqueue/test2.c` | a timer, a workqueue, a work item | timer handler, work handler, init, exit | loading and unloading against a timer that arms itself again |
| Linked list, `test/quicksort/node.c` | a doubly linked ring of cells from `malloc` | create, insert, delete, show | four pointers at a time; positions at both ends |
| Sorting and searching, `test/quicksort/` | arrays | quicksort (two of them), bubble sort (two), binary search | termination, equal elements, bounds |
| Skeletons and language exercises | none | - | - |

How they interact: the IP1810 commands call the register access below them and
run in the process that issued the ioctl, next to the chip's own engines;
`app.c` only issues those ioctls; `rtc.c` calls `gpio_i2c_rtc.c` once per
register; the poll drivers are called by select loops. The drivers do not
share state with each other.

What makes each of them correct: a register access takes effect at one instant
on the register and page its caller named; programming or flushing the switch
gives the result of an undisturbed run; every busy loop ends; a message is
neither lost nor overwritten unread; calls exclude each other and come back; a
bus is idle between calls; a time read or set is the chip's time; a module that
has gone has left nothing behind; a list is whole in both directions; a sorted
array has the elements it had. `PROJECT.json` lists the hazards behind these
at their lines.

## Modules

### `RegisterDevice` - what a register bus promises

An abstract device: each call of a thread is `called`, then takes effect at one
instant (`ApplyRead`, `ApplyWrite`), then returns. Both bit-banged buses are
shown to implement it, by TLC and, for the IP1810, by proof.

### `Ip1810Access` - register access of the IP1810

One action per stage of `me_mdio_read`/`me_mdio_write`: `Call`, `Acquire`
(`spin_lock`), `StartPage`/`EndPage` (the `IP2Page` frame), `StartAccess`, then
`EndRead` or `EndWrite`, `Release`, `Return`. A frame is a start and an end
step, so that frames of two threads can overlap; a frame that overlapped
another (`clash`) is garbled: it may select any page, read `Noise`, or write
`Noise` to one of the registers in `Struck`. `io[t]` is a thread's program
counter and arguments, `bus` the threads shifting. `mdcOut` is the direction of
the MDC pin, which only `smi_reset` on the read path makes an output.
`BarePagers` may call `IP2Page` without the lock, as `ip1829_phy_reg_read`
does.

`mdio_1` and `mdio_0` read, change and write the direction register for every
bit. A bare pager that has just read it when another thread's `smi_reset` makes
MDC an output (`stale`) writes the old value back (`WriteBack`): MDC is an
input again, until the next read. Under the lock the race cannot happen.

`AtomicRegisters` is the refinement `RegisterDevice!Spec` with the call mapped
to *called* until the second frame ends and to *applied* after it.

### `Ip1810Pins` - the frames clock by clock

The same threads, where a frame is the list of levels that `ic_mdio_wr`,
`ic_mdio_rd`, `mdio_z` and `smi_reset` put on the line, one `Clock` each. The
chip sees only the level of MDIO at the rising edges (`Hears`): a preamble,
start, code, register number, turnaround and data. `FramesDelivered` says that
this implements `Ip1810Access`: a frame means what the register access says it
means, at its last clock and not before. `Read_Reg` takes the register as a
byte, `ip1829_mdio_wr` with all its bits: the registers are below 256, where
the two name the same (`PinsAssumption`). What is not known of the chip is left
open: it may want the whole preamble of 32 ones or only one of them (`need`),
it may still expect bits of an earlier frame when the module is loaded
(`skip`), and a line that nobody drives has any level. The module is for
threads that take the lock; what overlapping frames do is in `Ip1810Access`.

### `Ip1810Script`, `Ip1810` - commands of the IP1810

`demo_init` and each ioctl are a list of instructions (`Ip1810Script!Script`),
one per register access and what the C code does with the value it read. The
list is run on the steps of `Ip1810Access`: `Issue` calls, `Shift` is any step
of the access, `Complete` takes the result and goes on or back to the head of
a busy loop, `Finish` is the ioctl's return. `SWITCH_RESET` is two steps,
`PullReset` and `ReleaseReset`; in between every frame is garbled.
`VlanEngine` and `PhyEngine` are the chip. Words are sets of bits, so that
`|=` is union and `&` intersection. `misc_register` is the first call of
`demo_init`, so users may issue ioctls from the first state on.

### `Ip1810App` - the user program of the IP1810

`Program` gives the instructions of every command line of `app.c`: options
`-a`, `-b`, `-q`, `-w`, `-u`, `-i`, `-e`, `-p`, `-r` and the forms by argument
count. Any number of processes (`Clients`) run one each, with the device open
or without. An access is `Issue` and then `Write` or `Read`: it takes effect at
one instant, which is what `AtomicRegisters` shows, unless it overlaps a bare
`IP2Page` or a reset of another process (`exposed`), when it may be spoilt.
`disturbed` and `was` are history for `FlushLands`: which processes another
one may have disturbed, and the VLAN table a process found. `Harmful` names the
command lines that can: those that send frames without the lock, reset the
chip, or write a register that `-e` needs. That includes 0xd5, which `-e` never
writes: the chip fetches it with the entry and stores it again.

### `OneSlot`, `PollSelect`, `PollSelect2` - the poll drivers

`OneSlot` has the state and the steps the two drivers share, one step per
statement that other threads can tell apart; the two modules put them together
in their own order and add their own reads. `pc` is where each caller is,
`sem` the semaphore's count, `count` is `buffer_char_count`. A caller in
`Pollers` selects before each call, one in `Sleepers` only for its own
direction, and then sleeps until a wake makes `select` call `demo_poll` again.
`Signal` ends an interruptible wait; `wait_event_interruptible`'s result is
ignored by both drivers, so a signalled writer overwrites. A `demo_poll` that
waits for the semaphore returns `-ERESTARTSYS` as its mask of events, which
`select` reads as "can be written" (`Interrupted`); `misled` is history: a
writer has been told so of a full buffer. A signal that wakes a sleeping
`select` makes it call `demo_poll` once more (`SignalDown`, then `SignalPoll`
if the semaphore is down, or `PollUp`). `Fault` is a failed copy, which returns
with the semaphore down. `MCPoll` runs the two drivers in one state space.

### `GpioI2cRtc` - the I2C master of the RTC

A call is the list of pin operations its C functions make (`i2c_start_bit`,
`i2c_send_byte`, ...), executed one per step under the lock. The slave is an
I2C chip that sees only the levels of the pins: starts, stops, address,
pointer, data and acknowledge bits. When the GPIO drives a 1 against the
chip's 0, which `i2c_stop_bit` does, either level may win (`winner`, the same
in a whole behaviour). `AtomicRegisters` is again the refinement of
`RegisterDevice`.

### `RtcClock` - the two time ioctls

One step per register access (each is atomic by `GpioI2cRtc`), beside `Tick`,
the chip's second with all its carries. `BCD`, `IBCD`, `Decode` and `Encode`
are the macros and the bit masks of `rtc_ioctl` as arithmetic. `since`,
`alone` and `ticked` are history variables for the properties.

### `Complete` - the completion driver

One step per byte of the two copies, so that other calls come in between, and
one for the end of each wait: `Woken` by a completion, `Interrupted` by a
signal, whose result the driver ignores. `done` and `all` are the kernel's
completion after `complete` and `complete_all`; `option`, the module
parameter, is chosen at the start. `given`, `taken` and `waited` are history.
A byte of the buffer is the thread that wrote it; what a read copies from
beyond the buffer is `"outside"`: the count is clamped as if the read began at
0, so that one from a later position copies on past the end (`complete.c:28`).
`OutsideOnlyPastEnd` says that nothing else leaves the buffer. Each thread has the device open on a file
of its own, as `app.c` has. `Forget` gives up the locals of a returned call,
so that calls that differ only in what is over are one state.

### `MiscLoad` - loading and unloading the drivers with locks

The init and exit code of `poll_select.c`, `poll_select2.c`, `complete.c` and
`gpio_i2c_rtc.c` as a list of calls, beside processes that open, call and
close. All four register the device first. A semaphore or completion used
before it is initialised goes through a null list head (`oops`); the spinlock
of the RTC bus is free in zeroed memory and is then reset under whoever uses
it. It is a ticket lock: `head` is the ticket served, `tail` the next one, so
that a reset under a caller may leave the lock held by nobody for good, and an
old holder's unlock may let a second one in. `.owner` keeps a module with open
files from being unloaded (`Unused`).

### `TimerWork` - timers and work items

`time.c`, `time_workqueue.c` and `drv/workqueue/test2.c`: the loader's calls,
the timer interrupt (`Expire`, then `time_fuc` call by call) and the worker
thread, which takes the item off the queue before it executes it. `due` counts
what was taken on and not yet counted by a handler.

### `DataList`, `NodeList` - the linked list

`DataList` is a sequence with insertion and deletion at a position typed in.
`NodeList` is `node.c`, one step per turn of a walk along the pointers, with
`malloc` and `free`; `KeepsList` is the refinement. Both say where the program
breaks: see the facts below.

### `Sorting`, `BinarySearch` - the sorting and searching programs

`quicksort` and `quicksort2` with the stack of calls still to be made (`todo`),
both bubble sorts, and the binary search, one step per turn of a loop, on every
array of a given length over a few numbers. `quicksort` reads the first element
of its range before it looks whether there is one (`quicksort.c:12`); `beyond`
is history, the positions read that are not in the array.

### `Ip1818` - the unlocked MDIO driver

`demo_init` and the four ioctls of `drv/gpio_mdio` are lists of frames
(`Script`): `StartFrame` is the first clock of `smi_reset`, `EndWrite` and
`EndRead` the last clock of the frame, and a `poll` frame is repeated until
bit 13 of the command register is set. Nothing keeps threads apart: frames
that overlap (`clash`) are garbled, may write a register and may leave the
chip out of step (`synced`), so that even a lone frame is taken for something
else until the chip is in step again. `Engine` is the chip carrying out the
command in 0xda; between a command and its data any other thread may give
another. `since` is history: what held when the thread's ioctl began, and
whether any other ioctl has overlapped it. The properties are about ioctls
that nobody disturbs, after any such past; nothing is claimed of the others,
since nothing in the code protects them. Numbers are masked as the code masks
them, and the bits of a frame are not modelled. The thread that loads the
driver may go on to use it.

### Modules for TLC

`MCIp1810`, `MCIp1810App` and `MCIp1818` give the constants of an instance.
`MCPoll`, `MCRtc` and `MCExamples` run several small modules that do not
interact as one: which of them runs is chosen in the initial state and the
others keep the values they start with, so that each is checked as on its own.

## Runs

| Run | Question | Bounds |
|---|---|---|
| `ip1810_access` | do locked accesses, clock by clock, mean what they say, find their own page and act atomically? | 2 threads, 2 pages of 1 register, 2 values: a second page to be on by mistake and a second value to read by mistake are what any violation needs; 1 bit per half of a register number and 2 bits per value, so that the order of bits matters, and a preamble as long as a frame, as in the code |
| `ip1810_load` | does `demo_init` program the switch next to users' ioctls, can anything but another count take away the counter that a count has selected, are writes kept once MDC is an output? | 2 users, alike up to their names (`UserSymmetry`), with 1 ioctl each at any moment of the load: a write, or a count of one of two ports, so that every overlap of two counts of different counters occurs; 2 ports, and 1 VLAN entry next to one that must not change (`app` flushes 2, `Programs` is proved for any number) |
| `ip1810_disturb` | do the busy loops end next to resets, bare page changes, direction write-backs and garbled frames, and do locked frames stay apart? | 1 port, 1 entry, 1 ioctl; garbled reads return the busy bit, the worst for a loop, and garbled writes may hit the command register |
| `ip1810_phy` | does `MDIO_PHY_READ` return the PHY's register? No | as above, 1 user with 1 ioctl |
| `app` | does `app -e` flush the VLANs next to any other command, what do two of them do to each other, does every command end? | 2 processes, one with `-e` and one with any command line, before, after or at the same time; 1 port and 2 entries, an entry that must not change; `-a` dumps 1 register, `-b` goes up to PHY 8, a count counts once; 1 spoilt access |
| `poll_safety` | exclusion, a semaphore that is put up again, no lost or overwritten message, in both drivers | 2 readers, 2 writers, one of each selecting, 1 signal, 1 failed copy, messages of 0 and 1 bytes |
| `poll_live` | do writes return and messages get read, in both drivers, unless an interrupted `demo_poll` misleads the writer? | 1 reader, 1 writer, 2 signals |
| `poll_signal` | does a writer that `select` told that it can write come back? No | 1 reader, 1 writer, 1 signal |
| `poll2_rivals` | do writes return with two readers of the second driver? No | 2 readers, 1 writer |
| `rtc` | bus idle between calls, absent devices read as ones, atomic registers; what a time read or set beside ticks and another caller means | bus: 2 threads, the chip and an absent device, 2 registers, bytes 0 and 89, which has both bits in both nibbles; clock: 2 callers with 1 call, 2 ticks, start times next to new year, where every field carries, and next to noon, both hour modes, halted or not |
| `examples` | the small programs, see below | completion: 2 threads with 2 calls, 2-byte buffer, counts below and above it, 1 signal, 1 failed copy; loading: 2 callers, 4 tickets; list: 3 cells, positions -1 to 5; sorting 4 numbers and searching 5, of 4 values, which gives every order and every pattern of equal elements |
| `ip1818` | is an undisturbed PHY command exact, and does it end, whatever came before? | 2 threads with 1 ioctl each and `demo_init` on one of them: its frames overlap the other thread's ioctl and its own ioctl follows alone; a garbled frame may leave a PHY write running or a value in the data register; numbers beyond 5 and 8 bits |

`examples` asks of the completion driver: what does a completed read return,
whom does a write let go, does every read return with `option` not 0. Of
loading: does something go wrong only if a call or a timer came in during the
init code (`OnlyHasteHarms`: a crash of `time_workqueue.c`, the use of an
uninitialised object, two holders of the I2C lock). Of unloading: is no timer,
handler, work or call in a module that has gone, and has every expiry and every
queued work been counted (`GoneForGood`). Of the list: is it whole in both
directions (`RingWhole`) and a sequence (`KeepsList`). Of sorting and searching:
is the result right (`RightResult`). And do sorts, searches, walks along the
list and `rmmod` end (`ProgramsEnd`).

Deadlock is checked in `ip1810_access`, where the system runs for ever. It is
switched off for the `Ip1810` runs, `app`, `ip1818` and
`rtc`, where the bounded calls or commands are used up in the end; for the poll
runs, where a failed copy leaves the semaphore down and everybody blocked,
which is what that code does; and for `examples`, where programs end and a read
may wait for a write that never comes.

What the failing runs show:

- `ip1810_phy`: the loop of `ip1829_phy_reg_read` compares `tmp&(1<<15)` with 1
  and never waits; the ioctl returns the contents of 0x14 before the chip has
  put the PHY's register there.
- `poll_signal`: `demo_poll` returns `-ERESTARTSYS` as a mask of events when a
  signal interrupts its `down_interruptible`. The unsigned mask has `POLLWRBAND`,
  so `select` tells a writer that it can write whatever the count is; the writer
  then waits in `demo_write` for the buffer to become empty, with the semaphore
  down that every reader needs.
- `poll2_rivals`: a reader that was told of data another reader has taken waits
  with the semaphore down, which every writer needs.

More that a reader of the code should know. The properties name these cases,
so that the passing runs show that there are no others.

- `MDIO_PHY_READ` of a PHY below 8, for which `app.c:117-120` expects an error,
  succeeds with 0xffff: -1 is stored in a `u16` before it is compared with -1
  (`mdio.c:133`, `Outcome`).
- `quicksort2` (`quicksort.c:53-61`) either sorts or, once `i` and `j` stand on
  two elements equal to the pivot, goes round its outer loop for ever
  (`Sorting!EndsOrStuck`). `quicksort`, which steps over equal elements, always sorts,
  but `main` does not call it; its call for an empty part at the end reads the
  element after the array and drops it (`ReadsInside`). `bubblesort2` sorts in descending order.
- `node.c`: deleting the position one past the last, position 1 of an empty
  list included, unlinks and frees the head, which `malloc` never gave
  (90-99); a list of no values writes through `newdata` before it is set (58).
  `contain_of` (38-41) finds the value of a node only where pointers have four
  bytes, and the model is of that. Everything else typed in is refused or done.
- `time_workqueue.c` adds the timer before it makes the queue and the item
  (45-48): a loader that sleeps for a second in `create_workqueue` crashes.
  Expiries that find the item queued are not counted a second time; expiries
  while it is executed are (`GoneForGood`).
- The poll and completion drivers crash on a call that comes in before their
  `sema_init` or `init_completion`, and only then (`OnlyHasteHarms`). An RTC
  call that is on the bus when `spin_lock_init` runs may leave the lock with two
  holders, or with none for good, long after loading is over (`overrun`).
- `app.c` without arguments calls `strcmp` on a null pointer (276) before it
  looks at the argument count, so that counting only happens if the compiler
  turns the two tests round; `-e` without the device spins for good, because
  the value it waits for is the -1 of a failed read (245); `-a` has no `break`
  and goes on with the PHYs (95-109); two `-e` at a time mix up the registers
  of their entries (240-258), but touch no entry beyond those they name
  (`OthersKept`).
- A read of the completion driver from a position above 0 copies what lies
  behind the buffer to its caller (`OutsideOnlyPastEnd`).
- Two `MDIO_COUNT` at a time may each return the other's counter: the select and
  the two reads are three accesses (`CounterSelected`).
- Noon in 12 hour mode is read as hour 24 and midnight as 12 (`ReadExact`).
- A write of a poll driver that a signal wakes overwrites an unread message
  (`UnreadKept` is about behaviours without signals).
- `HI_RTC_SET_TIME` writes the weekday it is given: `test.c:27` says "Sunday =
  0", the comment at `rtc.c:200` says "[1,7]"; the runs set 1 to 7.
- The IP1818 driver has no lock: two ioctls at a time may return each other's
  registers, and a poll whose command was garbled may never end.

### Fairness

- `Ip1810`: a thread inside a call keeps running (weak fairness of `Host`): the
  holder of a `spin_lock` is not preempted, and those who spin do not sleep. A
  ticket lock serves its callers in order (strong fairness of `Acquire`), and a
  frame has a last bit however often its sender writes the direction back
  (strong fairness of `EndPage`). The chip's engines run. Nobody is forced to
  issue an ioctl. `SWITCH_RESET` releases the reset line after its delay.
- `Ip1810App`: a process that has been started runs on, and the chip carries
  out its commands. Nobody is forced to start one.
- Poll drivers: a thread in the kernel keeps running; the semaphore serves its
  waiters in order (strong fairness of `Enter`); the select loop of
  `test_select.c` never stops (weak fairness of `Start` for pollers only).
  Signals and failed copies are never forced.
- `Ip1818`: a thread in the kernel runs on and the chip carries out its command.
  Nobody is forced to issue an ioctl, and the chip is not forced to get back in
  step.
- Completion driver: a thread that is not waiting, or whose completion is there,
  runs on. Nobody is forced to read or write.
- `TimerWork`: the interrupt handler and the worker run on. `del_timer_sync`
  tries again while the handler runs, which it does once in HZ, and a flush
  finds the queue drained between two expiries (strong fairness of the loader).
  Nobody has to unload, and the timer is not forced to expire.
- `NodeList`, `Sorting`, `BinarySearch`: the program runs on; nobody has to
  type.

## Proofs

All theorems hold for any threads, values and bounds that satisfy the named
assumptions of their modules.

- `Ip1810AccessProofs`. `LockInv` says who is where: a thread is inside the
  critical section exactly when it holds the lock, and on the bus exactly when
  it is in one of the two shifting phases. It is inductive with `TypeOK` and
  gives `LockedFrames`. Without bare pagers `PageInv` adds that no frame clashes,
  that nobody is about to write the direction register back, and that the
  holder between its frames is on its own page if its frame was clocked; the
  type invariant is not enough because the page is chip state that any thread's
  `EndPage` changes. It gives `PagesKept` and `Stored`, that a finished write is
  in the register it named. If MDC is also an output from the start it gives,
  with one lemma per action, `Atomicity`: every step is a step of
  `RegisterDevice` or a stutter.
- `Ip1810Proofs`, on top of `Ip1810AccessProofs`, for any number of users, ports
  and entries. Its theorems are about users that are `Gentle` (they read, write
  and count under the lock: a reset or a bare `IP2Page` may garble anything).
  `HostInv` ties each thread's register access to the instruction that its
  ioctl is at (`Match`) and shows that MDC is an output in `demo_init` and in a
  count after their first instruction, because that is a read (`Driven`): with
  this each access has its effect on the very register that the instruction
  names. `Counts` (`CounterSelected`) follows step by step: only the fourth
  access of a count changes the command register, whatever counters the users
  count, as long as no `MDIO_WRITE` names it (`CommandLeftAlone`).
  `Programs` (`SwitchProgrammed`) needs that nobody writes to page 2
  (`TableLeftAlone`); its invariant `LoaderInv` follows `demo_init`: what it has
  read (`Fetched`), which ports and entries are programmed, and for the entry it
  is at what the chip's command and field registers hold after each of its
  thirteen instructions (`EntryState`), before and after the chip's engine has
  run. The two loops are functions of the instruction's number (`Ports` and
  `Table` in `Ip1810Script`), so that their length is any. That a bit of a number
  is the bit that `Word` says, by which two entries have different commands, is
  proved by halving the number bit by bit (`WordInjective` of
  `Ip1810ScriptProofs`, which also says in `TableEffect` what the chip's table
  engine does with a command that names an entry).
- `Ip1810AppProofs`, for any number of processes, command lines, ports and
  entries. `FlushAt` and `Where` say what the instruction of `-e` at each number is.
  `Roles` is the part of the invariant that everything needs: who is in an access
  is running and has an instruction left. For `NeverBeyond` (`OthersKept`) `Tidy`
  adds, while nothing but `-e` and what cannot spoil one has been started, that no
  access is garbled, that nothing will reset the chip, and that a command to
  store names an entry of `-e`, whatever the field registers hold: that is why two
  `-e` can mix up their entries and touch no other. For `FlushDone` (`FlushLands`)
  `Alone` says that beside an undisturbed `-e` nothing runs that could spoil it,
  and `FlushState` what the registers and the table are after each of its
  instructions, with the chip's engine before or after its turn. The
  assumptions (`AppAssumption`) are on sizes: the port registers stay below 0x2f,
  where the other registers of `-e` begin, an entry's number has fewer than 14
  bits, and the chip has the registers and entries that `-e` names.
- `Ip1818Proofs`. `Apart`: while an undisturbed ioctl runs, nobody else is in one,
  no frame is garbled, and a chip that was in step stays in step; before and
  after it anything may happen, and the types (`TypeCorrect`) hold of whatever
  garbled frames write. `ReadSoFar` and `WriteSoFar` say how far the command of an
  undisturbed ioctl is, in its registers or in the chip; with them the invariant
  is inductive (`Inductive`) and gives `PhyReadExact` and `PhyWriteLands`.
- `PollProofs`. `SlotInv`: the semaphore is down exactly when one thread is in a
  locked place or has returned without `up`; places after a test of the count
  still have the count they saw. One lemma for each of the shared steps, then
  `FirstKeeps` and `SecondKeeps` for the drivers; types, exclusion, that the
  semaphore is down for a call inside only (without signals and failed copies),
  that a read clears what it copied, and that without signals a write finds the buffer empty
  are proved of `MCSpec`, the two drivers as the runs check them. It assumes
  (`PollAssumption`) that `buffer_char_count` of the first driver begins at 2, as
  in `poll_select.c`.
- `RtcProofs`, the bus: for any threads, device addresses, registers and bytes,
  and for either level of SDA when driver and chip fight for it. None of the
  three properties is inductive, because a call breaks each of them hundreds of
  times on its way. `At(c, k)` says what the first `k` operations of a call have
  made of the lines and the chip: how many bits of which byte the chip has heard
  or put out, who holds SDA, what is in `rx`, and whether the chip has served the
  call. `BusInv` adds that the lock stands for a call in progress, that the bus
  is idle without one, and which bytes the callers hold. Each function of the
  driver has a lemma that its operations take one such state to the next
  (`StartStep`, `SendStep`, `AckStep`, `FetchStep`, `StopReadStep`,
  `StopWriteStep`), for any byte; `ReadOps` and `WriteOps` say where in a call
  each of them begins, and `AtStep` puts them together. A device that is not there
  is the same proof with a chip that is off. `AtStep` gives `Effect` too: the one
  step of a call that stores or fetches the byte, which is the step of
  `RegisterDevice` in `BusIsAtomic`; all others stutter. It assumes
  (`I2cAssumption`) that addresses and data are bytes, that a device's write
  address is even, and that the chip is one of the devices.
- `RtcProofs`, the clock. `BcdRoundTrip` and `SetThenRead` are
  arithmetic facts about the macros; the invariant for `SettingLands` ties the
  registers already written to the caller's time while nobody else is in an
  ioctl and the seconds have not carried; `ReadStarts` needs that no later step
  of any caller halts the chip. For `ReadsExactly` the invariant `ReadSoFar` says
  that the fields read so far are those of the chip unless it has ticked. For
  `NeverBehind` that is not enough, since a tick may carry into fields not yet
  read: `Ahead` says that the fields read so far, completed with those the chip
  has now (`Mix`), are no earlier than the time at which the ioctl began. A tick
  keeps this because the registers are read from the seconds up: a carry into
  a field still to be read only moves the mixture on.
  `BothHalves` shows that the module that the run checks keeps to both halves, and
  `TypesCorrect` follows.
- `ExamplesProofs`, from `ExamplesAssumption`: a lock has no fewer tickets
  than callers, which the kernel's spinlock relies on; arrays are not empty; the
  positions typed in have a least one. All small programs are proved about with
  their own specification. `Programs` shows that
  when one of them is chosen to run (`MCSpec`) each keeps to its own, and the
  properties that the run checks (`TypesOK`, `OnlyHasteHarms`, `GoneForGood`,
  `RingWhole`, `KeepsList`, `RightResult`) follow.
  - Completion: `InBounds` (a clamped count and what is copied of it fit the
    buffer) makes the types inductive; `ReadingPastEnd` says which bytes of a read
    came from behind the buffer; `Balance` (completions given are taken or
    left) gives `OnePerWrite`; `Filled` (what a write in progress has copied is
    written, and a read is let go only after a completed write) gives
    `ReadsAreWritten`.
  - Timers: for each module, which objects exist and what may be armed, queued or
    running at each of the loader's calls (`TimeInOrder`, `WorkqueueInOrder`,
    `Test2InOrder`).
  - Loading: `Loading` says who may be in a call while the loader is where it is.
    `InLine` is the ticket lock: the callers in the queue have different tickets,
    from the one served up to the next one, so that no two are served. It holds
    until the lock is made new under one of them.
  - List: `Laid` says that a sequence of cells is the ring in both directions, with
    the free cells outside it, and `Walking` where on it a walk stands.
    `NodeIsList` follows the pointers as the recursive function of the refinement
    does; the induction along them is the fact that a set of numbers has a least
    one, about the positions at which the two would differ.
  - Sorting: the array is at any time a permutation of the input (`Kept`); two
    elements in the wrong order are in a range that is still to be sorted
    (`Settled`); of the range being parted, what the inner loops have passed is
    on its side of the pivot (`Parted`); ranges to be sorted do not touch
    (`Untouching`), so that there are never more of them than positions. `Rowed`
    is the same for the bubble sorts, with the largest so far at the end. `ReadsStep` follows what is read
    outside the array.
  - Search: the number looked for is nowhere below `low` and nowhere above `high`
    (`Narrowed`).

Only model-checked:

- every liveness property, which no prover here can derive from fairness;
- `FramesDelivered` of `Ip1810Pins`, the frames of the IP1810 bit by bit. The
  argument is the one of `BusInv`, but that a number comes back from its bits for
  every width (`Number`, a fold) is an induction over data, which the provers
  cannot do; the bytes of the RTC bus have eight bits.

## Plan

1. Done: the modules above, which are every part of the repository that keeps
   state and whose behaviour the source determines.
2. Done: proofs of every safety property and refinement that the runs check,
   but for `FramesDelivered`.

## Not modelled

- `drv/ip1810/link.c`: the driver of its device `/dev/ip1810_link` is not in
  the repository, so what its ioctls do is not known.
- `drv/workqueue/test.c` does not compile. `drv/i2c/i2c.c` keeps no state.
- Functions that nothing calls: `stmmac_gpio_mdio_read` (`ip1810/smi.c`),
  `stmmac_gpio_mdio_reset` (`gpio_mdio/smi.c`), `add_data_tail` and
  `intput_data_node` (`node.c`); `ip1810_reset`, whose only call is commented
  out, does what `SWITCH_RESET` does.
- The clocks inside a frame of the IP1818 driver, whose frames overlap without
  a lock: what the chip makes of a mixture is left open in `Ip1818`.
- The error returns of `copy_from_user` and `copy_to_user` in
  `drv/ip1810/mdio.c`: the first leaves before any access, the second after the
  last one.
- `app.c` goes round its `getopt` loop for every option of a command line, and
  answers unknown ones with a line of text; `Ip1810App` has one option per
  process, with the number `-p` or `-r` gives. Several in one line are not modelled.
- Device addresses of the RTC bus that are odd: the driver sets bit 0 of any
  byte (`gpio_i2c_rtc.c:385`), `GpioI2cRtc` adds 1 to an even one.
- Times that the clock chip cannot keep: `rtc.c:162-201` checks neither date,
  month nor weekday, and what the chip makes of them is not known.
- The direction of MDC in the IP1818 driver: the only function that makes it an
  output, `stmmac_gpio_mdio_reset`, is never called, and the module takes the
  pin as an output from before.
- In `app.c`: the value the driver reads back after `MDIO_WRITE`, which nothing
  uses, and what is printed.
- Loading and unloading of the IP1810 driver beyond `demo_init`: its spinlock is
  initialised where it is declared. A binary search on more than 2^30
  elements, where `low+high` overflows: the array of the program has five.
- Timing of the pins in microseconds; the GPIO multiplexer; the language
  exercises, which keep no state.
