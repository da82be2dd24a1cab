# A verification development for Multipandos26

Multipandos26 is a teaching kernel for the uRISCV machine in two phases:
phase 1 manages process control blocks (PCBs) and semaphore descriptors in
lists and trees, phase 2 is a nucleus with system calls, a scheduler and
interrupt handlers on top of them. This directory holds TLA+ models of both,
the TLC configurations that check them on small instances, and proofs for
instances of every size.

`src/CMakeLists.txt` builds phase 1 with its test program (`p1test.c`) and the
kernel log. Phase 2 is not in the target and does not compile as it stands (the
pseudo-clock and the current process are spelt in two ways, `interrupts.c` uses
names it does not declare). The nucleus is modelled as its handlers read, with
the two spellings taken for one variable and each handler invoked for the event
it is written for.

## 1. Inventory

| Component | Source | State | Operations |
|---|---|---|---|
| PCB lists | `phase1/pcb.c`, `headers/listx.h` | `pcbFree_table`, `pcbFree_h`, the `p_list` links | `initPcbs`, `allocPcb`, `freePcb`, `mkEmptyProcQ`, `emptyProcQ`, `insertProcQ`, `headProcQ`, `removeProcQ`, `outProcQ` |
| PCB trees | `phase1/pcb.c` | `p_parent`, `p_child`, `p_sib` | `emptyChild`, `insertChild`, `removeChild`, `outChild` |
| Active semaphore list | `phase1/asl.c` | `semd_table`, `semdFree_h`, `semd_h`, `s_key`, `s_procq`, `p_semAdd` | `initASL`, `insertBlocked`, `removeBlocked`, `outBlocked`, `headBlocked` |
| Nucleus, system calls | `phase2/exceptions.c` | ready queue, `current_process`, `processCount`, `softblockcount`, semaphore values | NSYS1-NSYS10, `processKiller`, `passUpOrDie`, the decoding |
| Scheduler | `phase2/scheduler.c` | the same | `scheduler` |
| Interrupt handlers | `phase2/interrupts.c` | the same, device registers | `handleNonTimerInterrupt`, `handlePLTInterrupt`, `handleIntervalTimerInterrupt` |
| Start-up | `phase2/inizialize.c` | pass-up vector, all the lists | `main` |
| Device registers and CPU time | `exceptions.c`, `interrupts.c`, `scheduler.c` | the registers, `p_time`, the start of a slice, the timers | `doIO`, the acknowledgement of an interrupt, `updateCPUtime`, `getCPUTime`, LDIT, setTIMER |
| Kernel log | `klog.c` | a ring of lines | `klog_print`, `klog_print_hex`, `klog_print_dec` |
| Tests | `p1test.c`, `p2test.c` | | how the operations are meant to be used |

How they interact. A process runs until a system call, a fault or an interrupt.
The handler runs to its end with interrupts masked, on one processor, and ends
in an LDST: of the interrupted process, or of the one `scheduler()` takes from
the ready queue. Handlers move PCBs between the free list, the ready queue and
the semaphores' queues by calling phase 1, which has no state but these lists.
No call is made in the other direction.

What is hard. There is no preemption inside the kernel; the difficulty lies in
sequences of system calls, kills and interrupts that no test runs: a kill of
any process at any time, with the progeny in any mixture of places; counters
that are adjusted in several handlers; semaphore values that must agree with
queues in another module; links that say where a PCB is; and the ends: no
ready process, no descriptor, no PCB. `PROJECT.json` lists the hazards line by
line, each with the properties that watch it.

What makes each component correct:

- *PCB lists*: every PCB is in one list, links can be walked both ways,
  priority queues serve the highest priority first and equals in order of
  arrival; freed PCBs are allocated again, in the order they were freed.
- *PCB trees*: parents and children agree, a kill takes the whole progeny.
- *ASL*: a descriptor is active exactly while somebody waits; none leaks;
  `MAXPROC` of them are enough for `MAXPROC` processes.
- *Nucleus*: each process is in one place; the counters count; nobody sleeps on
  an open semaphore; waiters do not overtake; the clock wakes all its waiters.
- *Device registers, decoding*: `doIO` and the interrupt handler agree on the
  registers and the semaphore of every unit; each cause reaches its handler.
- *CPU time*: what the processes are charged is the time that passed.
- *Kernel log*: nothing is written outside the buffer, nothing old shows
  through, and a number is printed with its digits in order.

## 2. Modules

| Module | What it is |
|---|---|
| `ProcQueue` | The process queues as pure operators on sequences. |
| `Listx` | The pointer assignments of `listx.h`, on functions `next` and `prev`. |
| `PcbSpec` | What `pcb.h` promises: a free list, priority queues, a parent and a sequence of children. |
| `PcbLinks` | The lists and trees of `pcb.c` with the pointers of `Listx`. Implements `PcbSpec`. |
| `AslSpec` | What `asl.h` promises: a queue per key, and room for everybody. |
| `Asl` | The two descriptor lists of `asl.c`. Implements `AslSpec`. |
| `NucleusSpec` | What the nucleus promises, in sets: who is free, ready, running or waiting for what. |
| `Nucleus` | The system calls, the scheduler and the interrupt handlers, on queues like those of `AslSpec` and trees like those of `PcbSpec`. Implements `NucleusSpec`. |
| `Killer` | The recursive functions of `exceptions.c`, call by call, against the one step that `Nucleus` makes of them. |
| `DeviceMap` | The addresses and semaphores of the units, as the hardware, `doIO` and the interrupt handler have them. |
| `Devices` | The status registers: commands, completions, acknowledgements (uses `DeviceMap`). |
| `Machine` | CPU time, the two timers, and who waits for which unit (uses `Devices`). |
| `Decode` | From the cause of an exception to its handler. |
| `Klog` | The kernel log. |
| `MCNucleus`, `MCNucleusOrder`, `MCAsl`, `MCPcbLinks`, `MCMachine` | Instances for TLC. |
| `ProcQueueProofs` | Lemmas on sequences, queues and loops. |
| `NucleusProofs`, `NucleusOrderProofs`, `NucleusTreeProofs` | Places; the order of waiters and ready processes; the tree, the refinement of `NucleusSpec` and the recursive functions. |
| `AslProofs`, `PcbLinksProofs` | The descriptor lists, the pointers. |
| `MachineProofs`, `KlogProofs` | Decoding, devices and CPU time; the log. |

**ProcQueue.** A queue is the sequence of the PCBs met from the sentinel on.
`InsertPos` follows the two scans of `insertProcQ`: before the first PCB of a
lower priority, else behind the last of the same priority, else at the tail.
In an unsorted queue (the ready queue, since `yield` appends) this is what the
code does, not what a priority queue would do. `Without` and `InsertAll` stand
for the loops that take PCBs out one by one and insert several.

**PcbLinks.** `link` has the `next` and `prev` of every `p_list` and list head,
`kin` those of every `p_child` (the head of a list of children) and `p_sib` (the
place of a child in it), `p_parent` the parents. Each list function of `Listx`
is the sequence of its assignments, `Walk` is the loop `list_for_each`. `free`
records what the user of the module knows: which PCBs it holds. A user frees no
PCB that stands in a queue or in a tree, as in `p1test.c` (the nucleus does: see
the findings), and inserts none below itself.

**Asl.** One action per function of `asl.c`, each with its early returns; `ret`
is what it returned. Keys are addresses, compared by `<`. A PCB is blocked only
when it is not blocked already, as in `p1test.c` and in phase 2, except for
p1test's one call too many, which is refused before the PCB is touched.

**Nucleus.** One action per system call and handler, each with all it calls:

| Code | Action |
|---|---|
| NSYS1 `createProcess` | `CreateProcess` |
| NSYS2 `terminateProcess`, `processKiller`, `findProcess` | `TerminateSelf`, `TerminateProcess`, `TerminateUnknown` |
| NSYS3 `passeren`, NSYS4 `verhogen` | `Passeren`, `Verhogen` |
| NSYS5 `doIO`, NSYS7 `waitForClock`, `semaphoreP` | `DoIO`, `DoIOBadLine`, `WaitForClock` |
| NSYS10 `yield` | `Yield` |
| `passUpOrDie` without a support structure | `Die` |
| `handleNonTimerInterrupt` | `DeviceInterrupt` |
| `handlePLTInterrupt`, `handleIntervalTimerInterrupt` | `PLTInterrupt`, `IntervalTimerInterrupt` |
| `scheduler` | `Dispatch`, the last part of every action that calls it |

NSYS6, 8 and 9 read the CPU time, the support pointer and the pid and change
nothing the model has. `cpu` says whether a process runs, or how the kernel
left its own code: `"nullstate"` after `scheduler()` with an empty ready queue,
which loads the state of PCB NULL; `"returned"` after a handler without an LDST,
`"badlist"` after a PCB is freed inside the ready queue. What the machine does
after that is not modelled: these states have no successors, which is why the
nucleus runs say `CHECK_DEADLOCK FALSE`. `Asl` and `PcbLinks` are checked for
deadlock.

Abstractions: a pid names one live PCB; a set of children in place of the
sibling list, which `PcbLinks` has; a process may have a support structure or
not; a semaphore descriptor exists while its queue is not empty, which `Asl`
shows to be what the lists do; any free PCB may be allocated; processes do P and
V on `UserSem` only, as in `p2test.c`.

**Killer.** `Nucleus` takes a victim and its progeny away at once, and finds a pid
in the set of PCBs that the search reaches. In the code both are recursions:
`processKiller` unlinks a child, calls itself for it, and frees a PCB when no child
is left; `findProcess` climbs to a PCB without parent and `processFinder` descends.
The first takes the tree apart while it walks through it, so that whether it reaches
the whole progeny, and the victims' siblings never, is a question of the order of its steps.
`processKiller(p)[i]` is the set of states in which the recursion may be after `i` calls and
returns, whatever child comes first in a list, with a stack of open calls; `KillerKills`
says that after two steps for each PCB one state is left and that it is the next state of
`Kill`. `findProcess(target)[i]` and `FinderFinds` do the same for the search. They
have no actions of their own because no interrupt comes between two calls.

**NucleusSpec.** A process is free, ready, running or in the set `waiting[s]` of one
semaphore; `parent` is the only link. `Schedule` picks *any* ready process and `V`
any waiter of the highest priority. There are no queues, counters, descriptors
or devices, no p_semAdd, no lists of children. `Nucleus` maps its free list, parents,
priorities and running process to themselves, each queue to the set of its
members, and every way of leaving the kernel without an LDST to `halted`. The
spec keeps the two things that the code does and no one would promise: the caller
of a kill is not ready afterwards, and `Halt` is possible at any time. P on a device or
the clock (`Wait`) always blocks: nothing ever raises their value, so that only the
semaphores of the processes have one. `NucleusSpec` is short enough to be read as the description of the system calls;
`ImplementsNucleusSpec` says that the handlers, with all their lists, add nothing to it.

**DeviceMap, Devices.** A unit is what executes commands: a device of the lines 3
to 6, or one half of a terminal. `DoIOSem` is the arithmetic of `doIO` on the
address of a command register, `GetDeviceRegAddr`, `TermBase` and
`GetSemaphoreIndex` are those of the handler. A unit is ready, busy, or done,
which is when it interrupts; `Written` gives a command to whatever unit has its
command register at the address, if any has, and `StatusIsZero` is the test with
which the handler tells the halves of a terminal apart. What a device returns, and
what it does with a command while it is busy, is left out.

**Machine.** Time passes in `Tick` only, while a process executes; every other
action is a whole exception. `UpdateCPUtime` is what NSYS3, 5, 7 and 10 do
first. `Dispatch` is `scheduler()` with its `LDIT(5)`; it loads no time slice and
no start time, because the code does not. A timer interrupt that is due is taken
before the process's next instruction. `TerminateProcess(D)` ends any set of the
running and blocked processes: the trees are in `Nucleus`. `DoIO` is called by
one process at a time for a unit, since the callers in `p2test.c` exclude
each other with a semaphore of their own. The handler of the devices changes
registers and wakes nobody, which is what the code does (`device_interrupt`
below). `used`, `commander` and `slices` are history variables.

**Decode.** A cause is what `getCAUSE()` returns. This module assumes that it is
the register of the CPU, with the interrupt flag in bit 31 and a code below: the
codes are those of the `case` labels in `interrupts.c` and of the handlers in
`p2test.c`.

**Klog.** A character is a code, a string a sequence of them, and the log is
printed to character by character (`Feed`, `Put`). `Digits` is the do-while loop of
`klog_print_dec` and `klog_print_hex`.

## 3. Runs

| Run | What it shows | Instance |
|---|---|---|
| `nucleus` | places, counters, values and the tree stay consistent; every handler is a step of `NucleusSpec`; nobody is lost but the caller of a kill; semaphores and `softblockcount` are put wrong by killed waiters only; who is woken was in front of all that stay; the recursion that kills and the one that searches end, with what `Nucleus` says | 3 PCBs, 2 priorities, with and without support, one user semaphore, one device, the clock |
| `nucleus_order` | blocked processes are sorted, first come first served; ready processes run in turn, a tick keeps the order of those it wakes | 5 PCBs, 2 priorities, the clock |
| `nucleus_live` | a waiter of the clock is woken, killed, or the machine stops | 3 PCBs, 2 priorities, one user semaphore, the clock |
| `asl` | the descriptor lists implement queues without descriptors | 3 PCBs and descriptors, 4 keys, 2 priorities |
| `pcblinks` | the pointers implement free list, priority queues and trees | 4 PCBs of 2 priorities, 2 queues |
| `machine` | charges of CPU time, waiters and acknowledgements of units | 3 processes, 2 devices of line 3, the transmitter of terminal 0, both timers |

*Bounds.* `MinSem` and `MaxSem` are the range of a semaphore's value. P and V of the
processes have them as guards: without them the values grow without end. `MinSem` is
-2 with three PCBs, as many waiters as there can be while one process runs; `MaxSem` is 1,
so that a P passes without blocking and a V finds a value at its top. The value of a
device or of the clock falls with every NSYS5 and NSYS7 and is never raised, and no one
tests more than its sign (the device handler takes it for an address, at which there is no
semaphore whatever it is). There `MinSem` is no guard: the model stops counting at it
(`Lowered`), and a process may wait for the clock any number of times. In `nucleus_order`,
which has no other semaphores, -1 is enough. What these calls have as a guard is
`MaxSoft` = 3, a bound of `softblockcount`, since each killed waiter leaves it one higher for
ever. In `nucleus_order` the constraint `ThreeGenerations` stops at trees with a
great-grandparent, and every process has a support structure: nobody `Die`s, which
would be the same step as `TerminateSelf`. In `machine` the clock stops at `MaxTime` = 4, and the
intervals are `PSECOND` = 3, `DISPATCH` = 2 (the 5 of `LDIT(5)`) and `TIMESLICE` =
2. Time only stops there, and the processor stops with an empty ready queue, so
that these runs have `CHECK_DEADLOCK FALSE` too. Everything else is finite by
itself.

*Why they are enough.* Three PCBs give a grandchild, a kill of a middle node,
and two waiters on one semaphore or on two, one of whom V wakes. In `nucleus_live` one
process can wait at the clock while another of a higher priority comes back to it again and
again, so that a tick that woke only the head would starve the first. Five PCBs give
three waiters, one of whom is killed between two others, and two or three waiters that
a tick wakes while one process runs and others are ready: with two waiters there are two
ready processes, and a yield leaves them with the lower priority in front. So the waiters
are inserted into a queue that is not sorted, in which `WokenInOrder` is not obvious. One
waiter that V takes from in front of three is not in a run; theorem `NobodyOvertakes` has it.
Four keys for three descriptors is one too many, so that all three descriptors are in use and one more is asked for. Four PCBs and
two queues give every way of moving a PCB between lists with neighbours on both
sides, and a child with a brother on either side, children of its own and a new
parent. In four units of time the interval timer expires twice, or the time slice
does, with a yield, a block or a kill before, between and after; two devices on
one line compete for the handler. The theorems then cover every number of PCBs,
processes, semaphores and units, and every length of the intervals.

*Symmetry.* The PCBs of `Nucleus` are interchangeable (`Init` starts from any of
them, the free list is a set), the processes of `Machine` too, and in `PcbLinks`
those of one priority and the two queues: nothing is chosen among them by
`CHOOSE` except the position of a PCB in the initial table, which is unique. It
is used in safety runs only, not in `nucleus_live`. `Asl` uses none: its keys
are ordered.

*Fairness.* `FairSpec` has weak fairness of `IntervalTimerInterrupt` and of
nothing else: processes may run for ever and never call. The interval timer is
a hardware timer; its handler reloads it, and a process runs with all
interrupts enabled: `inizialize.c` sets `mie` to `MIE_ALL` for the first process,
and `p2test.c` does so in the states it creates its processes with. One detail
of the code bears on this: `scheduler()` means to load the PLT, but its
`LDIT(5)` loads the interval timer, so a dispatch sets the next tick to 5 units
of time from then. At the clock rate of `config_machine.json` (1 MHz) that
expires before the dispatched process gets to its next trap, so ticks come
even when processes do nothing but block and yield; on a much faster clock
this would have to be looked at again.

## 4. Findings

Six runs end in a violation. Each checks a statement of the repository.

| Run | What the code does |
|---|---|
| `scheduler_idle` | The tests for an empty ready queue stand behind the LDST (`scheduler.c:34`) and are never reached: when the queue is empty the state of PCB NULL is loaded. |
| `softblock_exact` | `processKiller` tests `p_semAdd` after `outBlocked` has cleared it (`exceptions.c:84`): `softblockcount` stays too high by one for each killed waiter of a device or the clock, and for nothing else (`SoftBlockDriftsByKills`). In the run a process that waits for the clock is terminated by its child, which ends with it: nobody is blocked and the count is 1. |
| `device_interrupt` | `removeBlocked` gets the value of the semaphore for its address (`interrupts.c:131`): the waiter of a device is never woken. |
| `kill_ready` | A ready victim is freed without leaving the ready queue (`exceptions.c:89`). |
| `kill_other` | Who terminates another process is itself never run again (`exceptions.c:127`): it is neither resumed nor queued. (It is the only one this happens to: `OnlyKillersGetLost`.) |
| `clock_ticks` | `scheduler()` says "Load 5 milliseconds on the PLT" and loads the interval timer (`scheduler.c:26`): a dispatch moves the next tick of the pseudo-clock. |

Because of the first, a correct idle machine is not among the behaviours, and
because of the fourth `PlacedOnce` is conditional: it holds until a ready
process is killed. The other invariants hold in the stopped states too.

What the modelling brought up besides, without a run of its own. The first two
and the last are theorems about functions of their input, with no behaviour to
run.

- *Decoding.* `exceptionHandler` takes the code of an exception from bits 2 to 6
  of the cause and looks for interrupts in bits that lie above the code
  (`exceptions.c:364-367`), so that no cause as `Decode` has them leads anywhere but to
  `programTrapHandler` (`EverythingIsATrap`). With the code as it stands,
  `p2test.c` ends at the first system call, of its first print. The interrupt handler in its turn
  masks the cause without shifting it and serves only the printers
  (`OnlyPrintersAreServed`). The nucleus is modelled as if both decoded right,
  since nothing after the first exception would be left otherwise.
- *Terminals.* `doIO` computes one semaphore for both halves of a terminal
  (`ReceiversShareTheirTransmitters`), while the handler has one for each; the
  terminals 1 to 7 are addressed outside the device area
  (`OtherTerminalsUnanswered`). What `p2test.c` uses, terminal 0's transmitter, is
  right (`SemaphoresAgree`, `RegistersAgree`).
- *Overcharging.* The end of a time slice charges the process and leaves the start
  time where it was (`interrupts.c:166`), so that the slice is charged once more at
  the next system call. The second half of `ChargedOnce` is conditional
  for this reason. `p2test.c:384-388` has "error: more cpu time than real time" for
  what can come of it.
- *Arguments of NSYS1.* The support structure is taken from `a2` and the priority
  from `a3` (`exceptions.c:54-67`), where `p2test.c:304` passes the priority first.
- *A killed waiter* of a user semaphore does not give back what its P took; the
  comment at `p2test.c:600-602` is about this. `NoLostWakeup` is stated as an
  inequality accordingly, and `DebtByKillsOnly` says that killed waiters are all
  that the two sides differ by.
- *Start-up* calls `exceptionHandler()` (`inizialize.c:32`) and stores what it
  returns where the address of the handler belongs.
- *NSYS2 of an unknown pid, `doIO` of a bad address* leave the handler without an
  LDST.
- *The log* prints the digits of any number above 9 in reverse order
  (`DecimalsReversed`).

## 5. Proofs

Proved by TLAPS, for every set of PCBs, semaphores, priorities, processes and
units. Those with a star state a property of a run.

| Module | Theorem | What it says |
|---|---|---|
| `NucleusProofs` | `TypeCorrect`* | `[]TypeOK` |
| | `NoWakeupIsLost`* | no more waiters than the value owes |
| | `EveryPcbPlacedOnce`* | each PCB is in one place |
| | `EverySemAddRight`* | `p_semAdd` names the one queue that holds the PCB |
| | `DescriptorsSuffice` | whatever the running process blocks on, there is a descriptor |
| `NucleusTreeProofs` | `ProcessesCounted`* | `processCount` counts the PCBs that are not free |
| | `ProcessesAreOneTree`* | they form one tree |
| | `NucleusImplementsItsSpec`* | `Spec` implements `NucleusSpec` |
| | `OnlyKillersLost`* | nobody falls out of all queues but the caller of a kill |
| | `RecursionKills`* | `processKiller` ends in the one state of `Kill`, with never more calls open than processes |
| | `FinderCorrect`* | `findProcess` ends and finds whoever is in the tree of the caller |
| `NucleusOrderProofs` | `BlockedAreSorted`* | blocked processes are sorted by priority |
| | `NobodyOvertakes`* | and do not overtake each other |
| | `TheFirstIsWoken`* | who is woken was in front of all who stay |
| | `ReadyServedInTurn`* | ready processes do not overtake each other, and the first is dispatched |
| | `TickKeepsTheOrder`* | those a tick wakes are ready in the order in which they waited |
| | `DebtsAreKills`* | a semaphore owes wakeups to killed waiters and to nobody else |
| | `SoftBlockDriftIsKills`* | `softblockcount` is too high by the killed waiters |
| | `SoftBlockCountSuffices`* | `softblockcount` is never below the number of those who wait |
| `AslProofs` | `AslTypes`* | `[]TypeOK` |
| | `AslSorted`* | the keys of the active descriptors ascend |
| | `NoDescriptorLeaks`* | each descriptor is in one of the two lists, once |
| | `ActiveDescriptorsHaveWaiters`* | it is active exactly while its queue is not empty |
| | `SemAddNamesTheQueue`* | `p_semAdd` is the key of the queue the PCB is in |
| | `AslImplementsItsSpec`* | `Spec` implements `AslSpec` |
| `PcbLinksProofs` | `LinksStayNodes`* | `[]TypeOK` |
| | `ListsStayCircles`* | `next` and `prev` are inverse |
| | `WalksMeetPcbs`* | a walk from a sentinel meets PCBs only and ends at its sentinel |
| | `ChildrenAreFound`* | a walk of the children of a PCB finds those whose parent it is |
| | `PcbLinksImplementsItsSpec`* | `Spec` implements `PcbSpec` |
| `MachineProofs` | `MachineTypes`* | `[]TypeOK` |
| | `NobodyUndercharged`* | no process executes longer than it is charged for |
| | `TimeNeverGoesBack`* | no CPU time ever falls |
| | `TimeChargedOnce`* | every moment up to `startTime` is charged, once until a slice ends |
| | `WaitersAreWhereTheyShould`* | who commanded a unit waits where its interrupt looks |
| | `HandlerAnswersItsUnit`* | the handler acknowledges a unit that has finished, and does its V |
| | `SemaphoresAgree`, `RegistersAgree` | `doIO` and the handler agree |
| | `ReceiversShareTheirTransmitters`, `OtherTerminalsUnanswered` | where they do not |
| | `EverythingIsATrap`, `OnlyPrintersAreServed` | where causes lead |
| `KlogProofs` | `LogCorrect` | no write leaves the log, no old text shows through |
| | `DecimalsReversed` | the order of the digits of numbers below 100 |
| `ProcQueueProofs` | `InsertProcQProperties` | `insertProcQ` adds its PCB and no other, and keeps a sorted queue sorted |
| | `WithoutProperties` | what is left when PCBs are taken out of a queue |

*Assumptions* are named in the module that declares the constants. `Nucleus`: the
PCBs are finite and at least one, the semaphores are finite and their kinds are
disjoint, priorities are integers and 0 is one of them (the first process has
it), and `MinSem` is negative. `Asl`: there are `MAXPROC` PCBs and as many descriptors, and keys are
integers. `PcbLinks`: the nodes are finite, of different kinds, and there is a
PCB. `Machine` and `Devices`: the processes are finite and at least one, the
intervals of the timers are positive, the semaphores are different things,
and what is installed are units. `NULL` is none of these. The bounds `MaxSem`, `MaxSoft` and
`MaxTime` may be any numbers, `MinSem` any negative one, so the theorems hold for numbers of any range (not for
the wrap of a 32-bit `int`). The two theorems of `Machine` about units assume
besides that only units are installed on which `doIO` and the handler agree: no
receivers, and of the terminals only terminal 0. For the others they are false.

*Places.* `TypeOK` and, above it, `NoLostWakeup` are inductive. The latter
says that the waiters of a semaphore `s` of the processes are at most `-sem[s]` when that is
positive and none otherwise, and that the value of a device or of the clock is negative
when somebody waits there: P adds a waiter with the decrement that pays for it, V takes one
out whenever the value it leaves is still not positive, a kill or a tick only
takes out. `PlacedOnce` is not inductive alone. A process that blocks enters a
queue, so that queue must not hold it yet, which follows from its running. But
`p_semAdd` is set even if `insertBlocked` fails, and a kill clears queues by it.
So the invariant is `PlaceInv`: types, places, and `BlockedWhereItSays`. To
preserve the last, `insertBlocked` must not fail (`DescriptorLeft`): a
descriptor in use has at least one PCB in its queue, the queues are disjoint,
and the running process is in none, so fewer than `MAXPROC` are in use. The proof
chooses the head of each queue and compares cardinalities. That it never fails in any
reachable state is `DescriptorsSuffice`.

*The tree.* `TreeInv` adds to it that parents and children agree, that a free PCB
has neither, that as long as there are processes one without a parent reaches all of
them, and the count. What a kill takes is the least set
that is closed under children and holds the victim: nobody outside it has a
parent in it, and it is disjoint from everything else with a parent outside.

*Order.* Every change of a queue is an insertion by `insertProcQ`, the removal
of the head, or the removal of killed or woken PCBs (`QueueSteps`); each of the three keeps
the order of those who stay.

*The counts.* `softblockcount` rises by one with each who blocks and falls by the
number of those a tick wakes, which is the length of the clock's queue because nobody stands
in it twice (`QueueCount`). It does not fall with those who are killed: `DriftStep`
says exactly that of the difference, and that the count is never too low follows from it.
For a user semaphore `DebtStep` does the same with its value: P that blocks needs a
descriptor (`DescriptorLeft`) or the value would fall without a waiter; V raises a
negative value with the waiter it wakes; a kill shortens the queue by the waiters among its
victims and leaves the value.

The ready queue is not sorted, so nothing follows from priorities there. What
`insertProcQ` does in any queue is to put one PCB somewhere between the others, so it
keeps the order of the rest (`ReadyStep` goes through the handlers; the only removal is that of
the head). For a tick this is not enough, because its waiters are inserted one after another.
A PCB `Leads` a queue up to its place if nobody of a lower priority stands before it.
In a queue of any shape `insertProcQ` puts its PCB where it leads, and behind all that
lead and do not have a lower priority (`InsertBehind`). Since the queue of the clock is
sorted, each waiter comes behind those that were woken before it (`InsertAllOrder`).

*The refinement of `NucleusSpec`.* There is one lemma for each handler
(`CreateImplements`, `KillImplements`, ..., `TickImplements`), above `RefInv`, which is `TreeInv` with
`BlockedSorted`. Each part of it is needed. Without the places a process would be
ready and waiting at once, and taking the PCB at the head out of a sequence would
not take it out of the set. Without `Agree` the progeny in terms of children
(`Subtree`) is not the progeny in terms of parents (`SameProgeny`). Without
`BlockedSorted` the head of a queue is not a waiter of the highest priority. Without
`BlockedWhereItSays` a kill, which finds a victim's queue by `p_semAdd`, could leave
it there. And `DescriptorsSuffice` is what makes a process that blocks a member of
`waiting`. `OnlyKillersGetLost` is then proved from the abstract step alone: in
`NucleusSpec` the only action after which the running process is in none of the sets is `Kill`.

*The recursions.* Both walk the same way (`Walking`): the open calls are a sequence
without repetition, the calls that have returned a set `F` disjoint from it, both inside
`Subtree(p)`; `p` is in one of them, and the children of a PCB in `F` are too. Each call
moves on by one step in `2 |F| + Len(stack) = i + 1`, so that after `2 MAXPROC` steps nothing
is open (`WalkIsShort`, which also bounds the depth by `|Subtree(p)|`), and then `F` is closed
under children and hence all of `Subtree(p)` (`WalkEnds`). What remains is that a step of
the code is a step of a walk. `processKiller` has changed the tree by then: `Halfway` says how
the links, queues and counters look in terms of the tree *before* the call, namely that all that
were called for are unlinked except `p` itself. So a child that is still listed has not been
called for, unless it were `p`, which is not below itself (`ParentOutside`, from the root of
`TreeInv`). `KillerDescends` and `KillerBuries` are the two steps, `StillBlocked` what
`outBlocked` finds, `OutOfWithout` that taking victims out of a queue one by one leaves
`Without`, and `KillerLeaves` that the end is the next state of `Kill`. For the
search, `Passed` says which children the loops have not passed. The climb ends since the
progeny of a parent is larger than that of its child (`ParentHasMore`), at the only root that
has the caller below it (`TopIsRoot`, `FindableBelowTop`).

*The descriptors.* `AslInv` is the conjunction of the invariants of the run with two more:
the `s_key` of an active descriptor is a key, and a PCB with a `p_semAdd` has an
active descriptor of this key. For the refinement, `insertBlocked` may refuse
only when `AslSpec` refuses; it does so when no descriptor is free, so that every
PCB is the head of an active queue, and one that is not blocked cannot be.

*The pointers.* `LinkInv` says that the nodes can be coloured by the heads of
their lists so that links stay within a colour, `next` and `prev` are inverse,
and any set that is closed under `next` and holds a head holds all of its colour:
each list is one circle through its head. Insertion and deletion recolour one
node. That a walk ends, and meets each node of its colour once, follows because
`next` is injective on a finite set (`WalkCloses`). For the children the colour of a
node is given by `p_parent`. For the refinement the order counts, too: the walk from
a head is the one sequence that begins behind the head, follows `next` and ends at the
head (`Visits`, `VisitsOne`). Hence `list_del` removes the node from the sequence of
its list (`WalkDel`), `__list_add` between two neighbours inserts at their place
(`WalkAdd`), the other lists stay as they are (`WalkElsewhere`), and the place
`insertProcQ` chooses between pointers is the position `PcbSpec` chooses (`WalkPlace`).

*CPU time.* `MachineInv` has, with the types and `NeverUndercharged`, that the running,
the ready, the blocked and the unborn are different processes and that
`startTime` is not in the future. Every moment a process executes adds as much to
what it would be charged now; and whoever stops running has been charged before.
For `ChargedOnce` the sum over all processes is the recursive function of the community
modules; that it exists, and grows by what is added to one of them (`SumOfUpdate`),
is proved along the number of its summands.

The loops (`Without`, `InsertAll`, `Walk`, `Digits`, `Top`, `processKiller`, `findProcess`) are recursive functions. Their
properties are proved with a least counterexample over the number of rounds
(`LeastExists`, `UpTo`) and not with the induction theorems of the library;
`LoopExists` gives the function that the definition chooses.

*Only model-checked*: liveness (`ClockWaitersWoken`), which is out of the prover's
reach. *Only proved*: the log and the decoding.

## 6. Not modelled

- The contents of the state that `passUpOrDie` copies into the support structure,
  and what NSYS8 and NSYS9 answer.
- Pids as numbers, `next_pid` and the wrap of integers: it takes 2^31 allocations,
  and only the search of NSYS2 compares pids.
- The pass-up vector, and what the call of `exceptionHandler()` in `main` does
  with the registers the boot ROM leaves behind.
- The bytes of a frame of the kernel stack: `KillerKills` bounds the number of open calls of
  `processKiller`, not the room they take.
- What the machine does with a corrupted ready queue or the state of PCB NULL.
- What a device returns, and what a busy unit does with a second command: the
  callers exclude it, and the source does not say.
- `semaphoreV`, which nobody calls.
- Test programs, and the headers, which have no behaviour. `p1test.c` and
  `p2test.c` were read for how the operations are meant to be used: they give the
  guards of `Asl`, `PcbLinks` and `DoIO`.

## 7. Plan

What is left, most useful first:

1. `passUpOrDie` with the state it passes up and the support levels of a process.
2. Pids of a fixed width.

## 8. Running it

    tlc -workers 2 -config nucleus.cfg MCNucleus
    tlapm NucleusProofs.tla

The `.cfg` of each run, its module and what it is for are in `PROJECT.json`,
which also maps every definition to its lines, and gives for every property a
plausible slip in the code that breaks it. The operators marked
"mutant" in the modules are those slips; no specification uses them.
