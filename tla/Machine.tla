------------------------------ MODULE Machine ------------------------------
(***************************************************************************)
(* The nucleus and the hardware it accounts for: the TOD clock and the CPU *)
(* time of the processes, the interval timer and the pseudo-clock, the     *)
(* device registers of module Devices and the processes that wait for      *)
(* them.                                                                   *)
(*                                                                         *)
(* Every action is a whole exception, from the entry of the handler to the *)
(* LDST; time passes only while a process runs.  Priorities, trees and the *)
(* values of the semaphores are in module Nucleus: here the ready queue is *)
(* a set, and a P blocks or not as it likes.  "Two spellings of one        *)
(* variable": startTime and processStartTime, current_process and          *)
(* currentProcess, pseudoclock_semaphore and pseudoClockSemaphore are      *)
(* declared extern or not at all; each pair is one variable.               *)
(***************************************************************************)
EXTENDS Devices, FiniteSets, Functions

CONSTANTS
  Proc,
  NULL,
  pseudoclock_semaphore,
  UserSem,    \* the semaphores of the processes, taken as one
  PSECOND,    \* the interval between two pseudo-clock ticks
  DISPATCH,   \* what scheduler() loads into the interval timer
  TIMESLICE,  \* what the PLT handler loads into the PLT
  MaxTime     \* bound: the TOD clock stops here

ASSUME ProcAssumption == IsFiniteSet(Proc) /\ Proc # {} /\ NULL \notin Proc
ASSUME TimeAssumption == /\ PSECOND \in Nat \ {0} /\ DISPATCH \in Nat \ {0}
                         /\ TIMESLICE \in Nat \ {0} /\ MaxTime \in Nat
ASSUME WaitAssumption == /\ pseudoclock_semaphore \notin 0 .. 47 \cup {UserSem, NULL}
                         /\ UserSem \notin 0 .. 47 \cup {NULL}
                         /\ NULL \notin 0 .. 47

Sem  == 0 .. 47   \* device_semaphores without the last
Wait == Sem \cup {pseudoclock_semaphore, UserSem}   \* what p_semAdd can be

VARIABLES
  tod,              \* STCK
  startTime,        \* since when the running process is not yet charged
  p_time,           \* the CPU time charged to every process
  interval,         \* what is left in the interval timer
  plt,              \* what is left in the processor local timer
  readyQueue, current_process, p_semAdd,
  unborn,           \* the processes that are not created yet
  cpu,              \* "run", or "stopped" after LDST with no process
  commander,        \* history: who commanded every unit last
  used,             \* history: the time each process really executed
  slices            \* history: whether a PLT interrupt has occurred

timeVars == <<startTime, p_time>>
timers == <<interval, plt>>
units == <<status, commander>>
history == <<used, slices>>
vars == <<units, tod, timeVars, timers, readyQueue, current_process,
          p_semAdd, unborn, cpu, history>>

Blocked == {p \in Proc : p_semAdd[p] # NULL}
Alive   == {p \in Proc : p = current_process} \cup readyQueue \cup Blocked

(***************************************************************************)
(* The current process goes on; a timer interrupt that is due is taken     *)
(* before its next instruction.                                            *)
(***************************************************************************)
Running == cpu = "run" /\ interval > 0 /\ plt > 0

-----------------------------------------------------------------------------
(***************************************************************************)
(* scheduler(), with the ready queue the caller leaves behind.             *)
(***************************************************************************)
Dispatch(ready) ==
  /\ interval' = DISPATCH   \* LDIT(5)
  /\ \/ /\ ready = {}
        /\ cpu' = "stopped" /\ current_process' = NULL /\ readyQueue' = {}
     \/ \E p \in ready :
          /\ current_process' = p
          /\ readyQueue' = ready \ {p}
          /\ UNCHANGED cpu

Elapsed == tod - startTime

UpdateNothing == UNCHANGED timeVars   \* mutant: no updateCPUtime

ChargeOnly ==                         \* mutant: startTime is not moved
  /\ p_time' = [p_time EXCEPT ![current_process] = @ + Elapsed]
  /\ UNCHANGED startTime

UpdateCPUtime ==
  /\ p_time' = [p_time EXCEPT ![current_process] = @ + Elapsed]
  /\ startTime' = tod

(***************************************************************************)
(* main: the first process runs; the time before it is not yet charged.    *)
(***************************************************************************)
Init ==
  /\ DevInit
  /\ tod \in 0 .. MaxTime
  /\ startTime = 0
  /\ p_time = [p \in Proc |-> 0]
  /\ interval = DISPATCH
  /\ plt \in 1 .. TIMESLICE   \* nobody has loaded it
  /\ current_process \in Proc
  /\ readyQueue = {}
  /\ unborn = Proc \ {current_process}
  /\ p_semAdd = [p \in Proc |-> NULL]
  /\ cpu = "run"
  /\ commander = [u \in Installed |-> NULL]
  /\ used = [p \in Proc |-> 0]
  /\ slices = FALSE

(***************************************************************************)
(* getCPUtime, the answer of NSYS6 when p is the current process; of the   *)
(* others, what they have been charged so far.                             *)
(***************************************************************************)
CPUtime(p) == p_time[p] + IF p = current_process THEN Elapsed ELSE 0

-----------------------------------------------------------------------------
(***************************************************************************)
(* The current process executes for one unit of time.                      *)
(***************************************************************************)
Tick ==
  /\ Running /\ tod < MaxTime
  /\ tod' = tod + 1
  /\ used' = [used EXCEPT ![current_process] = @ + 1]
  /\ interval' = interval - 1 /\ plt' = plt - 1
  /\ UNCHANGED <<units, timeVars, readyQueue, current_process,
                 p_semAdd, unborn, cpu, slices>>

CreateProcess(p) ==
  /\ Running /\ p \in unborn
  /\ unborn' = unborn \ {p}
  /\ readyQueue' = readyQueue \cup {p}
  /\ p_time' = [p_time EXCEPT ![p] = 0]
  /\ UNCHANGED <<units, tod, startTime, timers, current_process, p_semAdd,
                 cpu, history>>

(***************************************************************************)
(* NSYS2: the processes of D end, a subtree somewhere in the tree.  The    *)
(* caller does not run on even if it is not among them, and nobody is      *)
(* charged for its time.  (A ready process in D would spoil the ready      *)
(* queue: see module Nucleus, which stops there.)                          *)
(***************************************************************************)
TerminateProcess(D) ==
  /\ Running /\ D # {}
  /\ p_semAdd' = [p \in Proc |-> IF p \in D THEN NULL ELSE p_semAdd[p]]
  /\ Dispatch(readyQueue)
  /\ UNCHANGED <<units, tod, timeVars, plt, unborn, history>>

(***************************************************************************)
(* The current process is charged, then blocks on s.                       *)
(***************************************************************************)
Block(s) ==
  /\ UpdateCPUtime
  /\ p_semAdd' = [p_semAdd EXCEPT ![current_process] = s]
  /\ Dispatch(readyQueue)
  /\ UNCHANGED <<tod, plt, unborn, history>>

PasserenPasses ==
  /\ Running
  /\ UpdateCPUtime
  /\ UNCHANGED <<units, tod, timers, readyQueue, current_process, p_semAdd,
                 unborn, cpu, history>>

PasserenBlocks ==
  /\ Running
  /\ Block(UserSem)
  /\ UNCHANGED units

Verhogen(p) ==
  /\ Running /\ p_semAdd[p] = UserSem
  /\ p_semAdd' = [p_semAdd EXCEPT ![p] = NULL]
  /\ readyQueue' = readyQueue \cup {p}
  /\ UNCHANGED <<units, tod, timeVars, timers, current_process, unborn, cpu,
                 history>>

(***************************************************************************)
(* A process commands a unit that nobody else waits for: its callers use a *)
(* semaphore of their own, as p2test does.  The address is in the device   *)
(* area, so that doIO refuses none.                                        *)
(***************************************************************************)
DoIO(u) ==
  /\ Running /\ status[u] = "ready"
  /\ \A p \in Blocked : p_semAdd[p] # DoIOSem(CommandReg(u))
  /\ status' = Written(CommandReg(u), "busy")
  /\ commander' = [commander EXCEPT ![u] = current_process]
  /\ Block(DoIOSem(CommandReg(u)))

WaitForClock ==
  /\ Running
  /\ Block(pseudoclock_semaphore)
  /\ UNCHANGED units

Yield ==
  /\ Running
  /\ UpdateCPUtime
  /\ Dispatch(readyQueue \cup {current_process})
  /\ UNCHANGED <<units, tod, plt, p_semAdd, unborn, history>>

-----------------------------------------------------------------------------
(***************************************************************************)
(* The interrupts.  The handler of the devices looks for the waiter under  *)
(* the value of the semaphore, not its address, and finds nobody (module   *)
(* Nucleus): only registers change.                                        *)
(***************************************************************************)
DeviceDone(u) ==
  /\ Complete(u)
  /\ UNCHANGED <<tod, timeVars, timers, readyQueue, current_process, p_semAdd,
                 unborn, cpu, commander, history>>

DeviceInterrupt(line) ==
  /\ Running
  /\ HandleNonTimerInterrupt(line)
  /\ UNCHANGED <<tod, timeVars, timers, readyQueue, current_process, p_semAdd,
                 unborn, cpu, commander, history>>

HandlePLTUncharged ==   \* mutant: p_time is left alone
  /\ cpu = "run" /\ plt = 0
  /\ plt' = TIMESLICE
  /\ slices' = TRUE
  /\ Dispatch(readyQueue \cup {current_process})
  /\ UNCHANGED <<units, tod, timeVars, p_semAdd, unborn, used>>

HandlePLTInterrupt ==
  /\ cpu = "run" /\ plt = 0
  /\ plt' = TIMESLICE
  /\ p_time' = [p_time EXCEPT ![current_process] = @ + Elapsed]
  /\ slices' = TRUE
  /\ Dispatch(readyQueue \cup {current_process})
  /\ UNCHANGED <<units, tod, startTime, p_semAdd, unborn, used>>

HandleIntervalTimerInterrupt ==
  /\ cpu = "run" /\ interval = 0
  /\ interval' = PSECOND
  /\ LET woken == {p \in Proc : p_semAdd[p] = pseudoclock_semaphore}
     IN  /\ p_semAdd' = [p \in Proc |-> IF p \in woken THEN NULL ELSE p_semAdd[p]]
         /\ readyQueue' = readyQueue \cup woken
  /\ UNCHANGED <<units, tod, timeVars, plt, current_process, unborn, cpu, history>>

Next ==
  \/ Tick
  \/ \E D \in SUBSET ({current_process} \cup Blocked) : TerminateProcess(D)
  \/ PasserenPasses \/ PasserenBlocks \/ WaitForClock \/ Yield
  \/ \E p \in Proc : CreateProcess(p) \/ Verhogen(p)
  \/ \E u \in Installed : DoIO(u) \/ DeviceDone(u)
  \/ \E line \in Line : DeviceInterrupt(line)
  \/ HandlePLTInterrupt \/ HandleIntervalTimerInterrupt

Spec == Init /\ [][Next]_vars

-----------------------------------------------------------------------------
TypeOK ==
  /\ status \in [Installed -> {"ready", "busy", "done"}]
  /\ tod \in Nat /\ startTime \in Nat
  /\ p_time \in [Proc -> Nat] /\ used \in [Proc -> Nat]
  /\ interval \in Nat /\ plt \in Nat
  /\ current_process \in Proc \cup {NULL}
  /\ readyQueue \subseteq Proc /\ unborn \subseteq Proc
  /\ p_semAdd \in [Proc -> Wait \cup {NULL}]
  /\ cpu \in {"run", "stopped"}
  /\ cpu = "run" => current_process \in Proc
  /\ commander \in [Installed -> Proc \cup {NULL}]
  /\ slices \in BOOLEAN

(***************************************************************************)
(* No process executes for longer than it is charged for, however system   *)
(* calls, yields, time slices, ends of other processes and clock ticks     *)
(* follow each other.  (It may be charged for more, see README.)           *)
(***************************************************************************)
NeverUndercharged == \A p \in Alive : used[p] <= CPUtime(p)

(***************************************************************************)
(* What NSYS6 answers never goes back, whatever happens between two calls. *)
(***************************************************************************)
NeverBackwards ==
  [][\A p \in Alive : p \in Alive' => CPUtime(p)' >= CPUtime(p)]_vars

Total(f) == FoldFunction(+, 0, f)

(***************************************************************************)
(* Every moment up to startTime is charged to somebody, and to one process *)
(* only as long as no time slice has ended.  (A PLT interrupt charges      *)
(* without moving startTime, so that its time is charged again.)           *)
(***************************************************************************)
ChargedOnce ==
  startTime <= Total(p_time) /\ (~ slices => Total(p_time) = startTime)

(***************************************************************************)
(* Until its unit is acknowledged, the process that commanded it waits on  *)
(* the semaphore that the interrupt of this unit is for, if it was not     *)
(* killed, and nobody else does: the arithmetic of doIO on addresses       *)
(* agrees with that of the handler on lines and devices.                   *)
(***************************************************************************)
SemOf(u) == GetSemaphoreIndex(u.line, u.dev, u.sub = "trans")

UnitsHaveWaiters ==
  \A u \in Installed : status[u] # "ready" =>
     {q \in Proc : p_semAdd[q] = SemOf(u)} = {commander[u]} \cap Alive

(***************************************************************************)
(* Whenever units of a line have finished, the handler of this line would  *)
(* acknowledge one of them, do its V for the semaphore of the same unit,   *)
(* and leave the status of every other unit alone.                         *)
(***************************************************************************)
AnswersItsUnit ==
  \A line \in Line : BitMap(line) # {} =>
    \E u \in Installed :
      /\ status[u] = "done" /\ u.line = line
      /\ SemToV(line) = SemOf(u)
      /\ Acknowledged(line) = [status EXCEPT ![u] = "ready"]

(***************************************************************************)
(* phase2/interrupts.c:50 has the interval timer "per pseudo-clock da      *)
(* 100ms ticks": it counts down, and only a tick loads it again.           *)
(***************************************************************************)
ClockTicksEveryPsecond ==
  [][interval' # interval => \/ interval' = interval - 1
                             \/ interval = 0 /\ interval' = PSECOND]_vars
=============================================================================
