--------------------------- MODULE MachineProofs ---------------------------
(***************************************************************************)
(* Three parts.  What becomes of every cause of an exception; where doIO   *)
(* and the interrupt handler agree about devices, and where they do not,   *)
(* for every unit of the device area; and the CPU time of the processes,   *)
(* for any number of them, any devices and any lengths of the intervals    *)
(* the timers are loaded with.                                             *)
(***************************************************************************)
EXTENDS Machine, Decode, ProcQueueProofs, FiniteSetTheorems

(***************************************************************************)
(* The cause is shifted although its code is not: whatever happens, an     *)
(* interrupt, a system call or a TLB exception included, exceptionHandler  *)
(* calls programTrapHandler, which passes the exception up or kills the    *)
(* current process.                                                        *)
(***************************************************************************)
THEOREM EverythingIsATrap ==
  \A cause \in Cause : Handler(cause) = "programTrapHandler"
<1> SUFFICES ASSUME NEW cause \in Cause
             PROVE  Handler(cause) = "programTrapHandler"
  OBVIOUS
<1>1. cause.code \in 0 .. 31
  BY DEF Cause, Code
<1>2. ~ IsInterrupt(cause)
  <2> SUFFICES ASSUME NEW bit \in {IL_TIMER, IL_CPUTIMER, IL_DISK, IL_FLASH,
                                   IL_ETHERNET, IL_PRINTER, IL_TERMINAL}
               PROVE  ~ IP_GET(cause, bit)
    BY DEF IsInterrupt
  <2>1. bit \in Nat /\ 31 < bit
    BY DEF IL_TIMER, IL_CPUTIMER, IL_DISK, IL_FLASH, IL_ETHERNET, IL_PRINTER,
           IL_TERMINAL
  <2>2. cause.code \div bit = 0
    BY <1>1, <2>1
  <2> QED BY <2>2 DEF IP_GET
<1>3. ExcCode(cause) \in 0 .. 7
  BY <1>1 DEF ExcCode
<1> QED BY <1>2, <1>3 DEF Handler

(***************************************************************************)
(* Were it called, the interrupt handler would find one line only, that of *)
(* the printers: the mask leaves multiples of four, and of the codes it    *)
(* compares with only 20 is one.  The timers and the terminals are never   *)
(* served.                                                                 *)
(***************************************************************************)
THEOREM OnlyPrintersAreServed ==
  \A cause \in Cause, bitMap \in [3 .. 7 -> BOOLEAN] :
    /\ InterruptLine(cause, bitMap) \in {0, 6}
    /\ Served(cause, bitMap) \in {"return", "handleNonTimerInterrupt"}
<1> SUFFICES ASSUME NEW cause \in Cause, NEW bitMap \in [3 .. 7 -> BOOLEAN]
             PROVE  InterruptLine(cause, bitMap) \in {0, 6}
  BY DEF Served
<1>1. cause.code \in 0 .. 31
  BY DEF Cause, Code
<1>2. PICK k \in 0 .. 7 : Masked(cause) = 4 * k
  BY <1>1 DEF Masked
<1>3. Masked(cause) \in DOMAIN LineOfCode => Masked(cause) = 20
  BY <1>2 DEF LineOfCode
<1>4. LineOfCode[20] = 6
  BY DEF LineOfCode
<1> QED BY <1>3, <1>4 DEF InterruptLine

-----------------------------------------------------------------------------
SemOfUnit(u) == GetSemaphoreIndex(u.line, u.dev, u.sub = "trans")

(***************************************************************************)
(* What doIO finds in the address of a command register.                   *)
(***************************************************************************)
LEMMA CommandRegParts ==
  ASSUME NEW u \in Unit
  PROVE  /\ LineIndex(CommandReg(u)) = u.line - 3
         /\ DeviceNum(CommandReg(u)) = u.dev
         /\ u.line = 7 => FieldOffset(CommandReg(u)) = IF u.sub = "trans" THEN 0 ELSE 8
<1> DEFINE o == IF u.sub = "trans" THEN 8 ELSE 0
<1>1. u.line \in 3 .. 7 /\ u.dev \in 0 .. 7
  BY DEF Unit, Dev
<1>2. o \in {0, 8} /\ CommandReg(u) = 84 + 128 * (u.line - 3) + 16 * u.dev + o + 4
  BY <1>1 DEF CommandReg, StatusReg, DeviceBase, START_DEVREG, WORDLEN
<1> HIDE DEF o
<1> DEFINE l == u.line - 3
           r == 16 * u.dev + o + 4
<1>3. l \in 0 .. 4 /\ r \in 0 .. 127 /\ CommandReg(u) - START_DEVREG = 128 * l + r
  BY <1>1, <1>2 DEF START_DEVREG
<1>4. (128 * l + r) \div 128 = l /\ (128 * l + r) % 128 = r
  <2> HIDE DEF l, r
  <2> QED BY <1>3
<1>5. r \div 16 = u.dev
  BY <1>1, <1>2
<1>6. FieldOffset(CommandReg(u)) = IF o = 8 THEN 0 ELSE 8
  <2> DEFINE c == CommandReg(u)
             m == 8 * (u.line - 3) + u.dev + 5
  <2>1. m \in Nat /\ c = 16 * m + 8 + o
    BY <1>1, <1>2
  <2>2. CASE o = 0
    <3>1. c \div 16 = m
      <4> HIDE DEF m, c
      <4> QED BY <2>1, <2>2
    <3> QED BY <2>1, <2>2, <3>1 DEF FieldOffset
  <2>3. CASE o = 8
    <3>1. c \div 16 = m + 1
      <4> HIDE DEF m, c
      <4> QED BY <2>1, <2>3
    <3> QED BY <2>1, <2>3, <3>1 DEF FieldOffset
  <2> QED BY <1>2, <2>2, <2>3
<1> QED BY <1>3, <1>4, <1>5, <1>6 DEF LineIndex, DeviceNum, o

(***************************************************************************)
(* The process that commands a device of the lines 3 to 6 or a transmitter *)
(* waits on the semaphore that the interrupt of this unit is for.          *)
(***************************************************************************)
THEOREM SemaphoresAgree ==
  \A u \in Unit : u.sub # "recv" => DoIOSem(CommandReg(u)) = SemOfUnit(u)
<1> SUFFICES ASSUME NEW u \in Unit, u.sub # "recv"
             PROVE  DoIOSem(CommandReg(u)) = SemOfUnit(u)
  OBVIOUS
<1> DEFINE a == CommandReg(u)
<1>1. /\ LineIndex(a) = u.line - 3 /\ DeviceNum(a) = u.dev
      /\ u.line = 7 => FieldOffset(a) = IF u.sub = "trans" THEN 0 ELSE 8
  BY CommandRegParts
<1> HIDE DEF a
<1>2. CASE u.line = 7
  <2>1. u.sub = "trans" /\ u.dev \in 0 .. 7
    BY <1>2 DEF Unit, Dev
  <2>2. DoIOSem(a) = 32 + 2 * u.dev + 1
    BY <1>1, <1>2, <2>1 DEF DoIOSem, RECVCOMMAND, WORDLEN, DEVINTNUM, DEVPERINT
  <2> QED BY <1>2, <2>1, <2>2 DEF SemOfUnit, GetSemaphoreIndex, a
<1>3. CASE u.line # 7
  <2>1. u.line \in 3 .. 6 /\ u.dev \in 0 .. 7
    BY <1>3 DEF Unit, Dev
  <2>2. DoIOSem(a) = (u.line - 3) * 8 + u.dev
    BY <1>1, <2>1 DEF DoIOSem, DEVPERINT
  <2> QED BY <1>3, <2>2 DEF SemOfUnit, GetSemaphoreIndex, a
<1> QED BY <1>2, <1>3

(***************************************************************************)
(* A process that commands a receiver waits on the semaphore of the        *)
(* transmitter of its terminal, not on the one that getSemaphoreIndex has  *)
(* for the receiver: fieldOffset is 8 or 0, never 4.                       *)
(***************************************************************************)
THEOREM ReceiversShareTheirTransmitters ==
  \A d \in Dev :
    LET recv  == [line |-> 7, dev |-> d, sub |-> "recv"]
        trans == [line |-> 7, dev |-> d, sub |-> "trans"]
    IN  /\ DoIOSem(CommandReg(recv)) = SemOfUnit(trans)
        /\ DoIOSem(CommandReg(recv)) # SemOfUnit(recv)
<1> TAKE d \in Dev
<1> DEFINE recv == [line |-> 7, dev |-> d, sub |-> "recv"]
           a    == CommandReg(recv)
<1>1. recv \in Unit /\ recv.line = 7 /\ recv.dev = d /\ recv.sub = "recv"
  BY DEF Unit
<1>2. LineIndex(a) = 4 /\ DeviceNum(a) = d /\ FieldOffset(a) = 8
  <2> HIDE DEF recv
  <2> QED BY <1>1, CommandRegParts
<1>3. DoIOSem(a) = 32 + 2 * d + 1
  <2> HIDE DEF a
  <2> QED BY <1>2 DEF DoIOSem, RECVCOMMAND, WORDLEN, DEVINTNUM, DEVPERINT, Dev
<1> QED BY <1>3 DEF SemOfUnit, GetSemaphoreIndex, Dev

(***************************************************************************)
(* The registers: the handler of the lines 3 to 6, and of terminal 0,      *)
(* reads and acknowledges the unit it means.                               *)
(***************************************************************************)
THEOREM RegistersAgree ==
  \A u \in Unit : u.line # 7 \/ u.dev = 0 =>
    /\ StatusAddr(u.line, u.dev, u.sub = "trans") = StatusReg(u)
    /\ CommandAddr(u.line, u.dev, u.sub = "trans") = CommandReg(u)
<1> SUFFICES ASSUME NEW u \in Unit, u.line # 7 \/ u.dev = 0
             PROVE  StatusAddr(u.line, u.dev, u.sub = "trans") = StatusReg(u)
  BY DEF CommandAddr, CommandReg, WORDLEN
<1>1. u.line \in 3 .. 7 /\ u.dev \in 0 .. 7 /\ (u.line # 7 => u.sub = "dev")
  BY DEF Unit, Dev
<1> QED
  BY <1>1 DEF StatusAddr, StatusReg, DeviceBase, GetDeviceRegAddr, TermBase,
              START_DEVREG, DEV_REG_SIZE, TERM_REG_BASE

(***************************************************************************)
(* For the other terminals it reads and writes outside the device area:    *)
(* their interrupts are never acknowledged.                                *)
(***************************************************************************)
THEOREM OtherTerminalsUnanswered ==
  \A d \in Dev \ {0}, t \in BOOLEAN, u \in Unit : CommandAddr(7, d, t) # CommandReg(u)
<1> TAKE d \in Dev \ {0}, t \in BOOLEAN, u \in Unit
<1>1. u.line \in 3 .. 7 /\ u.dev \in 0 .. 7 /\ d \in 1 .. 7
  BY DEF Unit, Dev
<1>2. CommandReg(u) <= 84 + 128 * 4 + 16 * 7 + 12
  BY <1>1 DEF CommandReg, StatusReg, DeviceBase, START_DEVREG, WORDLEN
<1>3. CommandAddr(7, d, t) >= 596 + 128 + 4
  BY <1>1 DEF CommandAddr, StatusAddr, TermBase, TERM_REG_BASE, DEV_REG_SIZE
<1> QED
  BY <1>1, <1>2, <1>3 DEF CommandReg, StatusReg, DeviceBase, START_DEVREG, WORDLEN,
       CommandAddr, StatusAddr, TermBase, TERM_REG_BASE, DEV_REG_SIZE

-----------------------------------------------------------------------------
(***************************************************************************)
(* A process runs, is ready, is blocked, is not yet created or has ended,  *)
(* and one of these only; the clock is not behind startTime.               *)
(***************************************************************************)
Apart ==
  /\ cpu = "run" => /\ p_semAdd[current_process] = NULL
                    /\ current_process \notin readyQueue \cup unborn
  /\ cpu = "stopped" => current_process = NULL
  /\ \A p \in readyQueue : p_semAdd[p] = NULL /\ p \notin unborn
  /\ \A p \in unborn : p_semAdd[p] = NULL /\ used[p] = 0
  /\ startTime <= tod

MachineInv == TypeOK /\ Apart /\ NeverUndercharged

-----------------------------------------------------------------------------
(***************************************************************************)
(* scheduler() runs one of the ready processes and leaves the others       *)
(* ready, or stops.                                                        *)
(***************************************************************************)
LEMMA DispatchKeeps ==
  ASSUME NEW ready \in SUBSET Proc, Dispatch(ready), cpu = "run"
  PROVE  /\ interval' = DISPATCH
         /\ readyQueue' \subseteq ready
         /\ current_process' \in ready \cup {NULL}
         /\ current_process' \notin readyQueue'
         /\ {p \in Proc : p = current_process'} \cup readyQueue' = ready
         /\ cpu' \in {"run", "stopped"}
         /\ cpu' = "run" => current_process' \in ready
         /\ cpu' = "stopped" => current_process' = NULL
  BY ProcAssumption DEF Dispatch

(***************************************************************************)
(* updateCPUtime leaves every process with what it would have been told    *)
(* before, and nothing of the running one is left to charge.               *)
(***************************************************************************)
LEMMA ChargeKeeps ==
  ASSUME TypeOK, startTime <= tod, cpu = "run", UpdateCPUtime
  PROVE  /\ p_time' \in [Proc -> Nat] /\ startTime' = tod
         /\ \A p \in Proc : p_time'[p] = CPUtime(p)
<1>1. /\ Elapsed \in Nat /\ current_process \in Proc
      /\ p_time \in [Proc -> Nat]
  BY DEF TypeOK, Elapsed
<1> QED BY <1>1 DEF UpdateCPUtime, CPUtime

(***************************************************************************)
(* doIO waits on a device semaphore.                                       *)
(***************************************************************************)
LEMMA DoIOSemType == \A u \in Unit : DoIOSem(CommandReg(u)) \in Sem
<1> SUFFICES ASSUME NEW u \in Unit PROVE DoIOSem(CommandReg(u)) \in Sem
  OBVIOUS
<1> DEFINE a == CommandReg(u)
<1>1. /\ LineIndex(a) = u.line - 3 /\ DeviceNum(a) = u.dev
      /\ u.line \in 3 .. 7 /\ u.dev \in 0 .. 7
  BY CommandRegParts DEF Unit, Dev
<1> HIDE DEF a
<1>2. CASE u.line = 7
  <2>1. DoIOSem(a) \in {32 + 2 * u.dev, 32 + 2 * u.dev + 1}
    BY <1>1, <1>2 DEF DoIOSem, DEVINTNUM, DEVPERINT
  <2> QED BY <1>1, <2>1 DEF Sem, a
<1>3. CASE u.line # 7
  <2>1. DoIOSem(a) = (u.line - 3) * 8 + u.dev
    BY <1>1, <1>3 DEF DoIOSem, DEVPERINT
  <2> QED BY <1>1, <1>3, <2>1 DEF Sem, a
<1> QED BY <1>2, <1>3

(* A word written to a register leaves every unit with a status.           *)
LEMMA WrittenType ==
  ASSUME TypeOK, NEW a, NEW v \in {"ready", "busy", "done"}
  PROVE  Written(a, v) \in [Installed -> {"ready", "busy", "done"}]
  BY DEF Written, TypeOK

(***************************************************************************)
(* A process that blocks.                                                  *)
(***************************************************************************)
LEMMA BlockKeeps ==
  ASSUME MachineInv, Running, NEW s \in Wait, Block(s),
         status' \in [Installed -> {"ready", "busy", "done"}],
         commander' \in [Installed -> Proc \cup {NULL}]
  PROVE  MachineInv'
<1>1. TypeOK /\ Apart /\ cpu = "run" /\ current_process \in Proc /\ s # NULL
  BY WaitAssumption DEF MachineInv, Running, TypeOK, Wait, Sem
<1>2. /\ p_time' \in [Proc -> Nat] /\ startTime' = tod
      /\ \A p \in Proc : p_time'[p] = CPUtime(p)
  BY <1>1, ChargeKeeps DEF Block, Apart
<1>3. /\ p_semAdd' = [p_semAdd EXCEPT ![current_process] = s]
      /\ UNCHANGED <<tod, plt, unborn, used, slices>>
  BY DEF Block, history
<1>4. /\ interval' = DISPATCH
      /\ readyQueue' \subseteq readyQueue
      /\ current_process' \in readyQueue \cup {NULL}
      /\ current_process' \notin readyQueue'
      /\ {p \in Proc : p = current_process'} \cup readyQueue' = readyQueue
      /\ cpu' \in {"run", "stopped"}
      /\ cpu' = "run" => current_process' \in readyQueue
      /\ cpu' = "stopped" => current_process' = NULL
  <2>1. readyQueue \in SUBSET Proc
    BY <1>1 DEF TypeOK
  <2> QED BY <1>1, <2>1, DispatchKeeps DEF Block
<1>5. TypeOK'
  BY <1>1, <1>2, <1>3, <1>4, TimeAssumption DEF TypeOK
<1>6. Apart'
  <2>1. p_semAdd \in [Proc -> Wait \cup {NULL}] /\ readyQueue \subseteq Proc /\ unborn \subseteq Proc
        /\ tod \in Nat
    BY <1>1 DEF TypeOK
  <2> QED BY <1>1, <1>2, <1>3, <1>4, <2>1 DEF Apart
<1>7. NeverUndercharged'
  <2> SUFFICES ASSUME NEW p \in Alive' PROVE used'[p] <= CPUtime(p)'
    BY DEF NeverUndercharged
  <2>1. p \in Proc /\ p \in Alive
    BY <1>1, <1>3, <1>4 DEF Alive, Blocked, TypeOK
  <2>2. used[p] <= CPUtime(p)
    BY <2>1 DEF MachineInv, NeverUndercharged
  <2>3. CPUtime(p)' = p_time'[p]
    BY <1>1, <1>2, <1>3, <2>1 DEF CPUtime, Elapsed, TypeOK
  <2> QED BY <1>2, <1>3, <2>1, <2>2, <2>3
<1> QED BY <1>5, <1>6, <1>7 DEF MachineInv

-----------------------------------------------------------------------------
(***************************************************************************)
(* Every exception keeps the types, the places and the times.              *)
(***************************************************************************)
LEMMA MachineStep == MachineInv /\ [Next]_vars => MachineInv'
<1> SUFFICES ASSUME MachineInv, [Next]_vars PROVE MachineInv'
  OBVIOUS
<1>0. /\ TypeOK /\ Apart /\ NeverUndercharged
      /\ p_semAdd \in [Proc -> Wait \cup {NULL}]
      /\ readyQueue \subseteq Proc /\ unborn \subseteq Proc
      /\ tod \in Nat /\ startTime \in Nat /\ startTime <= tod
      /\ p_time \in [Proc -> Nat] /\ used \in [Proc -> Nat]
  BY DEF MachineInv, TypeOK, Apart
<1> USE DEF MachineInv
<1>1. CASE Tick
  <2>1. cpu = "run" /\ current_process \in Proc /\ interval \in Nat \ {0} /\ plt \in Nat \ {0}
    BY <1>0, <1>1 DEF Tick, Running, TypeOK
  <2>2. TypeOK'
    BY <1>0, <1>1, <2>1 DEF Tick, TypeOK, units, timeVars
  <2>3. Apart'
    BY <1>0, <1>1, <2>1 DEF Tick, Apart, timeVars
  <2>4. NeverUndercharged'
    <3> SUFFICES ASSUME NEW p \in Alive' PROVE used'[p] <= CPUtime(p)'
      BY DEF NeverUndercharged
    <3>1. p \in Alive /\ p \in Proc /\ used[p] <= CPUtime(p)
      BY <1>0, <1>1, ProcAssumption DEF Tick, Alive, Blocked, NeverUndercharged
    <3>2. CASE p = current_process
      BY <1>0, <1>1, <2>1, <3>1, <3>2 DEF Tick, CPUtime, Elapsed, timeVars
    <3>3. CASE p # current_process
      BY <1>0, <1>1, <2>1, <3>1, <3>3 DEF Tick, CPUtime, Elapsed, timeVars
    <3> QED BY <3>2, <3>3
  <2> QED BY <2>2, <2>3, <2>4
<1>2. ASSUME NEW p \in Proc, CreateProcess(p) PROVE MachineInv'
  <2>1. cpu = "run" /\ current_process \in Proc
    BY <1>0, <1>2 DEF CreateProcess, Running, TypeOK
  <2>2. TypeOK'
    BY <1>0, <1>2, <2>1 DEF CreateProcess, TypeOK, units, timers, history
  <2>3. Apart'
    BY <1>0, <1>2, <2>1 DEF CreateProcess, Apart, timers, history
  <2>4. NeverUndercharged'
    <3> SUFFICES ASSUME NEW x \in Alive' PROVE used'[x] <= CPUtime(x)'
      BY DEF NeverUndercharged
    <3>1. x \in Proc /\ (x = p \/ x \in Alive)
      BY <1>0, <1>2, <2>1 DEF CreateProcess, Alive, Blocked
    <3>2. CASE x = p
      <4>1. used[p] = 0 /\ p # current_process
        BY <1>0, <1>2, <2>1 DEF CreateProcess, Apart
      <4> QED BY <1>0, <1>2, <3>2, <4>1 DEF CreateProcess, CPUtime, history
    <3>3. CASE x # p
      BY <1>0, <1>2, <3>1, <3>3 DEF CreateProcess, CPUtime, Elapsed, history, NeverUndercharged
    <3> QED BY <3>2, <3>3
  <2> QED BY <2>2, <2>3, <2>4
<1>3. ASSUME NEW D \in SUBSET ({current_process} \cup Blocked), TerminateProcess(D)
      PROVE  MachineInv'
  <2>1. cpu = "run" /\ current_process \in Proc
    BY <1>0, <1>3 DEF TerminateProcess, Running, TypeOK
  <2>2. /\ interval' = DISPATCH
        /\ readyQueue' \subseteq readyQueue
        /\ current_process' \in readyQueue \cup {NULL}
        /\ current_process' \notin readyQueue'
        /\ {p \in Proc : p = current_process'} \cup readyQueue' = readyQueue
        /\ cpu' \in {"run", "stopped"}
        /\ cpu' = "run" => current_process' \in readyQueue
        /\ cpu' = "stopped" => current_process' = NULL
    BY <1>0, <1>3, <2>1, DispatchKeeps DEF TerminateProcess
  <2>3. /\ UNCHANGED <<status, commander, tod, startTime, p_time, plt, unborn, used, slices>>
        /\ p_semAdd' = [p \in Proc |-> IF p \in D THEN NULL ELSE p_semAdd[p]]
    BY <1>3 DEF TerminateProcess, units, timeVars, history
  <2>4. TypeOK'
    BY <1>0, <2>2, <2>3, TimeAssumption DEF TypeOK
  <2>5. Apart'
    BY <1>0, <2>1, <2>2, <2>3 DEF Apart
  <2>6. NeverUndercharged'
    <3> SUFFICES ASSUME NEW x \in Alive' PROVE used'[x] <= CPUtime(x)'
      BY DEF NeverUndercharged
    <3>1. x \in Alive /\ x \in Proc /\ x # current_process
      BY <1>0, <2>1, <2>2, <2>3 DEF Alive, Blocked, Apart
    <3> QED BY <1>0, <2>3, <3>1 DEF CPUtime, Elapsed, NeverUndercharged
  <2> QED BY <2>4, <2>5, <2>6
<1>4. CASE PasserenPasses
  <2>1. cpu = "run" /\ current_process \in Proc
    BY <1>0, <1>4 DEF PasserenPasses, Running, TypeOK
  <2>2. /\ p_time' \in [Proc -> Nat] /\ startTime' = tod
        /\ \A p \in Proc : p_time'[p] = CPUtime(p)
    BY <1>0, <1>4, <2>1, ChargeKeeps DEF PasserenPasses
  <2>3. UNCHANGED <<status, commander, tod, interval, plt, readyQueue, current_process,
                    p_semAdd, unborn, cpu, used, slices>>
    BY <1>4 DEF PasserenPasses, units, timers, history
  <2>4. TypeOK'
    BY <1>0, <2>2, <2>3 DEF TypeOK
  <2>5. Apart'
    BY <1>0, <2>2, <2>3 DEF Apart
  <2>6. NeverUndercharged'
    <3> SUFFICES ASSUME NEW x \in Alive' PROVE used'[x] <= CPUtime(x)'
      BY DEF NeverUndercharged
    <3>1. x \in Alive /\ x \in Proc /\ used[x] <= CPUtime(x)
      BY <1>0, <2>3 DEF Alive, Blocked, NeverUndercharged
    <3>2. CPUtime(x)' = p_time'[x]
      BY <1>0, <2>2, <2>3, <3>1 DEF CPUtime, Elapsed
    <3> QED BY <2>2, <2>3, <3>1, <3>2
  <2> QED BY <2>4, <2>5, <2>6
<1>5. CASE PasserenBlocks
  <2>1. UserSem \in Wait /\ Running /\ Block(UserSem)
    BY <1>5 DEF PasserenBlocks, Wait
  <2>2. /\ status' \in [Installed -> {"ready", "busy", "done"}]
        /\ commander' \in [Installed -> Proc \cup {NULL}]
    BY <1>0, <1>5 DEF PasserenBlocks, TypeOK, units
  <2> QED BY <2>1, <2>2, BlockKeeps
<1>6. ASSUME NEW p \in Proc, Verhogen(p) PROVE MachineInv'
  <2>1. cpu = "run" /\ current_process \in Proc /\ p_semAdd[p] # NULL
    BY <1>0, <1>6, WaitAssumption DEF Verhogen, Running, TypeOK
  <2>2. UNCHANGED <<status, commander, tod, startTime, p_time, interval, plt, current_process,
                    unborn, cpu, used, slices>>
    BY <1>6 DEF Verhogen, units, timeVars, timers, history
  <2>3. TypeOK'
    BY <1>0, <1>6, <2>2 DEF Verhogen, TypeOK
  <2>4. Apart'
    BY <1>0, <1>6, <2>1, <2>2 DEF Verhogen, Apart
  <2>5. NeverUndercharged'
    <3> SUFFICES ASSUME NEW x \in Alive' PROVE used'[x] <= CPUtime(x)'
      BY DEF NeverUndercharged
    <3>1. x \in Alive
      BY <1>0, <1>6, <2>1, <2>2 DEF Verhogen, Alive, Blocked
    <3> QED BY <1>0, <2>2, <3>1 DEF CPUtime, Elapsed, NeverUndercharged
  <2> QED BY <2>3, <2>4, <2>5
<1>7. ASSUME NEW u \in Installed, DoIO(u) PROVE MachineInv'
  <2>1. DoIOSem(CommandReg(u)) \in Wait /\ Running /\ Block(DoIOSem(CommandReg(u)))
    BY <1>7, DoIOSemType, InstalledAssumption DEF DoIO, Wait
  <2>2. status' \in [Installed -> {"ready", "busy", "done"}]
    BY <1>0, <1>7, WrittenType DEF DoIO
  <2>3. commander' \in [Installed -> Proc \cup {NULL}]
    BY <1>0, <1>7 DEF DoIO, Running, TypeOK
  <2> QED BY <2>1, <2>2, <2>3, BlockKeeps
<1>8. CASE WaitForClock
  <2>1. pseudoclock_semaphore \in Wait /\ Running /\ Block(pseudoclock_semaphore)
    BY <1>8 DEF WaitForClock, Wait
  <2>2. /\ status' \in [Installed -> {"ready", "busy", "done"}]
        /\ commander' \in [Installed -> Proc \cup {NULL}]
    BY <1>0, <1>8 DEF WaitForClock, TypeOK, units
  <2> QED BY <2>1, <2>2, BlockKeeps
<1>9. CASE Yield
  <2> DEFINE ready == readyQueue \cup {current_process}
  <2>1. cpu = "run" /\ current_process \in Proc /\ ready \in SUBSET Proc
    BY <1>0, <1>9 DEF Yield, Running, TypeOK
  <2>2. /\ p_time' \in [Proc -> Nat] /\ startTime' = tod
        /\ \A p \in Proc : p_time'[p] = CPUtime(p)
    BY <1>0, <1>9, <2>1, ChargeKeeps DEF Yield
  <2>3. /\ interval' = DISPATCH
        /\ readyQueue' \subseteq ready
        /\ current_process' \in ready \cup {NULL}
        /\ current_process' \notin readyQueue'
        /\ {p \in Proc : p = current_process'} \cup readyQueue' = ready
        /\ cpu' \in {"run", "stopped"}
        /\ cpu' = "run" => current_process' \in ready
        /\ cpu' = "stopped" => current_process' = NULL
    <3>1. Dispatch(ready)
      BY <1>9 DEF Yield
    <3> HIDE DEF ready
    <3> QED BY <2>1, <3>1, DispatchKeeps
  <2>4. UNCHANGED <<status, commander, tod, plt, p_semAdd, unborn, used, slices>>
    BY <1>9 DEF Yield, units, history
  <2>5. TypeOK'
    BY <1>0, <2>1, <2>2, <2>3, <2>4, TimeAssumption DEF TypeOK
  <2>6. Apart'
    BY <1>0, <2>1, <2>2, <2>3, <2>4 DEF Apart
  <2>7. NeverUndercharged'
    <3> SUFFICES ASSUME NEW x \in Alive' PROVE used'[x] <= CPUtime(x)'
      BY DEF NeverUndercharged
    <3>1. x \in Alive /\ x \in Proc /\ used[x] <= CPUtime(x)
      BY <1>0, <2>1, <2>3, <2>4 DEF Alive, Blocked, NeverUndercharged
    <3>2. CPUtime(x)' = p_time'[x]
      BY <1>0, <2>2, <2>4, <3>1 DEF CPUtime, Elapsed
    <3> QED BY <2>2, <2>4, <3>1, <3>2
  <2> QED BY <2>5, <2>6, <2>7
<1>10. ASSUME NEW u \in Installed, DeviceDone(u) PROVE MachineInv'
  <2>1. UNCHANGED <<tod, startTime, p_time, interval, plt, readyQueue, current_process,
                    p_semAdd, unborn, cpu, commander, used, slices>>
    BY <1>10 DEF DeviceDone, units, timeVars, timers, history
  <2>2. TypeOK'
    BY <1>0, <1>10, <2>1 DEF DeviceDone, Complete, TypeOK
  <2> QED BY <1>0, <2>1, <2>2 DEF Apart, NeverUndercharged, Alive, Blocked, CPUtime, Elapsed
<1>11. ASSUME NEW line \in Line, DeviceInterrupt(line) PROVE MachineInv'
  <2>1. UNCHANGED <<tod, startTime, p_time, interval, plt, readyQueue, current_process,
                    p_semAdd, unborn, cpu, commander, used, slices>>
    BY <1>11 DEF DeviceInterrupt, units, timeVars, timers, history
  <2>2. status' \in [Installed -> {"ready", "busy", "done"}]
    BY <1>0, <1>11, WrittenType DEF DeviceInterrupt, HandleNonTimerInterrupt, Acknowledged
  <2>3. TypeOK'
    BY <1>0, <2>1, <2>2 DEF TypeOK
  <2> QED BY <1>0, <2>1, <2>3 DEF Apart, NeverUndercharged, Alive, Blocked, CPUtime, Elapsed
<1>12. CASE HandlePLTInterrupt
  <2> DEFINE ready == readyQueue \cup {current_process}
  <2>1. cpu = "run" /\ current_process \in Proc /\ ready \in SUBSET Proc /\ Elapsed \in Nat
    BY <1>0, <1>12 DEF HandlePLTInterrupt, TypeOK, Elapsed
  <2>2. /\ p_time' \in [Proc -> Nat]
        /\ \A p \in Proc : p_time'[p] = CPUtime(p)
    BY <1>0, <1>12, <2>1 DEF HandlePLTInterrupt, CPUtime
  <2>3. /\ interval' = DISPATCH
        /\ readyQueue' \subseteq ready
        /\ current_process' \in ready \cup {NULL}
        /\ current_process' \notin readyQueue'
        /\ {p \in Proc : p = current_process'} \cup readyQueue' = ready
        /\ cpu' \in {"run", "stopped"}
        /\ cpu' = "run" => current_process' \in ready
        /\ cpu' = "stopped" => current_process' = NULL
    <3>1. Dispatch(ready)
      BY <1>12 DEF HandlePLTInterrupt
    <3> HIDE DEF ready
    <3> QED BY <2>1, <3>1, DispatchKeeps
  <2>4. /\ UNCHANGED <<status, commander, tod, startTime, p_semAdd, unborn, used>>
        /\ plt' = TIMESLICE /\ slices' = TRUE
    BY <1>12 DEF HandlePLTInterrupt, units
  <2>5. TypeOK'
    BY <1>0, <2>1, <2>2, <2>3, <2>4, TimeAssumption DEF TypeOK
  <2>6. Apart'
    BY <1>0, <2>1, <2>3, <2>4 DEF Apart
  <2>7. NeverUndercharged'
    <3> SUFFICES ASSUME NEW x \in Alive' PROVE used'[x] <= CPUtime(x)'
      BY DEF NeverUndercharged
    <3>1. x \in Alive /\ x \in Proc /\ used[x] <= CPUtime(x)
      BY <1>0, <2>1, <2>3, <2>4 DEF Alive, Blocked, NeverUndercharged
    <3>2. p_time'[x] \in Nat /\ CPUtime(x)' >= p_time'[x]
      BY <1>0, <2>2, <2>4, <3>1 DEF CPUtime, Elapsed
    <3>3. used[x] \in Nat /\ CPUtime(x)' \in Int
      BY <1>0, <2>2, <2>4, <3>1 DEF CPUtime, Elapsed
    <3> QED BY <2>2, <2>4, <3>1, <3>2, <3>3
  <2> QED BY <2>5, <2>6, <2>7
<1>13. CASE HandleIntervalTimerInterrupt
  <2>1. cpu = "run" /\ current_process \in Proc
    BY <1>0, <1>13 DEF HandleIntervalTimerInterrupt, TypeOK
  <2>2. /\ UNCHANGED <<status, commander, tod, startTime, p_time, plt, current_process, unborn, cpu,
                       used, slices>>
        /\ interval' = PSECOND
    BY <1>13 DEF HandleIntervalTimerInterrupt, units, timeVars, history
  <2> DEFINE woken == {p \in Proc : p_semAdd[p] = pseudoclock_semaphore}
  <2>3. /\ p_semAdd' = [p \in Proc |-> IF p \in woken THEN NULL ELSE p_semAdd[p]]
        /\ readyQueue' = readyQueue \cup woken
    BY <1>13 DEF HandleIntervalTimerInterrupt
  <2>4. \A p \in woken : p \in Proc /\ p_semAdd[p] # NULL
    BY WaitAssumption
  <2> HIDE DEF woken
  <2>5. TypeOK'
    BY <1>0, <2>2, <2>3, <2>4, TimeAssumption DEF TypeOK
  <2>6. Apart'
    BY <1>0, <2>1, <2>2, <2>3, <2>4 DEF Apart
  <2>7. NeverUndercharged'
    <3> SUFFICES ASSUME NEW x \in Alive' PROVE used'[x] <= CPUtime(x)'
      BY DEF NeverUndercharged
    <3>1. x \in Alive
      BY <1>0, <2>2, <2>3, <2>4 DEF Alive, Blocked
    <3> QED BY <1>0, <2>2, <3>1 DEF CPUtime, Elapsed, NeverUndercharged
  <2> QED BY <2>5, <2>6, <2>7
<1>14. CASE UNCHANGED vars
  BY <1>0, <1>14 DEF vars, units, timeVars, timers, history, TypeOK, Apart, NeverUndercharged,
                     Alive, Blocked, CPUtime, Elapsed
<1> QED
  BY <1>1, <1>2, <1>3, <1>4, <1>5, <1>6, <1>7, <1>8, <1>9, <1>10, <1>11, <1>12,
     <1>13, <1>14 DEF Next

(* They hold when main has dispatched the first process.                   *)
LEMMA MachineStart == Init => MachineInv
<1> SUFFICES ASSUME Init PROVE MachineInv
  OBVIOUS
<1>1. TypeOK
  <2>1. tod \in Nat /\ startTime \in Nat /\ interval \in Nat /\ plt \in Nat
    BY TimeAssumption DEF Init
  <2>2. p_time \in [Proc -> Nat] /\ used \in [Proc -> Nat]
    BY DEF Init
  <2>3. /\ p_semAdd \in [Proc -> Wait \cup {NULL}]
        /\ status \in [Installed -> {"ready", "busy", "done"}]
        /\ commander \in [Installed -> Proc \cup {NULL}]
    BY DEF Init, DevInit
  <2> QED BY <2>1, <2>2, <2>3 DEF Init, TypeOK
<1>2. Apart
  BY ProcAssumption DEF Init, Apart
<1>3. NeverUndercharged
  <2> SUFFICES ASSUME NEW p \in Alive PROVE used[p] <= CPUtime(p)
    BY DEF NeverUndercharged
  <2>1. p \in Proc /\ tod \in Nat
    BY TimeAssumption DEF Init, Alive, Blocked
  <2> QED BY <2>1 DEF Init, CPUtime, Elapsed
<1> QED BY <1>1, <1>2, <1>3 DEF MachineInv

(***************************************************************************)
(* However system calls, time slices, ticks and ends of processes follow   *)
(* each other, no process executes for longer than it is charged for.      *)
(***************************************************************************)
THEOREM NobodyUndercharged == Spec => []NeverUndercharged
<1>1. MachineInv => NeverUndercharged
  BY DEF MachineInv
<1> QED BY <1>1, MachineStart, MachineStep, PTL DEF Spec

(***************************************************************************)
(* All variables keep their types, and a process runs unless the processor *)
(* has stopped: no interrupt handler meets a current_process of NULL.      *)
(***************************************************************************)
THEOREM MachineTypes == Spec => []TypeOK
<1>1. MachineInv => TypeOK
  BY DEF MachineInv
<1> QED BY <1>1, MachineStart, MachineStep, PTL DEF Spec

-----------------------------------------------------------------------------
(***************************************************************************)
(* From one exception to the next the CPU time of a process that goes on   *)
(* living does not shrink.                                                 *)
(***************************************************************************)
LEMMA BackwardsStep ==
  ASSUME MachineInv, [Next]_vars, NEW p \in Alive, p \in Alive'
  PROVE  CPUtime(p)' >= CPUtime(p)
<1>0. /\ TypeOK /\ Apart /\ p \in Proc
      /\ readyQueue \subseteq Proc /\ unborn \subseteq Proc
      /\ p_semAdd \in [Proc -> Wait \cup {NULL}]
      /\ tod \in Nat /\ startTime \in Nat /\ startTime <= tod
      /\ p_time \in [Proc -> Nat] /\ CPUtime(p) \in Nat
  BY DEF MachineInv, TypeOK, Apart, Alive, Blocked, CPUtime, Elapsed
<1>1. ASSUME cpu = "run", UpdateCPUtime, UNCHANGED tod PROVE CPUtime(p)' >= CPUtime(p)
  <2>1. startTime' = tod /\ p_time' \in [Proc -> Nat] /\ p_time'[p] = CPUtime(p)
    BY <1>0, <1>1, ChargeKeeps
  <2> QED BY <1>0, <1>1, <2>1 DEF CPUtime, Elapsed
<1>2. ASSUME UNCHANGED <<p_time, startTime, tod, current_process>>
      PROVE  CPUtime(p)' >= CPUtime(p)
  BY <1>0, <1>2 DEF CPUtime, Elapsed
<1>3. ASSUME NEW s, Running, Block(s) PROVE CPUtime(p)' >= CPUtime(p)
  BY <1>1, <1>3 DEF Running, Block
<1>4. CASE Tick
  BY <1>0, <1>4 DEF Tick, CPUtime, Elapsed, timeVars
<1>5. ASSUME NEW q \in Proc, CreateProcess(q) PROVE CPUtime(p)' >= CPUtime(p)
  <2>1. p # q
    BY <1>0, <1>5 DEF CreateProcess, Running, Apart, Alive, Blocked
  <2> QED BY <1>0, <1>5, <2>1 DEF CreateProcess, CPUtime, Elapsed
<1>6. ASSUME NEW D \in SUBSET ({current_process} \cup Blocked), TerminateProcess(D)
      PROVE  CPUtime(p)' >= CPUtime(p)
  <2>1. cpu = "run" /\ readyQueue \in SUBSET Proc
    BY <1>0, <1>6 DEF TerminateProcess, Running
  <2>2. {x \in Proc : x = current_process'} \cup readyQueue' = readyQueue
    BY <1>6, <2>1, DispatchKeeps DEF TerminateProcess
  <2>3. p # current_process
    BY <1>0, <1>6, <2>1, <2>2 DEF TerminateProcess, Apart, Alive, Blocked
  <2> QED BY <1>0, <1>6, <2>3 DEF TerminateProcess, CPUtime, Elapsed, timeVars
<1>7. CASE HandlePLTInterrupt
  <2>1. cpu = "run" /\ current_process \in Proc /\ Elapsed \in Nat
    BY <1>0, <1>7 DEF HandlePLTInterrupt, TypeOK, Elapsed
  <2>2. p_time' \in [Proc -> Nat] /\ p_time'[p] = CPUtime(p)
    BY <1>0, <1>7, <2>1 DEF HandlePLTInterrupt, CPUtime
  <2> QED BY <1>0, <1>7, <2>2 DEF HandlePLTInterrupt, CPUtime, Elapsed
<1>8. CASE PasserenPasses
  BY <1>1, <1>8 DEF PasserenPasses, Running
<1>9. CASE Yield
  BY <1>1, <1>9 DEF Yield, Running
<1> QED
  BY <1>2, <1>3, <1>4, <1>5, <1>6, <1>7, <1>8, <1>9
  DEF Next, vars, timeVars, PasserenBlocks, DoIO, WaitForClock, Verhogen, DeviceDone,
      DeviceInterrupt, HandleIntervalTimerInterrupt

(***************************************************************************)
(* What NSYS6 answers never goes back.                                     *)
(***************************************************************************)
THEOREM TimeNeverGoesBack == Spec => NeverBackwards
<1>1. MachineInv /\ [Next]_vars =>
        [\A p \in Alive : p \in Alive' => CPUtime(p)' >= CPUtime(p)]_vars
  BY BackwardsStep
<1> QED BY <1>1, MachineStart, MachineStep, PTL DEF Spec, NeverBackwards

-----------------------------------------------------------------------------
(***************************************************************************)
(* The recursive function by which the community modules sum up the values *)
(* of f.                                                                   *)
(***************************************************************************)
SumsUp(sum, f) ==
  \A s \in SUBSET Proc :
    sum[s] = IF s = {} THEN 0
             ELSE LET x == CHOOSE x \in s : TRUE IN f[x] + sum[s \ {x}]

IsSum(sum, f) ==
  sum = [s \in SUBSET Proc |->
           IF s = {} THEN 0
           ELSE LET x == CHOOSE x \in s : TRUE IN f[x] + sum[s \ {x}]]

(***************************************************************************)
(* The set without the element the sum takes first has one element less.   *)
(***************************************************************************)
LEMMA TakeFirst ==
  ASSUME NEW s \in SUBSET Proc, s # {}
  PROVE  LET x == CHOOSE x \in s : TRUE
         IN  /\ x \in s /\ s \ {x} \in SUBSET Proc
             /\ Cardinality(s \ {x}) = Cardinality(s) - 1
             /\ Cardinality(s) \in 1 .. Cardinality(Proc)
             /\ Cardinality(s \ {x}) \in Nat
<1> DEFINE x == CHOOSE x \in s : TRUE
<1>1. x \in s
  OBVIOUS
<1> HIDE DEF x
<1>2. IsFiniteSet(s) /\ Cardinality(s) <= Cardinality(Proc)
  BY ProcAssumption, FS_Subset
<1>3. /\ IsFiniteSet(s \ {x}) /\ Cardinality(s \ {x}) = Cardinality(s) - 1
  BY <1>1, <1>2, FS_RemoveElement
<1>4. Cardinality(s) \in Nat /\ Cardinality(s \ {x}) \in Nat /\ Cardinality(Proc) \in Nat
  BY <1>2, <1>3, ProcAssumption, FS_CardinalityType
<1>5. /\ x \in s /\ s \ {x} \in SUBSET Proc
      /\ Cardinality(s \ {x}) = Cardinality(s) - 1
      /\ Cardinality(s) \in 1 .. Cardinality(Proc)
      /\ Cardinality(s \ {x}) \in Nat
  BY <1>1, <1>2, <1>3, <1>4
<1> QED BY <1>5 DEF x

(***************************************************************************)
(* The sum exists.                                                         *)
(***************************************************************************)
LEMMA SumExists ==
  ASSUME NEW f \in [Proc -> Nat]
  PROVE  \E sum : IsSum(sum, f)
<1> DEFINE N == Cardinality(Proc)
           UpToSize(m) == {s \in SUBSET Proc : Cardinality(s) <= m}
           First(s) == CHOOSE x \in s : TRUE
           Good(m) == \E g \in [UpToSize(m) -> Nat] :
                        \A s \in UpToSize(m) :
                          g[s] = IF s = {} THEN 0 ELSE f[First(s)] + g[s \ {First(s)}]
           S == {m \in 0 .. N : Good(m)}
<1>1. N \in Nat
  BY ProcAssumption, FS_CardinalityType
<1>2. \A s \in SUBSET Proc : Cardinality(s) \in 0 .. N
  BY ProcAssumption, FS_Subset, FS_CardinalityType, <1>1
<1>3. \A s \in SUBSET Proc : s # {} =>
         /\ First(s) \in s /\ s \ {First(s)} \in SUBSET Proc
         /\ Cardinality(s \ {First(s)}) = Cardinality(s) - 1
         /\ Cardinality(s) \in 1 .. N
  BY TakeFirst
<1>4. Good(0)
  <2> DEFINE g == [s \in UpToSize(0) |-> 0]
  <2>1. ASSUME NEW s \in UpToSize(0) PROVE s = {}
    <3>1. Cardinality(s) <= 0 /\ s \in SUBSET Proc
      BY <2>1
    <3>2. s # {} => Cardinality(s) \in 1 .. N
      BY <1>3, <3>1
    <3> HIDE DEF N
    <3> QED BY <1>1, <3>1, <3>2
  <2>2. g \in [UpToSize(0) -> Nat]
    OBVIOUS
  <2>3. \A s \in UpToSize(0) :
           g[s] = IF s = {} THEN 0 ELSE f[First(s)] + g[s \ {First(s)}]
    BY <2>1
  <2> HIDE DEF g
  <2> QED BY <2>2, <2>3
<1>5. ASSUME NEW k \in 1 .. N, Good(k - 1) PROVE Good(k)
  <2>1. PICK h \in [UpToSize(k - 1) -> Nat] :
           \A s \in UpToSize(k - 1) :
              h[s] = IF s = {} THEN 0 ELSE f[First(s)] + h[s \ {First(s)}]
    BY <1>5
  <2> DEFINE g == [s \in UpToSize(k) |->
                     IF s = {} THEN 0 ELSE f[First(s)] + h[s \ {First(s)}]]
  <2>2. \A s \in UpToSize(k) : s # {} =>
           /\ First(s) \in Proc /\ s \ {First(s)} \in UpToSize(k - 1)
           /\ s \ {First(s)} \in UpToSize(k)
    <3> HIDE DEF First
    <3> QED BY <1>1, <1>2, <1>3
  <2>3. g \in [UpToSize(k) -> Nat]
    <3> HIDE DEF First, UpToSize
    <3>1. ASSUME NEW s \in UpToSize(k), s # {}
          PROVE  f[First(s)] + h[s \ {First(s)}] \in Nat
      BY <2>2, <3>1
    <3> QED BY <3>1
  <2>4. ASSUME NEW s \in UpToSize(k - 1) PROVE s \in UpToSize(k) /\ g[s] = h[s]
    <3>1. s \in UpToSize(k)
      BY <1>2, <2>4
    <3> HIDE DEF First, UpToSize
    <3> QED BY <2>1, <2>4, <3>1
  <2>5. ASSUME NEW s \in UpToSize(k)
        PROVE  g[s] = IF s = {} THEN 0 ELSE f[First(s)] + g[s \ {First(s)}]
    <3> HIDE DEF First, UpToSize
    <3>1. g[s] = IF s = {} THEN 0 ELSE f[First(s)] + h[s \ {First(s)}]
      OBVIOUS
    <3> HIDE DEF g
    <3> QED BY <2>2, <2>4, <3>1
  <2> HIDE DEF g, First, UpToSize
  <2> QED BY <2>3, <2>5
<1>6. Good(N)
  <2> HIDE DEF Good
  <2>1. 0 \in S /\ \A k \in 1 .. N : k - 1 \in S => k \in S
    BY <1>1, <1>4, <1>5
  <2> HIDE DEF S, N
  <2>2. \A k \in 0 .. N : k \in S
    BY <1>1, <2>1, UpTo
  <2> QED BY <1>1, <2>2 DEF S
<1>7. UpToSize(N) = SUBSET Proc
  BY <1>1, <1>2
<1>8. PICK g \in [SUBSET Proc -> Nat] :
        \A s \in SUBSET Proc :
          g[s] = IF s = {} THEN 0 ELSE f[First(s)] + g[s \ {First(s)}]
  <2> HIDE DEF UpToSize
  <2> QED BY <1>6, <1>7
<1>9. g = [s \in SUBSET Proc |-> IF s = {} THEN 0 ELSE f[First(s)] + g[s \ {First(s)}]]
  <2> HIDE DEF First
  <2> QED BY <1>8
<1> QED BY <1>9 DEF IsSum

LEMMA SumIsOne ==
  ASSUME NEW f \in [Proc -> Nat]
  PROVE  \E sum : SumsUp(sum, f) /\ Total(f) = sum[Proc]
<1>1. IsSum(CHOOSE sum : IsSum(sum, f), f)
  BY SumExists
<1>2. Total(f) = (CHOOSE sum : IsSum(sum, f))[Proc]
  BY DEF Total, FoldFunction, FoldFunctionOnSet, MapThenFoldSet, IsSum
<1>3. PICK sum : IsSum(sum, f) /\ Total(f) = sum[Proc]
  BY <1>1, <1>2
<1>4. SumsUp(sum, f)
  BY <1>3 DEF IsSum, SumsUp
<1> QED BY <1>3, <1>4

(***************************************************************************)
(* What holds of the empty set and of a set whenever it holds of the set   *)
(* without its first element holds of Proc.                                *)
(***************************************************************************)
LEMMA SumInduction ==
  ASSUME NEW Good, {} \in Good,
         \A s \in SUBSET Proc : s # {} /\ s \ {CHOOSE x \in s : TRUE} \in Good => s \in Good
  PROVE  Proc \in Good
<1> DEFINE N == Cardinality(Proc)
           S == {m \in 0 .. N : \A s \in SUBSET Proc : Cardinality(s) = m => s \in Good}
<1>1. N \in Nat
  BY ProcAssumption, FS_CardinalityType
<1>2. 0 \in S
  <2>1. ASSUME NEW s \in SUBSET Proc, Cardinality(s) = 0 PROVE s = {}
    <3> SUFFICES ASSUME s # {} PROVE FALSE
      OBVIOUS
    <3>1. Cardinality(s) \in 1 .. Cardinality(Proc)
      BY TakeFirst
    <3> QED BY <1>1, <2>1, <3>1
  <2> QED BY <1>1, <2>1
<1>3. ASSUME NEW k \in 1 .. N, k - 1 \in S PROVE k \in S
  <2> SUFFICES ASSUME NEW s \in SUBSET Proc, Cardinality(s) = k PROVE s \in Good
    BY <1>1
  <2> DEFINE t == s \ {CHOOSE x \in s : TRUE}
  <2>1. s # {}
    BY FS_EmptySet
  <2>2. t \in SUBSET Proc /\ Cardinality(t) = k - 1
    BY <2>1, TakeFirst
  <2>3. t \in Good
    <3> HIDE DEF t
    <3> QED BY <1>3, <2>2
  <2> QED BY <2>1, <2>3
<1>4. N \in S
  <2> HIDE DEF S, N
  <2>1. \A k \in 0 .. N : k \in S
    BY <1>1, <1>2, <1>3, UpTo
  <2> QED BY <1>1, <2>1
<1> QED BY <1>4

(***************************************************************************)
(* The sum of zeros is zero.                                               *)
(***************************************************************************)
LEMMA SumOfZeros ==
  Total([p \in Proc |-> 0]) = 0
<1> DEFINE f == [p \in Proc |-> 0]
<1>1. f \in [Proc -> Nat] /\ \A p \in Proc : f[p] = 0
  OBVIOUS
<1> HIDE DEF f
<1>2. PICK sum : SumsUp(sum, f) /\ Total(f) = sum[Proc]
  BY <1>1, SumIsOne
<1> DEFINE Good == {s \in SUBSET Proc : sum[s] = 0}
<1>3. {} \in Good
  BY <1>2 DEF SumsUp
<1>4. ASSUME NEW s \in SUBSET Proc, s # {}, s \ {CHOOSE x \in s : TRUE} \in Good
      PROVE  s \in Good
  <2> DEFINE x == CHOOSE x \in s : TRUE
  <2>1. x \in Proc
    BY <1>4
  <2>2. sum[s] = f[x] + sum[s \ {x}] /\ s \ {x} \in Good
    BY <1>2, <1>4 DEF SumsUp
  <2> HIDE DEF x
  <2> QED BY <1>1, <2>1, <2>2
<1>5. Proc \in Good
  <2> HIDE DEF Good
  <2> QED BY <1>3, <1>4, SumInduction
<1> QED BY <1>2, <1>5 DEF f

(***************************************************************************)
(* To add to one value is to add to the sum.                               *)
(***************************************************************************)
LEMMA SumOfUpdate ==
  ASSUME NEW f \in [Proc -> Nat], NEW p \in Proc, NEW d \in Nat
  PROVE  /\ Total(f) \in Nat
         /\ Total([f EXCEPT ![p] = @ + d]) = Total(f) + d
<1> DEFINE g == [f EXCEPT ![p] = @ + d]
<1>1. /\ g \in [Proc -> Nat] /\ g[p] = f[p] + d
      /\ \A q \in Proc \ {p} : g[q] = f[q]
  OBVIOUS
<1> HIDE DEF g
<1>2. PICK sum : SumsUp(sum, f) /\ Total(f) = sum[Proc]
  BY SumIsOne
<1>3. PICK sumg : SumsUp(sumg, g) /\ Total(g) = sumg[Proc]
  BY <1>1, SumIsOne
<1> DEFINE Good == {s \in SUBSET Proc :
                      sum[s] \in Nat /\ sumg[s] = sum[s] + IF p \in s THEN d ELSE 0}
<1>4. {} \in Good
  <2>1. sum[{}] = 0 /\ sumg[{}] = 0
    BY <1>2, <1>3 DEF SumsUp
  <2> QED BY <2>1
<1>5. ASSUME NEW s \in SUBSET Proc, s # {}, s \ {CHOOSE x \in s : TRUE} \in Good
      PROVE  s \in Good
  <2> DEFINE x == CHOOSE x \in s : TRUE
  <2>1. x \in s /\ x \in Proc
    BY <1>5
  <2>2. sum[s] = f[x] + sum[s \ {x}] /\ sumg[s] = g[x] + sumg[s \ {x}]
    BY <1>2, <1>3, <1>5 DEF SumsUp
  <2>3. s \ {x} \in Good
    BY <1>5
  <2> HIDE DEF x
  <2>4. /\ sum[s \ {x}] \in Nat
        /\ sumg[s \ {x}] = sum[s \ {x}] + IF p \in s \ {x} THEN d ELSE 0
    BY <2>3
  <2>5. f[x] \in Nat /\ g[x] = f[x] + IF x = p THEN d ELSE 0
    BY <1>1, <2>1
  <2>6. sum[s] \in Nat
    BY <2>2, <2>4, <2>5
  <2>7. sumg[s] = sum[s] + IF p \in s THEN d ELSE 0
    <3>1. CASE x = p
      BY <2>1, <2>2, <2>4, <2>5, <3>1
    <3>2. CASE x # p
      BY <2>1, <2>2, <2>4, <2>5, <3>2
    <3> QED BY <3>1, <3>2
  <2> QED BY <2>6, <2>7
<1>6. Proc \in Good
  <2> HIDE DEF Good
  <2> QED BY <1>4, <1>5, SumInduction
<1>7. Total(f) \in Nat /\ Total(g) = Total(f) + d
  <2>1. sum[Proc] \in Nat /\ sumg[Proc] = sum[Proc] + d
    BY <1>6
  <2> QED BY <1>2, <1>3, <2>1
<1> QED BY <1>7 DEF g

(***************************************************************************)
(* Every moment up to startTime is charged, to one process only as long as *)
(* no time slice ends.  A process that is not created yet is charged       *)
(* nothing, so that its creation clears nothing.                           *)
(***************************************************************************)
ChargeInv == ChargedOnce /\ \A p \in unborn : p_time[p] = 0

LEMMA ChargeAdds ==
  ASSUME TypeOK, Apart, ChargeInv, cpu = "run",
         p_time' = [p_time EXCEPT ![current_process] = @ + Elapsed],
         unborn' \subseteq unborn,
         \/ startTime' = tod /\ UNCHANGED slices
         \/ UNCHANGED startTime /\ slices'
  PROVE  ChargeInv'
<1> DEFINE charged == Total(p_time)
<1>1. /\ p_time \in [Proc -> Nat] /\ current_process \in Proc
      /\ tod \in Nat /\ startTime \in Nat /\ startTime <= tod
      /\ Elapsed \in Nat /\ Elapsed = tod - startTime
      /\ current_process \notin unborn
      /\ unborn \subseteq Proc
  BY DEF TypeOK, Apart, Elapsed
<1>2. charged \in Nat /\ Total(p_time') = charged + Elapsed
  <2> DEFINE d == Elapsed
             p == current_process
  <2>1. p_time' = [p_time EXCEPT ![p] = @ + d]
    OBVIOUS
  <2>2. p \in Proc /\ d \in Nat
    BY <1>1
  <2> HIDE DEF d, p
  <2>3. /\ Total(p_time) \in Nat
        /\ Total([p_time EXCEPT ![p] = @ + d]) = Total(p_time) + d
    BY <1>1, <2>2, SumOfUpdate
  <2>4. Total(p_time') = Total(p_time) + d
    BY <2>1, <2>3
  <2> QED BY <2>3, <2>4 DEF d
<1>3. startTime <= charged /\ (~ slices => charged = startTime)
  BY DEF ChargeInv, ChargedOnce
<1>4. ChargedOnce'
  <2> HIDE DEF charged
  <2>1. startTime' <= charged + Elapsed /\ (~ slices' => charged + Elapsed = startTime')
    BY <1>1, <1>2, <1>3
  <2> QED BY <1>2, <2>1 DEF ChargedOnce
<1>5. ASSUME NEW p \in unborn' PROVE p_time'[p] = 0
  <2>1. p \in unborn /\ p \in Proc /\ p # current_process
    BY <1>1
  <2> QED BY <1>1, <2>1 DEF ChargeInv
<1> QED BY <1>4, <1>5 DEF ChargeInv

LEMMA ChargeStep ==
  ASSUME MachineInv, ChargeInv, [Next]_vars
  PROVE  ChargeInv'
<1>0. /\ TypeOK /\ Apart
      /\ p_time \in [Proc -> Nat]
  BY DEF MachineInv, TypeOK
<1>1. ASSUME UNCHANGED <<p_time, startTime, slices>>, unborn' \subseteq unborn
      PROVE  ChargeInv'
  BY <1>1 DEF ChargeInv, ChargedOnce
<1>2. ASSUME NEW s, Running, Block(s) PROVE ChargeInv'
  BY <1>0, <1>2, ChargeAdds DEF Running, Block, UpdateCPUtime, history
<1>3. CASE PasserenPasses
  BY <1>0, <1>3, ChargeAdds DEF PasserenPasses, Running, UpdateCPUtime, history
<1>4. CASE Yield
  BY <1>0, <1>4, ChargeAdds DEF Yield, Running, UpdateCPUtime, history
<1>5. CASE HandlePLTInterrupt
  BY <1>0, <1>5, ChargeAdds DEF HandlePLTInterrupt
<1>6. ASSUME NEW q \in Proc, CreateProcess(q) PROVE ChargeInv'
  <2>1. p_time[q] = 0
    BY <1>6 DEF CreateProcess, ChargeInv
  <2>2. p_time' = p_time
    BY <1>0, <1>6, <2>1 DEF CreateProcess
  <2> QED BY <1>1, <1>6, <2>2 DEF CreateProcess, history
<1>7. ASSUME NEW D \in SUBSET ({current_process} \cup Blocked), TerminateProcess(D)
      PROVE  ChargeInv'
  BY <1>1, <1>7 DEF TerminateProcess, timeVars, history
<1>8. CASE Tick
  BY <1>1, <1>8 DEF Tick, timeVars
<1> QED
  BY <1>1, <1>2, <1>3, <1>4, <1>5, <1>6, <1>7, <1>8
  DEF Next, vars, timeVars, history, PasserenBlocks, DoIO, WaitForClock, Verhogen,
      DeviceDone, DeviceInterrupt, HandleIntervalTimerInterrupt

(***************************************************************************)
(* Every moment up to startTime is charged to somebody, and to one process *)
(* only until a time slice ends.                                           *)
(***************************************************************************)
THEOREM TimeChargedOnce == Spec => []ChargedOnce
<1>1. Init => ChargeInv
  <2> SUFFICES ASSUME Init PROVE ChargeInv
    OBVIOUS
  <2>1. p_time = [p \in Proc |-> 0] /\ startTime = 0 /\ unborn \subseteq Proc
    BY DEF Init
  <2>2. Total(p_time) = 0
    BY <2>1, SumOfZeros
  <2> QED BY <2>1, <2>2 DEF ChargeInv, ChargedOnce
<1>2. ChargeInv => ChargedOnce
  BY DEF ChargeInv
<1> QED BY <1>1, <1>2, MachineStart, MachineStep, ChargeStep, PTL DEF Spec

-----------------------------------------------------------------------------
(***************************************************************************)
(* The units for which doIO and the handler agree.                         *)
(***************************************************************************)
Agreeing == {u \in Unit : u.sub # "recv" /\ (u.line # 7 \/ u.dev = 0)}

(* No two of them share their command register or their semaphore.         *)
LEMMA UnitsDiffer ==
  ASSUME NEW u \in Agreeing, NEW v \in Agreeing,
         CommandReg(u) = CommandReg(v) \/ SemOf(u) = SemOf(v)
  PROVE  u = v
<1>1. /\ u \in Unit /\ v \in Unit /\ u.line \in 3 .. 7 /\ v.line \in 3 .. 7
      /\ u.dev \in 0 .. 7 /\ v.dev \in 0 .. 7
      /\ u.sub = IF u.line = 7 THEN "trans" ELSE "dev"
      /\ v.sub = IF v.line = 7 THEN "trans" ELSE "dev"
  BY DEF Agreeing, Unit, Dev
<1>2. u.line = v.line /\ u.dev = v.dev => u = v
  BY <1>1 DEF Unit
<1>3. CASE CommandReg(u) = CommandReg(v)
  BY <1>1, <1>2, <1>3, CommandRegParts
<1>4. CASE SemOf(u) = SemOf(v)
  <2> DEFINE Ix(l, d) == IF l = 7 THEN 33 + 2 * d ELSE (l - 3) * 8 + d
  <2>1. SemOf(u) = Ix(u.line, u.dev) /\ SemOf(v) = Ix(v.line, v.dev)
    BY <1>1 DEF SemOf, GetSemaphoreIndex
  <2>2. ASSUME NEW l \in 3 .. 7, NEW m \in 3 .. 7, NEW d \in 0 .. 7, NEW e \in 0 .. 7,
               Ix(l, d) = Ix(m, e)
        PROVE  l = m /\ d = e
    BY <2>2
  <2> HIDE DEF Ix
  <2>3. Ix(u.line, u.dev) = Ix(v.line, v.dev)
    BY <1>4, <2>1
  <2>4. u.line = v.line /\ u.dev = v.dev
    BY <1>1, <2>2, <2>3
  <2> QED BY <1>2, <2>4
<1> QED BY <1>3, <1>4

(***************************************************************************)
(* The living process that commanded a unit waits for it, and nobody else. *)
(* A PCB that is not yet created has commanded nothing.                    *)
(***************************************************************************)
UnitsInv ==
  /\ UnitsHaveWaiters
  /\ \A u \in Installed : commander[u] \notin unborn

LEMMA WaitersStep ==
  ASSUME Installed \subseteq Agreeing, MachineInv, UnitsInv, [Next]_vars
  PROVE  UnitsInv'
<1>0. /\ TypeOK /\ Apart /\ p_semAdd \in [Proc -> Wait \cup {NULL}]
      /\ status \in [Installed -> {"ready", "busy", "done"}]
      /\ commander \in [Installed -> Proc \cup {NULL}]
      /\ readyQueue \subseteq Proc /\ unborn \subseteq Proc
      /\ cpu = "run" => current_process \in Proc /\ p_semAdd[current_process] = NULL
  BY DEF MachineInv, TypeOK, Apart
<1> DEFINE Waiting(u) == {q \in Proc : p_semAdd[q] = SemOf(u)}
<1>1. \A u \in Installed : SemOf(u) = DoIOSem(CommandReg(u)) /\ SemOf(u) \in Sem
  BY SemaphoresAgree, DoIOSemType DEF Agreeing, SemOf, SemOfUnit
<1>2. ASSUME \A u \in Installed : status'[u] # "ready" => status[u] # "ready",
             \A u \in Installed, q \in Proc : p_semAdd'[q] = SemOf(u) => p_semAdd[q] = SemOf(u),
             \A u \in Installed, q \in Proc :
                p_semAdd[q] = SemOf(u) /\ q \in Alive' => p_semAdd'[q] = SemOf(u),
             \A q \in Proc : q \in Alive' => q \in Alive \cup unborn,
             UNCHANGED commander, unborn' \subseteq unborn
      PROVE  UnitsInv'
  <2>1. \A u \in Installed : commander'[u] \notin unborn'
    BY <1>2 DEF UnitsInv
  <2> SUFFICES ASSUME NEW u \in Installed, status'[u] # "ready"
               PROVE  {q \in Proc : p_semAdd'[q] = SemOf(u)} = {commander[u]} \cap Alive'
    BY <1>2, <2>1 DEF UnitsInv, UnitsHaveWaiters
  <2>2. {q \in Proc : p_semAdd[q] = SemOf(u)} = {commander[u]} \cap Alive
    BY <1>2 DEF UnitsInv, UnitsHaveWaiters
  <2>3. \A q \in Alive' : q \in Proc
    BY MachineStep DEF MachineInv, TypeOK, Alive, Blocked
  <2>4. ASSUME NEW q \in Proc, p_semAdd'[q] = SemOf(u) PROVE q = commander[u] /\ q \in Alive'
    <3>1. q = commander[u]
      BY <1>2, <2>2, <2>4
    <3>2. p_semAdd'[q] # NULL
      BY <1>1, <2>4, WaitAssumption DEF Sem
    <3> QED BY <3>1, <3>2 DEF Alive, Blocked
  <2>5. ASSUME NEW q \in Proc, q = commander[u], q \in Alive' PROVE p_semAdd'[q] = SemOf(u)
    <3>1. q \in Alive
      BY <1>2, <2>5 DEF UnitsInv
    <3> QED BY <1>2, <2>2, <2>5, <3>1
  <2> QED BY <2>3, <2>4, <2>5
<1> HIDE DEF UnitsInv
<1>3. ASSUME Running, NEW ready \in SUBSET Proc, Dispatch(ready)
      PROVE  {q \in Proc : q = current_process'} \cup readyQueue' = ready
  BY <1>3, DispatchKeeps DEF Running
<1>4. ASSUME NEW s \in Wait, Running, Block(s)
      PROVE  /\ p_semAdd' = [p_semAdd EXCEPT ![current_process] = s]
             /\ \A q \in Proc : q \in Alive' => q \in Alive
             /\ UNCHANGED unborn
  <2>1. {q \in Proc : q = current_process'} \cup readyQueue' = readyQueue
    BY <1>0, <1>3, <1>4 DEF Block
  <2> QED BY <1>0, <1>4, <2>1 DEF Block, Alive, Blocked, Running
<1>5. ASSUME NEW s \in Wait \ Sem, Running, Block(s), UNCHANGED units PROVE UnitsInv'
  <2>1. \A u \in Installed, q \in Proc : p_semAdd'[q] = SemOf(u) <=> p_semAdd[q] = SemOf(u)
    BY <1>0, <1>1, <1>4, <1>5, WaitAssumption DEF Running, Sem
  <2> QED BY <1>2, <1>4, <1>5, <2>1 DEF units
<1>6. ASSUME NEW u \in Installed, DoIO(u) PROVE UnitsInv'
  <2>1. /\ cpu = "run" /\ current_process \in Proc /\ p_semAdd[current_process] = NULL
        /\ Running /\ SemOf(u) \in Wait /\ Block(SemOf(u))
        /\ \A p \in Proc : p_semAdd[p] # SemOf(u)
        /\ status' = Written(CommandReg(u), "busy")
        /\ commander' = [commander EXCEPT ![u] = current_process]
    BY <1>0, <1>1, <1>6, WaitAssumption DEF DoIO, Running, Blocked, Sem, Wait
  <2>2. /\ p_semAdd' = [p_semAdd EXCEPT ![current_process] = SemOf(u)]
        /\ \A q \in Proc : q \in Alive' => q \in Alive
        /\ UNCHANGED unborn
    BY <1>4, <2>1
  <2>3. current_process \notin unborn /\ \A v \in Installed : commander[v] \notin unborn
    BY <2>1 DEF MachineInv, Apart, UnitsInv
  <2>4. \A v \in Installed : commander'[v] \notin unborn'
    BY <1>0, <2>1, <2>2, <2>3
  <2> SUFFICES ASSUME NEW v \in Installed, status'[v] # "ready"
               PROVE  {q \in Proc : p_semAdd'[q] = SemOf(v)} = {commander'[v]} \cap Alive'
    BY <2>4 DEF UnitsInv, UnitsHaveWaiters
  <2>5. CASE v = u
    <3>1. {q \in Proc : p_semAdd'[q] = SemOf(v)} = {current_process}
      BY <1>0, <2>1, <2>2, <2>5
    <3>2. p_semAdd'[current_process] # NULL
      BY <1>0, <1>1, <2>1, <2>2, WaitAssumption DEF Sem
    <3>3. current_process \in Alive'
      BY <2>1, <3>2 DEF Alive, Blocked
    <3> QED BY <1>0, <2>1, <2>5, <3>1, <3>3
  <2>6. CASE v # u
    <3>1. SemOf(v) # SemOf(u) /\ CommandReg(v) # CommandReg(u) /\ SemOf(v) # NULL
      BY <1>1, <2>6, UnitsDiffer, WaitAssumption DEF Sem
    <3>2. status[v] # "ready"
      BY <2>1, <3>1 DEF Written
    <3>3. {q \in Proc : p_semAdd[q] = SemOf(v)} = {commander[v]} \cap Alive
      BY <3>2 DEF UnitsInv, UnitsHaveWaiters
    <3>4. \A q \in Proc : p_semAdd'[q] = SemOf(v) <=> p_semAdd[q] = SemOf(v)
      BY <1>0, <2>1, <2>2, <3>1
    <3>5. commander'[v] = commander[v]
      BY <1>0, <2>1, <2>6
    <3>6. \A q \in Alive' : q \in Proc
      BY MachineStep DEF MachineInv, TypeOK, Alive, Blocked
    <3>7. \A q \in Proc : p_semAdd'[q] = SemOf(v) => q \in Alive'
      BY <3>1 DEF Alive, Blocked
    <3> QED BY <2>2, <3>3, <3>4, <3>5, <3>6, <3>7
  <2> QED BY <2>5, <2>6
<1>7. ASSUME NEW p \in Proc, Verhogen(p) PROVE UnitsInv'
  <2>1. /\ \A u \in Installed, q \in Proc : p_semAdd'[q] = SemOf(u) <=> p_semAdd[q] = SemOf(u)
        /\ \A q \in Proc : q \in Alive' => q \in Alive
    BY <1>0, <1>1, <1>7, WaitAssumption DEF Verhogen, Sem, Alive, Blocked
  <2> QED BY <1>2, <1>7, <2>1 DEF Verhogen, units
<1>8. ASSUME NEW D \in SUBSET ({current_process} \cup Blocked), TerminateProcess(D) PROVE UnitsInv'
  <2>1. {q \in Proc : q = current_process'} \cup readyQueue' = readyQueue
    BY <1>0, <1>3, <1>8 DEF TerminateProcess
  <2>2. p_semAdd' = [q \in Proc |-> IF q \in D THEN NULL ELSE p_semAdd[q]]
    BY <1>8 DEF TerminateProcess
  <2>3. \A q \in Proc : q \in Alive' => q \in Alive /\ q \notin D
    BY <1>0, <1>8, <2>1, <2>2 DEF Alive, Blocked, Apart, TerminateProcess, Running
  <2>4. \A u \in Installed, q \in Proc : p_semAdd'[q] = SemOf(u) => p_semAdd[q] = SemOf(u)
    BY <1>1, <2>2, WaitAssumption DEF Sem
  <2>5. \A u \in Installed, q \in Proc :
           p_semAdd[q] = SemOf(u) /\ q \in Alive' => p_semAdd'[q] = SemOf(u)
    BY <2>2, <2>3
  <2> QED BY <1>2, <1>8, <2>3, <2>4, <2>5 DEF TerminateProcess, units
<1>9. ASSUME NEW u \in Installed, DeviceDone(u) PROVE UnitsInv'
  BY <1>0, <1>2, <1>9 DEF DeviceDone, Complete, Alive, Blocked
<1>10. ASSUME NEW line \in Line, DeviceInterrupt(line) PROVE UnitsInv'
  BY <1>0, <1>2, <1>10 DEF DeviceInterrupt, HandleNonTimerInterrupt, Acknowledged, Written, Alive, Blocked
<1>11. CASE HandleIntervalTimerInterrupt
  <2>1. /\ \A u \in Installed, q \in Proc : p_semAdd'[q] = SemOf(u) <=> p_semAdd[q] = SemOf(u)
        /\ \A q \in Proc : q \in Alive' => q \in Alive
    BY <1>0, <1>1, <1>11, WaitAssumption
    DEF HandleIntervalTimerInterrupt, Sem, Alive, Blocked
  <2> QED BY <1>2, <1>11, <2>1 DEF HandleIntervalTimerInterrupt, units
<1>12. CASE PasserenBlocks
  BY <1>5, <1>12, WaitAssumption DEF PasserenBlocks, Wait, Sem
<1>13. CASE WaitForClock
  BY <1>5, <1>13, WaitAssumption DEF WaitForClock, Wait, Sem
<1>14. ASSUME NEW p \in Proc, CreateProcess(p) PROVE UnitsInv'
  <2>1. \A q \in Proc : q \in Alive' => q \in Alive \cup unborn
    BY <1>14 DEF CreateProcess, Alive, Blocked
  <2> QED BY <1>2, <1>14, <2>1 DEF CreateProcess, units
<1>15. ASSUME UNCHANGED <<units, p_semAdd, unborn>>,
              {q \in Proc : q = current_process'} \cup readyQueue' =
                 {q \in Proc : q = current_process} \cup readyQueue
       PROVE  UnitsInv'
  <2>1. \A q \in Proc : q \in Alive' => q \in Alive
    BY <1>15 DEF Alive, Blocked
  <2> QED BY <1>2, <1>15, <2>1 DEF units
<1>16. ASSUME Yield \/ HandlePLTInterrupt PROVE UnitsInv'
  <2>1. /\ cpu = "run" /\ Dispatch(readyQueue \cup {current_process})
        /\ UNCHANGED <<units, p_semAdd, unborn>>
    BY <1>16 DEF Yield, HandlePLTInterrupt, Running
  <2>2. readyQueue \cup {current_process} = {q \in Proc : q = current_process} \cup readyQueue
    BY <1>0, <2>1
  <2>3. readyQueue \cup {current_process} \in SUBSET Proc
    BY <1>0, <2>1
  <2>4. {q \in Proc : q = current_process'} \cup readyQueue' = readyQueue \cup {current_process}
    BY <2>1, <2>3, DispatchKeeps
  <2> QED BY <1>15, <2>1, <2>2, <2>4
<1>17. ASSUME Tick \/ PasserenPasses \/ UNCHANGED vars PROVE UnitsInv'
  BY <1>15, <1>17 DEF Tick, PasserenPasses, vars
<1> QED
  BY <1>6, <1>7, <1>8, <1>9, <1>10, <1>11, <1>12, <1>13, <1>14, <1>16, <1>17 DEF Next

(***************************************************************************)
(* On any machine without receivers, whose only terminal is terminal 0,    *)
(* the process that commanded a unit waits where the handler would look    *)
(* for it, and alone.                                                      *)
(***************************************************************************)
THEOREM WaitersAreWhereTheyShould ==
  ASSUME Installed \subseteq Agreeing
  PROVE  Spec => []UnitsHaveWaiters
<1>1. Init => UnitsInv
  BY ProcAssumption DEF Init, DevInit, UnitsHaveWaiters, UnitsInv
<1>2. MachineInv /\ UnitsInv /\ [Next]_vars => UnitsInv'
  BY WaitersStep
<1>3. UnitsInv => UnitsHaveWaiters
  BY DEF UnitsInv
<1> QED BY <1>1, <1>2, <1>3, MachineStart, MachineStep, PTL DEF Spec

(***************************************************************************)
(* The handler of a line acknowledges one finished unit, that of the       *)
(* lowest number, and its V is for the semaphore of this unit.             *)
(***************************************************************************)
LEMMA AnswersOne ==
  ASSUME Installed \subseteq Agreeing, MachineInv, NEW line \in Line, BitMap(line) # {}
  PROVE  \E u \in Installed :
           /\ status[u] = "done" /\ u.line = line /\ SemToV(line) = SemOf(u)
           /\ Acknowledged(line) = [status EXCEPT ![u] = "ready"]
<1> DEFINE d == Chosen(line)
<1>1. d \in BitMap(line)
  <2>1. BitMap(line) \in SUBSET Nat /\ BitMap(line) # {}
    BY InstalledAssumption DEF BitMap, Unit, Dev
  <2>2. \E x \in BitMap(line) : \A y \in BitMap(line) : x <= y
    <3> DEFINE B == BitMap(line)
    <3> HIDE DEF B
    <3>1. B \in SUBSET Nat /\ B # {}
      BY <2>1 DEF B
    <3>2. \E x \in B : \A y \in B : x <= y
      BY <3>1, LeastExists
    <3> QED BY <3>2 DEF B
  <2> QED BY <2>2 DEF Chosen, GetHighestPriorityDevice
<1>2. PICK u \in Installed : u.dev = d /\ u.line = line /\ status[u] = "done"
  BY <1>1 DEF BitMap
<1> HIDE DEF d
<1>3. u \in Agreeing /\ u \in Unit /\ (line # 7 \/ d = 0)
  BY <1>2 DEF Agreeing
<1>4. /\ StatusAddr(line, d, u.sub = "trans") = StatusReg(u)
      /\ CommandAddr(line, d, u.sub = "trans") = CommandReg(u)
  BY <1>2, <1>3, RegistersAgree
<1>5. IsTransmitter(line, d) = (u.sub = "trans")
  <2>1. CASE line = 7
    <3>1. u.sub = "trans"
      BY <1>2, <1>3, <2>1 DEF Agreeing, Unit
    <3>2. StatusAddr(7, d, TRUE) = StatusReg(u)
      BY <1>4, <2>1, <3>1
    <3> QED BY <1>2, <2>1, <3>1, <3>2 DEF IsTransmitter, StatusIsZero
  <2>2. CASE line # 7
    BY <1>2, <1>3, <2>2 DEF IsTransmitter, Unit
  <2> QED BY <2>1, <2>2
<1>6. SemToV(line) = SemOf(u)
  BY <1>2, <1>5 DEF SemToV, SemOf, d
<1>7. Acknowledged(line) = Written(CommandReg(u), "ready")
  BY <1>4, <1>5 DEF Acknowledged, d
<1>8. \A v \in Installed : CommandReg(v) = CommandReg(u) => v = u
  BY <1>3, UnitsDiffer
<1>9. Acknowledged(line) = [status EXCEPT ![u] = "ready"]
  BY <1>7, <1>8 DEF Written, MachineInv, TypeOK
<1> QED BY <1>2, <1>6, <1>9

(***************************************************************************)
(* On such a machine every device interrupt acknowledges the unit it is    *)
(* for and no other.                                                       *)
(***************************************************************************)
THEOREM HandlerAnswersItsUnit ==
  ASSUME Installed \subseteq Agreeing
  PROVE  Spec => []AnswersItsUnit
<1>1. MachineInv => AnswersItsUnit
  BY AnswersOne DEF AnswersItsUnit
<1> QED BY <1>1, MachineStart, MachineStep, PTL DEF Spec
=============================================================================
