------------------------------- MODULE Decode -------------------------------
(***************************************************************************)
(* From the cause of an exception to its handler: exceptionHandler of      *)
(* phase2/exceptions.c, findHighestPriorityInterrupt and interruptHandler  *)
(* of phase2/interrupts.c.                                                 *)
(*                                                                         *)
(* A cause is what getCAUSE() returns: the interrupt bit 31 and, below it, *)
(* the code of the exception or of the interrupt line, as the case labels  *)
(* of interrupts.c and the handlers of phase2/p2test.c have it.  Code 8 or *)
(* 11 is a system call, 24 to 28 a TLB exception, 3, 7 and 17 to 21 are    *)
(* interrupts.                                                             *)
(***************************************************************************)
EXTENDS Integers

Code  == 0 .. 31
Cause == [interrupt : BOOLEAN, code : Code]

(***************************************************************************)
(* CAUSE_IP_GET(cause, il) tests bit il + 8, given here as 2 ^ (il + 8);   *)
(* it is below the interrupt bit.                                          *)
(***************************************************************************)
IP_GET(cause, bit) == (cause.code \div bit) % 2 = 1

IL_TIMER    == 2048         \* 3
IL_CPUTIMER == 32768        \* 7
IL_DISK     == 33554432     \* 17
IL_FLASH    == 67108864
IL_ETHERNET == 134217728
IL_PRINTER  == 268435456
IL_TERMINAL == 536870912    \* 21

IsInterrupt(cause) ==
  \E bit \in {IL_TIMER, IL_CPUTIMER, IL_DISK, IL_FLASH, IL_ETHERNET, IL_PRINTER,
              IL_TERMINAL} : IP_GET(cause, bit)

(***************************************************************************)
(* exceptionHandler: bits 2 to 6 of the cause, shifted.                    *)
(***************************************************************************)
ExcCode(cause) == (cause.code \div 4) % 32

Handler(cause) ==
  IF IsInterrupt(cause)                  THEN "interruptHandler"
  ELSE IF ExcCode(cause) \in 24 .. 28    THEN "tlbHandler"
  ELSE IF ExcCode(cause) \in {8, 11}     THEN "syscallHandler"
  ELSE "programTrapHandler"

(***************************************************************************)
(* findHighestPriorityInterrupt: the same bits, not shifted; 0 is no line. *)
(* bitMap says which lines have an interrupting device.                    *)
(***************************************************************************)
Masked(cause) == 4 * ((cause.code \div 4) % 32)

LineOfCode ==
  [c \in {7, 3} \cup 17 .. 21 |->
     IF c = 7 THEN 1 ELSE IF c = 3 THEN 2 ELSE c - 14]

InterruptLine(cause, bitMap) ==
  IF Masked(cause) \in DOMAIN LineOfCode
     /\ (LineOfCode[Masked(cause)] >= 3 => bitMap[LineOfCode[Masked(cause)]])
  THEN LineOfCode[Masked(cause)] ELSE 0

(***************************************************************************)
(* interruptHandler: what it calls for the line; for line 0 it returns.    *)
(***************************************************************************)
Served(cause, bitMap) ==
  LET line == InterruptLine(cause, bitMap)
  IN  IF line = 0      THEN "return"
      ELSE IF line = 1 THEN "handlePLTInterrupt"
      ELSE IF line = 2 THEN "handleIntervalTimerInterrupt"
      ELSE "handleNonTimerInterrupt"

=============================================================================
