----------------------------- MODULE DeviceMap -----------------------------
(***************************************************************************)
(* Where the registers and the semaphores of a device are, once as the     *)
(* hardware has them, once as doIO (phase2/exceptions.c) computes them     *)
(* from the address of a command register, and once as the interrupt       *)
(* handler (phase2/interrupts.c) computes them from a line and a device    *)
(* number.                                                                 *)
(*                                                                         *)
(* A unit is what executes commands: a device of the lines 3 to 6, or one  *)
(* half of a terminal of line 7.  Addresses count from 0x10000000.         *)
(***************************************************************************)
EXTENDS Integers

Line == 3 .. 7
Dev  == 0 .. 7

Unit == [line : 3 .. 6, dev : Dev, sub : {"dev"}]
          \cup [line : {7}, dev : Dev, sub : {"recv", "trans"}]

START_DEVREG == 84    \* 0x54
WORDLEN      == 4
DEVPERINT    == 8
DEVINTNUM    == 5
RECVCOMMAND  == 1

-----------------------------------------------------------------------------
(***************************************************************************)
(* The hardware: 0x10 bytes of registers for every device, status before   *)
(* command, and in a terminal the receiver before the transmitter.         *)
(***************************************************************************)
DeviceBase(line, dev) == START_DEVREG + 128 * (line - 3) + 16 * dev
StatusReg(u)  == DeviceBase(u.line, u.dev) + IF u.sub = "trans" THEN 8 ELSE 0
CommandReg(u) == StatusReg(u) + WORDLEN

-----------------------------------------------------------------------------
(***************************************************************************)
(* doIO: the line, the device and the semaphore for a command address; -1  *)
(* is an address it refuses.  The base that fieldOffset counts from is the *)
(* address with its last four bits cleared.                                *)
(***************************************************************************)
LineIndex(addr)   == (addr - START_DEVREG) \div 128
DeviceNum(addr)   == ((addr - START_DEVREG) % 128) \div 16
FieldOffset(addr) == addr - 16 * (addr \div 16)

DoIOSemOneLess(addr) ==   \* mutant: the lines are counted from 4
  (LineIndex(addr) - 1) * DEVPERINT + DeviceNum(addr)

DoIOSem(addr) ==
  CASE LineIndex(addr) \in 0 .. 3 ->
         LineIndex(addr) * DEVPERINT + DeviceNum(addr)
    [] LineIndex(addr) = 4 /\ FieldOffset(addr) = RECVCOMMAND * WORDLEN ->
         (DEVINTNUM - 1) * DEVPERINT + 2 * DeviceNum(addr)
    [] LineIndex(addr) = 4 /\ FieldOffset(addr) # RECVCOMMAND * WORDLEN ->
         (DEVINTNUM - 1) * DEVPERINT + 2 * DeviceNum(addr) + 1
    [] OTHER -> -1

-----------------------------------------------------------------------------
(***************************************************************************)
(* interrupts.c: the registers that the handler of a line reads and        *)
(* writes, and the semaphore it does its V on.                             *)
(***************************************************************************)
TERM_REG_BASE == 596   \* 0x254
DEV_REG_SIZE  == 128   \* 0x80

GetDeviceRegAddr(line, dev) == START_DEVREG + (line - 3) * DEV_REG_SIZE + dev * 16
TermBase(dev) == TERM_REG_BASE + dev * DEV_REG_SIZE

StatusAddr(line, dev, isTransmitter) ==
  IF line # 7 THEN GetDeviceRegAddr(line, dev)
  ELSE TermBase(dev) + IF isTransmitter THEN 8 ELSE 0

CommandAddr(line, dev, isTransmitter) == StatusAddr(line, dev, isTransmitter) + 4

GetSemaphoreIndex(line, dev, isTransmitter) ==
  IF line = 7 THEN 32 + 2 * dev + IF isTransmitter THEN 1 ELSE 0
  ELSE (line - 3) * 8 + dev
=============================================================================
