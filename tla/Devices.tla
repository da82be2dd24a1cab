------------------------------ MODULE Devices ------------------------------
(***************************************************************************)
(* The device registers: commands that doIO writes, operations that come   *)
(* to an end, and the handler of the device interrupts, from the bit map   *)
(* to the acknowledgement (handleNonTimerInterrupt of phase2/interrupts.c  *)
(* as far as its registers go).                                            *)
(***************************************************************************)
EXTENDS DeviceMap

CONSTANT Installed   \* the units that the machine has

ASSUME InstalledAssumption == Installed \subseteq Unit

VARIABLE status      \* the status register of every installed unit

(***************************************************************************)
(* The low byte of the word at an address is 0 where no unit is installed. *)
(* A status is never 0: an idle unit is ready, which is 1.                 *)
(***************************************************************************)
StatusIsZero(addr) == ~ \E u \in Installed : StatusReg(u) = addr

(***************************************************************************)
(* A word written to an address reaches the unit that has its command      *)
(* register there, if any.                                                 *)
(***************************************************************************)
Written(addr, value) ==
  [u \in Installed |-> IF CommandReg(u) = addr THEN value ELSE status[u]]

DevInit == status = [u \in Installed |-> "ready"]

(***************************************************************************)
(* The hardware executes a command, and raises an interrupt when it is     *)
(* done, which lasts until the unit is acknowledged.                       *)
(***************************************************************************)
Complete(u) ==
  /\ status[u] = "busy"
  /\ status' = [status EXCEPT ![u] = "done"]

BitMap(line) == {u.dev : u \in {x \in Installed : x.line = line /\ status[x] = "done"}}

IsTransmitterNever(line, dev) == FALSE   \* mutant: the receiver is taken

GetHighestPriorityDevice(bitMap) == CHOOSE d \in bitMap : \A e \in bitMap : d <= e

IsTransmitter(line, dev) == line = 7 /\ ~ StatusIsZero(StatusAddr(7, dev, TRUE))

(***************************************************************************)
(* The handler for a line: a spurious interrupt, with an empty bit map, is *)
(* not passed on to it.  SemToV is the semaphore it does its V on.         *)
(***************************************************************************)
Chosen(line) == GetHighestPriorityDevice(BitMap(line))

SemToV(line) ==
  GetSemaphoreIndex(line, Chosen(line), IsTransmitter(line, Chosen(line)))

Acknowledged(line) ==
  LET dev == Chosen(line)
  IN  Written(CommandAddr(line, dev, IsTransmitter(line, dev)), "ready")

HandleNonTimerInterrupt(line) ==
  /\ BitMap(line) # {}
  /\ status' = Acknowledged(line)
=============================================================================
