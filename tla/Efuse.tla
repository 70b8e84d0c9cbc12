------------------------------- MODULE Efuse -------------------------------
(***************************************************************************)
(* efuseRead() of src/dongle/mt76.cpp: the EFUSE memory of the chip has to *)
(* be asked for a block of 16 bytes, is busy for a while, and shows the    *)
(* block in four data registers of 32 bits.  The chip is external.         *)
(***************************************************************************)
EXTENDS Integers, Sequences, FiniteSets

CONSTANTS
  Contents,   \* what the EFUSE may contain: functions from Address to Byte
  Faults,     \* what may fail: "control", "bulk", "timeout"
  MaxFailures \* bound: how many failures there are

Byte    == 0 .. 255
Address == 0 .. 15 \cup 48 .. 63 \cup 80 .. 127 \cup 144 .. 159  \* of the blocks read

ASSUME EfuseAssumption ==
  /\ \A content \in Contents : content \in [Address -> Byte]
  /\ MaxFailures \in Nat

VARIABLES
  pc,          \* "kick", "poll", "read" and "use" are those of efuseRead()
  reading,     \* the call of efuseRead(): for whom, and its arguments
  data,        \* what it has read
  disturbed,   \* history: for whom something failed
  failures,    \* how many failures there were
  interrupted, \* UsbDevice::terminate was called
  efuse,       \* chip: the EFUSE memory
  block,       \* chip: the block asked for
  busy,        \* chip: the KICK bit
  latched      \* chip: the block in the data registers

failVars  == <<disturbed, failures, interrupted>>
readVars  == <<reading, data>>
memVars   == <<efuse, block, busy, latched>>
efuseVars == <<pc, readVars, failVars, memVars>>

EfuseInit ==
  /\ reading = [by |-> <<"nobody", 0>>, address |-> 0, length |-> 0]
  /\ data = <<>>
  /\ disturbed = {}
  /\ failures = 0
  /\ interrupted = FALSE
  /\ efuse \in Contents
  /\ block = 0
  /\ busy = FALSE
  /\ latched = 0

-----------------------------------------------------------------------------
(* Mutated forms of the definitions that follow                            *)

\* The data registers are taken to begin at the address itself.
FirstRegisterUnaligned == reading.address % 16

-----------------------------------------------------------------------------
(* A control transfer that fails interrupts the main thread but is         *)
(* otherwise not noticed; a read then yields zero.                         *)

Fails(fault) ==
  /\ fault \in Faults
  /\ failures < MaxFailures
  /\ failures' = failures + 1
  /\ disturbed' = disturbed \cup {reading.by}
  /\ interrupted' = (interrupted \/ fault # "timeout")

\* The call of efuseRead()
Read(by, address, length) ==
  /\ pc' = "kick"
  /\ reading' = [by |-> by, address |-> address, length |-> length]
  /\ data' = <<>>

\* addressIn = address & ~0x0f, and the KICK bit: read, and written back
Kick ==
  /\ pc = "kick"
  /\ pc' = "poll"
  /\ \/ /\ block' = reading.address - (reading.address % 16)
        /\ busy' = TRUE
        /\ UNCHANGED failVars \/ Fails("control")
     \/ /\ Fails("control")
        /\ UNCHANGED <<block, busy>>
  /\ UNCHANGED <<readVars, efuse, latched>>

\* pollTimeout() until the KICK bit is clear; on a timeout there is no data.
Poll ==
  /\ pc = "poll"
  /\ \/ ~busy /\ pc' = "read" /\ UNCHANGED failVars
     \/ Fails("control") /\ pc' = "read"
     \/ busy /\ Fails("timeout") /\ pc' = "use"
  /\ UNCHANGED <<readVars, memVars>>

\* (address & 0x0c) + i: where the word to read next begins
FirstRegister == (reading.address % 16) - (reading.address % 4)
Register == FirstRegister + Len(data)

\* Of the last word only the bytes that remain are taken.
Size == IF reading.length - Len(data) < 4 THEN reading.length - Len(data) ELSE 4

\* There are 16 bytes of data registers.
Stored(register) ==
  IF register < 16 /\ latched + register \in Address THEN efuse[latched + register] ELSE 0

ReadWord ==
  /\ pc = "read"
  /\ \/ /\ data' = data \o [k \in 1 .. Size |-> Stored(Register + k - 1)]
        /\ UNCHANGED failVars
     \/ /\ Fails("control")
        /\ data' = data \o [k \in 1 .. Size |-> 0]
  /\ pc' = IF Len(data') = reading.length THEN "use" ELSE "read"
  /\ UNCHANGED <<reading, memVars>>

\* The chip has read the block it was asked for last: external
ChipReads ==
  /\ busy
  /\ busy' = FALSE
  /\ latched' = block
  /\ UNCHANGED <<pc, readVars, failVars, efuse, block>>

EfuseNext == Kick \/ Poll \/ ReadWord \/ ChipReads

-----------------------------------------------------------------------------
(* What efuseRead() returns                                                *)

\* The caller continues with what was read; it is complete or there is none.
Used(by) == pc = "use" /\ reading.by = by
Complete == Len(data) = reading.length
=============================================================================
