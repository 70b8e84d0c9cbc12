------------------------------ MODULE Firmware ------------------------------
(***************************************************************************)
(* Loading the firmware: Mt76::loadFirmware(), loadFirmwarePart() and      *)
(* pollTimeout() (src/dongle/mt76.cpp), and the chip that copies each      *)
(* chunk to its memory on its own while the host polls a register.  The    *)
(* chip is external, modelled from what the code expects of it.            *)
(*                                                                         *)
(* A control transfer that fails returns nothing to its caller: a read     *)
(* gives zero, a write is lost, and the code goes on; UsbDevice only asks  *)
(* the main thread to stop.                                                *)
(*                                                                         *)
(* A process may die at any moment, or give up, and the next one finds the *)
(* chip as it was left.                                                    *)
(***************************************************************************)
EXTENDS Naturals, Sequences

CONSTANTS
  IlmLength, DlmLength,  \* the lengths of the two parts
  IlmOffset, DlmOffset,  \* MT_MCU_ILM_OFFSET, MT_MCU_DLM_OFFSET
  ChunkSize,             \* MT_FW_CHUNK_SIZE
  Faults,                \* what fails: "file", "control", "bulk"
  MaxRestarts            \* bound: how often another process is started

\* What MT_FCE_DMA_ADDR reads besides addresses: nothing is loaded, the firmware
\* runs, the chip was reset (0x00, 0x01, 0x80000000).
Zero == 0
Runs == 1
WasReset == 2

ASSUME FirmwareAssumption ==
  /\ IlmLength \in Nat /\ DlmLength \in Nat
  /\ ChunkSize \in Nat \ {0}
  /\ IlmOffset \in Nat /\ IlmOffset > WasReset
  /\ DlmOffset \in Nat /\ DlmOffset >= IlmOffset + IlmLength
  /\ MaxRestarts \in Nat

Part == {"ilm", "dlm"}
Length(p) == IF p = "ilm" THEN IlmLength ELSE DlmLength
Offset(p) == IF p = "ilm" THEN IlmOffset ELSE DlmOffset
Address == IlmOffset .. DlmOffset + DlmLength
Nothing == [part |-> "none", index |-> 0]

VARIABLES
  pc,          \* where the host is
  part, chunk, \* the part and the chunk that it loads
  addrReg,     \* chip: MT_FCE_DMA_ADDR
  lenReg,      \* chip: MT_FCE_DMA_LEN without ...
  complete,    \* ... its bits MT_DMA_COMPLETE
  enabled,     \* chip: DMA is configured
  dma,         \* chip: the chunks it has received and not copied yet
  memory,      \* chip: the content of its memory
  chip,        \* chip: "idle", "running", "resetting" or "starting"
  interrupted, \* UsbDevice::terminate was called
  misled,      \* history: MT_FCE_DMA_ADDR did not show what the chip was about
  restarts     \* how many processes have followed the first

hostVars == <<pc, part, chunk>>
chipVars == <<addrReg, lenReg, complete, enabled, dma, memory, chip>>
pastVars == <<misled, restarts>>
vars == <<hostVars, chipVars, interrupted, pastVars>>

\* The chip was just plugged in, or runs what some program has loaded.
Init ==
  /\ pc = "open"
  /\ part = "ilm" /\ chunk = 0
  /\ lenReg = 0 /\ complete = FALSE
  /\ dma = <<>>
  /\ memory = [a \in Address |-> Nothing]
  /\ \/ chip = "idle" /\ addrReg = Zero /\ enabled = FALSE
     \/ chip = "running" /\ addrReg = Runs /\ enabled = TRUE
  /\ interrupted = FALSE
  /\ misled = FALSE /\ restarts = 0

-----------------------------------------------------------------------------
(* Mutated forms of the definitions that follow                            *)

\* Only whole chunks are loaded.
MoreChunksWhole == chunk + ChunkSize <= Length(part)

\* The completion bits are not waited for.
ChunkCopiedByLength == lenReg = IF ChunkSize < Length(part) - chunk
                                THEN ChunkSize ELSE Length(part) - chunk

\* Only the mark of a firmware that runs is noticed, not an address that an earlier
\* process has left in its place.
AlreadyLoadedByMark == addrReg = Runs

\* pollTimeout() polls for ever.
ExpiredNever == FALSE

-----------------------------------------------------------------------------
(* The host                                                                *)

Goto(label) == pc' = label

\* A control transfer that fails.
ControlError == "control" \in Faults /\ interrupted' = TRUE
NoError      == UNCHANGED interrupted

\* The firmware file is read, or cannot be.
Open ==
  /\ pc = "open"
  /\ Goto("check") \/ ("file" \in Faults /\ Goto("failed"))
  /\ UNCHANGED <<part, chunk, chipVars, interrupted>>

\* if (controlRead(MT_FCE_DMA_ADDR))
AlreadyLoaded == addrReg # Zero

\* The chip resets for an earlier process or has just done so, which a second reset
\* is taken for; or it starts or runs though the register was cleared.
Misleading ==
  chip = "resetting" \/ addrReg = WasReset \/ (addrReg = Zero /\ chip # "idle")

Check ==
  /\ pc = "check"
  /\ \/ Goto(IF AlreadyLoaded THEN "reset" ELSE "configure") /\ NoError
     \/ Goto("configure") /\ ControlError
  /\ misled' = Misleading
  /\ UNCHANGED <<part, chunk, chipVars, restarts>>

\* The RF patch is cleared and the reset of the IVB requested.
Reset ==
  /\ pc = "reset"
  /\ Goto("pollReset")
  /\ \/ chip' = "resetting" /\ NoError
     \/ chip' \in {chip, "resetting"} /\ ControlError
  /\ UNCHANGED <<part, chunk, addrReg, lenReg, complete, enabled, dma, memory>>

\* A condition of pollTimeout() holds.  A read that fails gives zero, which
\* no condition waits for.
Polled(label, reached, next) ==
  /\ pc = label
  /\ reached
  /\ next
  /\ UNCHANGED <<chipVars, interrupted>>

PollReset ==
  Polled("pollReset", addrReg = WasReset, Goto("configure") /\ UNCHANGED <<part, chunk>>)

\* The seven writes that configure DMA; a lost one leaves it as it was.
Configure ==
  /\ pc = "configure"
  /\ Goto("chunk")
  /\ \/ enabled' = TRUE /\ NoError
     \/ UNCHANGED enabled /\ ControlError
  /\ UNCHANGED <<part, chunk, addrReg, lenReg, complete, dma, memory, chip>>

\* for (chunk = start; chunk < end; chunk += MT_FW_CHUNK_SIZE)
MoreChunks == chunk < Length(part)

ChunkLength ==
  IF Length(part) - chunk > ChunkSize THEN ChunkSize ELSE Length(part) - chunk

Chunk ==
  /\ pc = "chunk"
  /\ IF MoreChunks
     THEN Goto("address") /\ UNCHANGED <<part, chunk>>
     ELSE IF part = "ilm"
     THEN part' = "dlm" /\ chunk' = 0 /\ UNCHANGED pc
     ELSE Goto("ivb") /\ UNCHANGED <<part, chunk>>
  /\ UNCHANGED <<chipVars, interrupted>>

WriteAddress ==
  /\ pc = "address"
  /\ Goto("length")
  /\ \/ addrReg' = Offset(part) + chunk /\ NoError
     \/ UNCHANGED addrReg /\ ControlError
  /\ UNCHANGED <<part, chunk, lenReg, complete, enabled, dma, memory, chip>>

WriteLength ==
  /\ pc = "length"
  /\ Goto("bulk")
  /\ \/ lenReg' = ChunkLength /\ complete' = FALSE /\ NoError
     \/ UNCHANGED <<lenReg, complete>> /\ ControlError
  /\ UNCHANGED <<part, chunk, addrReg, enabled, dma, memory, chip>>

\* The chunk is sent with a bulk write.
BulkWrite ==
  /\ pc = "bulk"
  /\ \/ /\ dma' = Append(dma, [i \in 0 .. ChunkLength - 1 |->
                                 [part |-> part, index |-> chunk + i]])
        /\ Goto("pollChunk")
        /\ NoError
     \/ /\ "bulk" \in Faults
        /\ interrupted' = TRUE
        /\ Goto("failed")
        /\ UNCHANGED dma
  /\ UNCHANGED <<part, chunk, addrReg, lenReg, complete, enabled, memory, chip>>

\* MT_FCE_DMA_LEN reads (length << 16) | MT_DMA_COMPLETE
ChunkCopied == complete /\ lenReg = ChunkLength

PollChunk ==
  Polled("pollChunk", ChunkCopied,
         Goto("chunk") /\ chunk' = chunk + ChunkSize /\ UNCHANGED part)

\* MT_FCE_DMA_ADDR is cleared ...
ClearAddress ==
  /\ pc = "ivb"
  /\ Goto("loadIvb")
  /\ \/ addrReg' = Zero /\ NoError
     \/ UNCHANGED addrReg /\ ControlError
  /\ UNCHANGED <<part, chunk, lenReg, complete, enabled, dma, memory, chip>>

\* ... and the firmware started.
LoadIvb ==
  /\ pc = "loadIvb"
  /\ Goto("pollStart")
  /\ \/ chip' = "starting" /\ NoError
     \/ UNCHANGED chip /\ ControlError
  /\ UNCHANGED <<part, chunk, addrReg, lenReg, complete, enabled, dma, memory>>

PollStart ==
  Polled("pollStart", addrReg = Runs, Goto("done") /\ UNCHANGED <<part, chunk>>)

\* The second that pollTimeout() allows is over and its condition does not hold;
\* the caller gives up.
Expired ==
  \/ pc = "pollReset" /\ addrReg # WasReset
  \/ pc = "pollChunk" /\ ~ (complete /\ lenReg = ChunkLength)
  \/ pc = "pollStart" /\ addrReg # Runs

Timeout ==
  /\ Expired
  /\ Goto("failed")
  /\ UNCHANGED <<part, chunk, chipVars, interrupted, pastVars>>

\* A read of the polled register fails, which does not end the loop.
PollError ==
  /\ pc \in {"pollReset", "pollChunk", "pollStart"}
  /\ ControlError
  /\ UNCHANGED <<hostVars, chipVars, pastVars>>

\* The process has ended, or dies wherever it is, and another one is started.  Its
\* UsbDevice resets the device, which drops what the chip has not copied.
Restart ==
  /\ restarts < MaxRestarts
  /\ restarts' = restarts + 1
  /\ Goto("open")
  /\ part' = "ilm" /\ chunk' = 0
  /\ dma' = <<>>
  /\ interrupted' = FALSE /\ misled' = FALSE
  /\ UNCHANGED <<addrReg, lenReg, complete, enabled, memory, chip>>

-----------------------------------------------------------------------------
(* The chip: external                                                      *)

\* It copies a chunk to where MT_FCE_DMA_ADDR points.
Copy ==
  /\ enabled
  /\ dma # <<>>
  /\ memory' = [a \in Address |->
                  IF a - addrReg \in DOMAIN Head(dma) /\ a >= addrReg
                  THEN Head(dma)[a - addrReg] ELSE memory[a]]
  /\ dma' = Tail(dma)
  /\ complete' = TRUE
  /\ UNCHANGED <<hostVars, addrReg, lenReg, enabled, chip, interrupted, pastVars>>

ResetDone ==
  /\ chip = "resetting"
  /\ chip' = "idle"
  /\ addrReg' = WasReset
  /\ UNCHANGED <<hostVars, lenReg, complete, enabled, dma, memory, interrupted, pastVars>>

Started ==
  /\ chip = "starting"
  /\ chip' = "running"
  /\ addrReg' = Runs
  /\ UNCHANGED <<hostVars, lenReg, complete, enabled, dma, memory, interrupted, pastVars>>

-----------------------------------------------------------------------------
Ended == pc \in {"done", "failed"}

HostStep ==
  \/ Check
  \/ /\ \/ Open \/ Reset \/ PollReset \/ Configure
        \/ Chunk \/ WriteAddress \/ WriteLength \/ BulkWrite \/ PollChunk
        \/ ClearAddress \/ LoadIvb \/ PollStart
     /\ UNCHANGED pastVars

Next ==
  \/ HostStep \/ Timeout \/ PollError \/ Restart
  \/ Copy \/ ResetDone \/ Started
  \/ Ended /\ UNCHANGED vars

Spec == Init /\ [][Next]_vars

\* The host runs, and its time passes.  The chip need not do anything.
FairSpec == Spec /\ WF_vars(HostStep) /\ WF_vars(Timeout)

-----------------------------------------------------------------------------
(* Properties                                                              *)

Loaded ==
  \A p \in Part : \A i \in 0 .. Length(p) - 1 :
    memory[Offset(p) + i] = [part |-> p, index |-> i]

\* Whatever earlier processes have left: unless a transfer failed or the register
\* misled the host, the chip starts only when both parts are complete in its memory,
\* each byte in its place, whatever the chip takes for a copy and however the lengths
\* divide into chunks.
FirmwareIntact ==
  pc \in {"pollStart", "done"} /\ ~interrupted /\ ~misled => Loaded /\ dma = <<>>

\* With the same exceptions, nothing is uploaded under a firmware that runs, or that
\* still starts or resets for an earlier process that died.
NeverUnderRunning == dma # <<>> /\ ~interrupted /\ ~misled => chip = "idle"

\* The same without the second exception.  The code does not have this property: a
\* process that dies between MT_FW_LOAD_IVB and the start of the firmware, or between
\* a reset and its first chunk, leaves a register that misleads the next one.
RestartSafe == dma # <<>> /\ ~interrupted => chip = "idle"

\* With the same exceptions, the registers of a copy do not change while the chip
\* still copies.
QuietWhileCopying ==
  [][dma # <<>> /\ dma' = dma /\ ~interrupted' /\ ~misled' =>
       UNCHANGED <<addrReg, lenReg>>]_vars

\* Each process ends its loading, also when the chip does not answer or the reads
\* fail for ever, and in whatever state it finds the chip.
LoadEnds == []<>Ended
=============================================================================
