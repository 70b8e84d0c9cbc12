--------------------------- MODULE FirmwareProofs ---------------------------
(***************************************************************************)
(* For parts of any length, at any place that does not overlap, for chunks *)
(* of any size and any number of processes that die: as long as no         *)
(* transfer of its own has failed and the register did not mislead it, a   *)
(* process loads the firmware completely, uploads nothing under a firmware *)
(* that runs, and leaves the registers of a copy alone until the chip is   *)
(* done with it.                                                           *)
(***************************************************************************)
EXTENDS Firmware, TLAPS

Before  == {"open", "check"}
Body    == {"address", "length", "bulk", "pollChunk"}
Loop    == {"chunk"} \cup Body
Behind  == {"ivb", "loadIvb"}
Labels  == Before \cup {"reset", "pollReset", "configure", "pollStart", "done", "failed"}
                  \cup Loop \cup Behind

\* The first n bytes of a part are in their place.
LoadedUpTo(p, n) ==
  \A i \in 0 .. Length(p) - 1 : i < n => memory[Offset(p) + i] = [part |-> p, index |-> i]

\* The chunk that is being loaded
Content == [i \in 0 .. ChunkLength - 1 |-> [part |-> part, index |-> chunk + i]]

TypeOK ==
  /\ pc \in Labels
  /\ part \in Part
  /\ chunk \in Nat
  /\ addrReg \in Nat

\* A process begins with nothing sent to the chip, which may be in any state.
StartInv == pc \in Before => part = "ilm" /\ chunk = 0 /\ dma = <<>> /\ ~misled

\* Nothing failed in this process, nor misled it.
Clean == ~interrupted /\ ~misled

\* What the chip does, at each place of the host after its first look.
ChipInv ==
  /\ pc = "reset" => chip # "resetting" /\ addrReg \notin {Zero, WasReset}
  /\ pc = "pollReset" => \/ chip = "resetting" /\ addrReg # WasReset
                         \/ chip = "idle" /\ addrReg = WasReset
  /\ pc \in {"configure"} \cup Loop \cup Behind => chip = "idle"

\* A chunk is with the chip only while the host polls for it, or has given up.
DmaInv == dma # <<>> => pc \in {"pollChunk", "failed"} /\ chip = "idle"

\* The registers of a copy, and how far it is.
CopyInv ==
  /\ pc \in Body => chunk < Length(part)
  /\ pc \in {"length", "bulk", "pollChunk"} => addrReg = Offset(part) + chunk
  /\ pc \in {"bulk", "pollChunk"} => lenReg = ChunkLength
  /\ pc = "bulk" => ~complete
  /\ pc = "pollChunk" => \/ dma = <<Content>> /\ ~complete
                         \/ dma = <<>> /\ LoadedUpTo(part, chunk + ChunkSize)

\* What is loaded already.
MemoryInv ==
  /\ pc \in Before \cup {"reset", "pollReset", "configure"} => part = "ilm" /\ chunk = 0
  /\ pc \in Loop => LoadedUpTo(part, chunk) /\ (part = "dlm" => LoadedUpTo("ilm", IlmLength))
  /\ pc \in Behind \cup {"pollStart", "done"} => Loaded

IInv == TypeOK /\ StartInv /\ (Clean => ChipInv /\ DmaInv /\ CopyInv /\ MemoryInv)

-----------------------------------------------------------------------------
LEMMA Lengths ==
  ASSUME NEW p \in Part
  PROVE  Length(p) \in Nat /\ Offset(p) \in Nat /\ Offset(p) > WasReset
BY FirmwareAssumption DEF Part, Length, Offset, WasReset

LEMMA ChunkLengthType ==
  ASSUME part \in Part, chunk \in Nat, chunk < Length(part)
  PROVE  /\ ChunkLength \in Nat
         /\ \A i \in 0 .. Length(part) - 1 : i < chunk + ChunkSize => i < chunk + ChunkLength
         /\ chunk + ChunkLength <= Length(part)
BY Lengths, FirmwareAssumption DEF ChunkLength

\* A whole part is loaded when all of its length is.
LEMMA WholePart ==
  ASSUME NEW p \in Part, NEW n \in Nat, n >= Length(p), LoadedUpTo(p, n)
  PROVE  \A i \in 0 .. Length(p) - 1 : memory[Offset(p) + i] = [part |-> p, index |-> i]
BY Lengths DEF LoadedUpTo

\* The chip copies the chunk to its place, and spoils nothing that was loaded.
LEMMA CopyLoads ==
  ASSUME TypeOK, chunk < Length(part), addrReg = Offset(part) + chunk,
         dma = <<Content>>, Copy
  PROVE  /\ LoadedUpTo(part, chunk) => LoadedUpTo(part, chunk + ChunkSize)'
         /\ part = "dlm" /\ LoadedUpTo("ilm", IlmLength) => LoadedUpTo("ilm", IlmLength)'
<1>1. Head(dma) = Content /\ DOMAIN Content = 0 .. ChunkLength - 1
  BY DEF Content
<1>2. UNCHANGED <<part, chunk>>
  BY DEF Copy, hostVars
<1>3. memory' = [a \in Address |->
                   IF a - addrReg \in 0 .. ChunkLength - 1 /\ a >= addrReg
                   THEN Content[a - addrReg] ELSE memory[a]]
  BY <1>1 DEF Copy
<1>4. part \in Part /\ chunk \in Nat /\ Length(part) \in Nat /\ Offset(part) \in Nat
  BY Lengths DEF TypeOK
<1>5. ASSUME NEW p \in Part, NEW i \in 0 .. Length(p) - 1
      PROVE  Offset(p) + i \in Address
  BY <1>5, FirmwareAssumption DEF Part, Length, Offset, Address
<1>6. ASSUME LoadedUpTo(part, chunk) PROVE LoadedUpTo(part, chunk + ChunkSize)'
  <2> SUFFICES ASSUME NEW i \in 0 .. Length(part) - 1, i < chunk + ChunkSize
               PROVE  memory'[Offset(part) + i] = [part |-> part, index |-> i]
    BY <1>2 DEF LoadedUpTo, Length, Offset
  <2>1. Offset(part) + i \in Address
    BY <1>4, <1>5
  <2>2. ChunkLength \in Nat /\ i < chunk + ChunkLength
    BY <1>4, ChunkLengthType
  <2>3. CASE i < chunk
    <3>1. ~ (Offset(part) + i >= addrReg)
      BY <1>4, <2>3
    <3>2. memory'[Offset(part) + i] = memory[Offset(part) + i]
      BY <1>3, <2>1, <3>1
    <3>. QED  BY <1>6, <2>3, <3>2 DEF LoadedUpTo
  <2>4. CASE i >= chunk
    <3>1. /\ (Offset(part) + i) - addrReg = i - chunk
          /\ i - chunk \in 0 .. ChunkLength - 1
          /\ Offset(part) + i >= addrReg
          /\ chunk + (i - chunk) = i
      BY <1>4, <2>2, <2>4
    <3>2. memory'[Offset(part) + i] = Content[i - chunk]
      BY <1>3, <2>1, <3>1
    <3>. QED  BY <3>1, <3>2 DEF Content
  <2>. QED  BY <1>4, <2>3, <2>4
<1>7. ASSUME part = "dlm", LoadedUpTo("ilm", IlmLength) PROVE LoadedUpTo("ilm", IlmLength)'
  <2> SUFFICES ASSUME NEW i \in 0 .. Length("ilm") - 1, i < IlmLength
               PROVE  memory'[Offset("ilm") + i] = [part |-> "ilm", index |-> i]
    BY DEF LoadedUpTo, Length, Offset
  <2>1. Offset("ilm") + i \in Address
    BY <1>5 DEF Part
  <2>2. ~ (Offset("ilm") + i >= addrReg)
    BY <1>4, <1>7, FirmwareAssumption DEF Offset, Length
  <2>3. memory'[Offset("ilm") + i] = memory[Offset("ilm") + i]
    BY <1>3, <2>1, <2>2
  <2>. QED  BY <1>7, <2>3 DEF LoadedUpTo
<1>. QED  BY <1>6, <1>7

-----------------------------------------------------------------------------
LEMMA InvInit == Init => IInv
BY FirmwareAssumption
   DEF Init, IInv, TypeOK, StartInv, ChipInv, DmaInv, CopyInv, MemoryInv, Labels, Before, Body, Loop,
       Behind, Part, Zero, Runs

\* Nothing that was loaded is lost while the memory does not change.
LEMMA Kept ==
  ASSUME UNCHANGED memory
  PROVE  /\ \A p, n : LoadedUpTo(p, n)' <=> LoadedUpTo(p, n)
         /\ Loaded' <=> Loaded
BY DEF LoadedUpTo, Loaded, Length, Offset

LEMMA TypeNext == TypeOK /\ [Next]_vars => TypeOK'
<1> SUFFICES ASSUME TypeOK, [Next]_vars PROVE TypeOK'
  OBVIOUS
<1> USE DEF TypeOK, Labels, Before, Loop, Body, Behind, Goto, ControlError, NoError, hostVars, chipVars
<1>1. CASE Open \/ Check \/ Reset \/ PollReset \/ Configure
  BY <1>1 DEF Open, Check, Reset, PollReset, Polled, Configure
<1>2. CASE Chunk
  BY <1>2 DEF Chunk, Part
<1>3. CASE WriteAddress
  BY <1>3, Lengths DEF WriteAddress
<1>4. CASE WriteLength \/ BulkWrite
  BY <1>4 DEF WriteLength, BulkWrite
<1>5. CASE PollChunk
  BY <1>5, FirmwareAssumption DEF PollChunk, Polled
<1>6. CASE ClearAddress \/ LoadIvb \/ PollStart
  BY <1>6 DEF ClearAddress, LoadIvb, PollStart, Polled, Zero
<1>7. CASE Timeout \/ PollError \/ Restart
  BY <1>7 DEF Timeout, PollError, Restart, Part
<1>8. CASE Copy \/ ResetDone \/ Started
  BY <1>8 DEF Copy, ResetDone, Started, WasReset, Runs
<1>9. CASE UNCHANGED vars
  BY <1>9 DEF vars
<1>. QED
  BY <1>1, <1>2, <1>3, <1>4, <1>5, <1>6, <1>7, <1>8, <1>9 DEF Next, HostStep

LEMMA StartNext == StartInv /\ [Next]_vars => StartInv'
<1> SUFFICES ASSUME StartInv, [Next]_vars, pc' \in Before
             PROVE  part' = "ilm" /\ chunk' = 0 /\ dma' = <<>> /\ ~misled'
  BY DEF StartInv
<1> USE DEF StartInv, Before, Goto, hostVars, chipVars, pastVars
<1>1. CASE Restart
  BY <1>1 DEF Restart
<1>2. CASE Open /\ UNCHANGED pastVars
  BY <1>2 DEF Open
<1>3. CASE Copy \/ ResetDone \/ Started
  BY <1>3 DEF Copy, ResetDone, Started
<1>4. CASE UNCHANGED vars
  BY <1>4 DEF vars
<1>5. CASE Check \/ Reset \/ PollReset \/ Configure \/ Timeout \/ PollError
  BY <1>5 DEF Check, Reset, PollReset, Polled, Configure, Timeout, PollError
<1>6. CASE \/ Chunk \/ WriteAddress \/ WriteLength \/ BulkWrite \/ PollChunk
           \/ ClearAddress \/ LoadIvb \/ PollStart
  BY <1>6
  DEF Chunk, WriteAddress, WriteLength, BulkWrite, PollChunk, ClearAddress, LoadIvb,
      PollStart, Polled
<1>. QED  BY <1>1, <1>2, <1>3, <1>4, <1>5, <1>6 DEF Next, HostStep

\* Only the next process makes up for a failure.
LEMMA CleanBefore ==
  ASSUME IInv, [Next]_vars, ~Restart, Clean'
  PROVE  Clean
<1> USE DEF Clean, ControlError, NoError, pastVars
<1>1. CASE Check
  BY <1>1 DEF Check, IInv, StartInv, Before
<1>2. CASE /\ \/ Open \/ Reset \/ PollReset \/ Configure
              \/ Chunk \/ WriteAddress \/ WriteLength \/ BulkWrite \/ PollChunk
              \/ ClearAddress \/ LoadIvb \/ PollStart
           /\ UNCHANGED pastVars
  BY <1>2
  DEF Open, Reset, PollReset, Polled, Configure, Chunk, WriteAddress, WriteLength,
      BulkWrite, PollChunk, ClearAddress, LoadIvb, PollStart
<1>3. CASE Timeout \/ PollError \/ Copy \/ ResetDone \/ Started \/ UNCHANGED vars
  BY <1>3 DEF Timeout, PollError, Copy, ResetDone, Started, vars
<1>. QED  BY <1>1, <1>2, <1>3 DEF Next, HostStep

\* What the part that a chunk belongs to says does not change with the step.
LEMMA SamePlace ==
  ASSUME UNCHANGED <<part, chunk>>
  PROVE  ChunkLength' = ChunkLength /\ Content' = Content
BY DEF ChunkLength, Content, Length

\* The steps of the host up to the first chunk
LEMMA PreparationKeeps ==
  ASSUME IInv, Clean, Clean', Open \/ Check \/ Reset \/ PollReset \/ Configure
  PROVE  (ChipInv /\ DmaInv /\ CopyInv /\ MemoryInv)'
<1> USE DEF Before, Loop, Body, Behind, Goto, hostVars, chipVars
<1>1. ~interrupted' /\ ~misled'
  BY DEF Clean
<1>2. TypeOK /\ StartInv /\ ChipInv /\ DmaInv /\ MemoryInv
  BY DEF IInv
<1>3. UNCHANGED <<part, chunk, dma, memory>>
  BY DEF Open, Check, Reset, PollReset, Polled, Configure
<1>4. pc \in Before \cup {"reset", "pollReset", "configure"}
  BY DEF Open, Check, Reset, PollReset, Polled, Configure
<1>5. dma = <<>> /\ part = "ilm" /\ chunk = 0
  BY <1>2, <1>4 DEF DmaInv, MemoryInv
<1>6. pc' \in {"check", "failed", "reset", "pollReset", "configure", "chunk"}
  BY DEF Open, Check, Reset, PollReset, Polled, Configure
<1>7. ChipInv'
  BY <1>1, <1>2
  DEF ChipInv, Open, Check, Reset, PollReset, Polled, Configure, AlreadyLoaded, Misleading,
      ControlError, Zero, Runs, WasReset
<1>8. DmaInv' /\ CopyInv'
  BY <1>3, <1>5, <1>6 DEF DmaInv, CopyInv
<1>9. LoadedUpTo("ilm", 0)'
  BY Lengths DEF LoadedUpTo, Part
<1>10. MemoryInv'
  BY <1>3, <1>5, <1>6, <1>9 DEF MemoryInv
<1>. QED  BY <1>7, <1>8, <1>10

\* Its steps from one chunk to the next, and to the start of the firmware
LEMMA LoadingKeeps ==
  ASSUME IInv, Clean, Clean',
         \/ Chunk \/ WriteAddress \/ WriteLength \/ BulkWrite \/ PollChunk
         \/ ClearAddress \/ LoadIvb \/ PollStart
  PROVE  (ChipInv /\ DmaInv /\ CopyInv /\ MemoryInv)'
<1> USE DEF Before, Loop, Body, Behind, Goto, hostVars, chipVars
<1>1. ~interrupted'
  BY DEF Clean
<1>2. TypeOK /\ ChipInv /\ DmaInv /\ CopyInv /\ MemoryInv
  BY DEF IInv
<1>3. UNCHANGED memory
  BY DEF Chunk, WriteAddress, WriteLength, BulkWrite, PollChunk, ClearAddress, LoadIvb, PollStart,
         Polled
<1>4. \A p, n : LoadedUpTo(p, n)' <=> LoadedUpTo(p, n)
  BY <1>3, Kept
<1>5. Loaded' <=> Loaded
  BY <1>3, Kept
<1>6. ~ControlError
  BY <1>1 DEF ControlError
<1>7. CASE Chunk
  <2>1. pc = "chunk" /\ UNCHANGED <<addrReg, lenReg, complete, dma, chip>>
    BY <1>7 DEF Chunk
  <2>2. dma = <<>> /\ chip = "idle" /\ LoadedUpTo(part, chunk)
    BY <1>2, <2>1 DEF DmaInv, ChipInv, MemoryInv
  <2>3. part \in Part /\ chunk \in Nat /\ Length(part) \in Nat
    BY <1>2, Lengths DEF TypeOK
  <2>4. CASE MoreChunks
    <3>1. pc' = "address" /\ UNCHANGED <<part, chunk>>
      BY <1>7, <2>4 DEF Chunk
    <3>2. CopyInv'
      BY <2>4, <3>1 DEF CopyInv, MoreChunks, Length
    <3>3. MemoryInv'
      BY <1>2, <1>4, <2>1, <3>1 DEF MemoryInv
    <3>. QED  BY <2>1, <2>2, <3>1, <3>2, <3>3 DEF ChipInv, DmaInv
  <2>5. CASE ~MoreChunks /\ part = "ilm"
    <3>1. pc' = "chunk" /\ part' = "dlm" /\ chunk' = 0
      BY <1>7, <2>1, <2>5 DEF Chunk
    <3>2. LoadedUpTo("ilm", IlmLength)
      BY <2>2, <2>3, <2>5, WholePart DEF LoadedUpTo, MoreChunks, Length
    <3>3. LoadedUpTo("dlm", 0)
      BY Lengths DEF LoadedUpTo, Part
    <3>4. MemoryInv'
      BY <1>4, <3>1, <3>2, <3>3 DEF MemoryInv
    <3>. QED  BY <2>1, <2>2, <3>1, <3>4 DEF ChipInv, DmaInv, CopyInv
  <2>6. CASE ~MoreChunks /\ part = "dlm"
    <3>1. pc' = "ivb" /\ UNCHANGED <<part, chunk>>
      BY <1>7, <2>6 DEF Chunk
    <3>2. \A i \in 0 .. Length("dlm") - 1 : memory[Offset("dlm") + i] = [part |-> "dlm", index |-> i]
      BY <2>2, <2>3, <2>6, WholePart DEF MoreChunks
    <3>3. LoadedUpTo("ilm", IlmLength)
      BY <1>2, <2>1, <2>6 DEF MemoryInv
    <3>4. \A i \in 0 .. Length("ilm") - 1 : memory[Offset("ilm") + i] = [part |-> "ilm", index |-> i]
      <4>1. "ilm" \in Part /\ IlmLength \in Nat /\ IlmLength >= Length("ilm")
        BY FirmwareAssumption DEF Part, Length
      <4>. QED  BY <3>3, <4>1, WholePart
    <3>5. Loaded
      BY <3>2, <3>4 DEF Loaded, Part
    <3>6. MemoryInv'
      BY <1>5, <3>1, <3>5 DEF MemoryInv
    <3>. QED  BY <2>1, <2>2, <3>1, <3>6 DEF ChipInv, DmaInv, CopyInv
  <2>. QED  BY <2>3, <2>4, <2>5, <2>6 DEF Part
<1>8. CASE WriteAddress
  <2>1. pc = "address" /\ pc' = "length" /\ addrReg' = Offset(part) + chunk
    BY <1>6, <1>8 DEF WriteAddress
  <2>2. UNCHANGED <<part, chunk, lenReg, complete, dma, chip>>
    BY <1>8 DEF WriteAddress
  <2>3. CopyInv'
    BY <1>2, <2>1, <2>2 DEF CopyInv, Length, Offset
  <2>4. MemoryInv'
    BY <1>2, <1>4, <2>1, <2>2 DEF MemoryInv
  <2>. QED  BY <1>2, <2>1, <2>2, <2>3, <2>4 DEF ChipInv, DmaInv
<1>9. CASE WriteLength
  <2>1. pc = "length" /\ pc' = "bulk" /\ lenReg' = ChunkLength /\ ~complete'
    BY <1>6, <1>9 DEF WriteLength
  <2>2. UNCHANGED <<part, chunk, addrReg, dma, chip>>
    BY <1>9 DEF WriteLength
  <2>3. CopyInv'
    BY <1>2, <2>1, <2>2, SamePlace DEF CopyInv, Length, Offset
  <2>4. MemoryInv'
    BY <1>2, <1>4, <2>1, <2>2 DEF MemoryInv
  <2>. QED  BY <1>2, <2>1, <2>2, <2>3, <2>4 DEF ChipInv, DmaInv
<1>10. CASE BulkWrite
  <2>1. pc = "bulk" /\ pc' = "pollChunk" /\ dma' = Append(dma, Content)
    BY <1>1, <1>10 DEF BulkWrite, Content
  <2>2. UNCHANGED <<part, chunk, addrReg, lenReg, complete, chip>>
    BY <1>10 DEF BulkWrite
  <2>3. dma = <<>>
    BY <1>2, <2>1 DEF DmaInv
  <2>4. dma' = <<Content>>
    BY <2>1, <2>3
  <2>5. CopyInv'
    BY <1>2, <2>1, <2>2, <2>4, SamePlace DEF CopyInv, Length, Offset
  <2>6. MemoryInv'
    BY <1>2, <1>4, <2>1, <2>2 DEF MemoryInv
  <2>. QED  BY <1>2, <2>1, <2>2, <2>5, <2>6 DEF ChipInv, DmaInv
<1>11. CASE PollChunk
  <2>1. pc = "pollChunk" /\ pc' = "chunk" /\ complete /\ chunk' = chunk + ChunkSize
    BY <1>11 DEF PollChunk, Polled, ChunkCopied
  <2>2. UNCHANGED <<part, dma, chip>>
    BY <1>11 DEF PollChunk, Polled
  <2>3. dma = <<>> /\ LoadedUpTo(part, chunk + ChunkSize)
    BY <1>2, <2>1 DEF CopyInv
  <2>4. MemoryInv'
    BY <1>2, <1>4, <2>1, <2>2, <2>3 DEF MemoryInv
  <2>. QED  BY <1>2, <2>1, <2>2, <2>3, <2>4 DEF ChipInv, DmaInv, CopyInv
<1>12. CASE ClearAddress \/ LoadIvb \/ PollStart
  <2>1. pc \in Behind \cup {"pollStart"} /\ pc' \in {"loadIvb", "pollStart", "done"}
    BY <1>12 DEF ClearAddress, LoadIvb, PollStart, Polled
  <2>2. UNCHANGED dma /\ (pc' = "loadIvb" => pc = "ivb" /\ UNCHANGED chip)
    BY <1>12 DEF ClearAddress, LoadIvb, PollStart, Polled
  <2>3. MemoryInv'
    BY <1>2, <1>5, <2>1 DEF MemoryInv
  <2>. QED  BY <1>2, <2>1, <2>2, <2>3 DEF ChipInv, DmaInv, CopyInv
<1>. QED  BY <1>7, <1>8, <1>9, <1>10, <1>11, <1>12

\* The host gives up or polls again.
LEMMA PollingKeeps ==
  ASSUME IInv, Clean, Clean', Timeout \/ PollError
  PROVE  (ChipInv /\ DmaInv /\ CopyInv /\ MemoryInv)'
<1> USE DEF Before, Loop, Body, Behind, Goto, hostVars, chipVars
<1>1. Timeout
  BY DEF PollError, ControlError, Clean
<1>2. /\ pc' = "failed" /\ pc \in {"pollReset", "pollChunk", "pollStart"}
      /\ UNCHANGED <<part, chunk, dma, chip>>
  BY <1>1 DEF Timeout, Expired
<1>3. ChipInv /\ DmaInv
  BY DEF IInv
<1>. QED  BY <1>2, <1>3 DEF ChipInv, DmaInv, CopyInv, MemoryInv

LEMMA ChipKeeps ==
  ASSUME IInv, Clean, Clean', Copy \/ ResetDone \/ Started
  PROVE  (ChipInv /\ DmaInv /\ CopyInv /\ MemoryInv)'
<1> USE DEF Before, Loop, Body, Behind, Goto, hostVars, chipVars
<1>1. UNCHANGED <<pc, part, chunk, lenReg>>
  BY DEF Copy, ResetDone, Started
<1>2. TypeOK /\ ChipInv /\ DmaInv /\ CopyInv /\ MemoryInv
  BY DEF IInv
<1>3. ChunkLength' = ChunkLength /\ Content' = Content /\ Length(part)' = Length(part)
      /\ Offset(part)' = Offset(part)
  BY <1>1, SamePlace DEF Length, Offset
<1>4. CASE Copy
  <2>1. pc \in {"pollChunk", "failed"} /\ chip = "idle" /\ UNCHANGED <<addrReg, chip>>
    BY <1>2, <1>4 DEF Copy, DmaInv
  <2>2. CASE pc = "failed"
    BY <1>1, <2>1, <2>2 DEF ChipInv, DmaInv, CopyInv, MemoryInv
  <2>3. CASE pc = "pollChunk"
    <3>1. dma = <<Content>> /\ addrReg = Offset(part) + chunk /\ chunk < Length(part)
      BY <1>2, <1>4, <2>3 DEF Copy, CopyInv
    <3>2. dma' = <<>>
      BY <1>4, <3>1 DEF Copy
    <3>3. LoadedUpTo(part, chunk)
      BY <1>2, <2>3 DEF MemoryInv
    <3>4. LoadedUpTo(part, chunk + ChunkSize)'
      BY <1>2, <1>4, <3>1, <3>3, CopyLoads
    <3>5. part = "dlm" => LoadedUpTo("ilm", IlmLength)'
      BY <1>2, <1>4, <2>3, <3>1, CopyLoads DEF MemoryInv
    <3>6. LoadedUpTo(part, chunk)'
      BY <1>1, <1>2, <3>4, FirmwareAssumption, Lengths DEF LoadedUpTo, TypeOK
    <3>7. CopyInv'
      BY <1>1, <1>2, <1>3, <2>1, <2>3, <3>2, <3>4 DEF CopyInv
    <3>8. MemoryInv'
      BY <1>1, <2>3, <3>5, <3>6 DEF MemoryInv
    <3>. QED  BY <1>1, <2>1, <2>3, <3>2, <3>7, <3>8 DEF ChipInv, DmaInv
  <2>. QED  BY <2>1, <2>2, <2>3
<1>5. CASE ResetDone \/ Started
  <2>1. UNCHANGED <<complete, dma, memory>> /\ chip # "idle"
    BY <1>5 DEF ResetDone, Started
  <2>2. pc \notin {"configure"} \cup Loop \cup Behind /\ dma = <<>>
    BY <1>2, <2>1 DEF ChipInv, DmaInv
  <2>3. ChipInv'
    BY <1>1, <1>2, <1>5, <2>2 DEF ChipInv, ResetDone, Started, Zero, Runs, WasReset
  <2>4. DmaInv' /\ CopyInv'
    BY <1>1, <2>1, <2>2 DEF DmaInv, CopyInv
  <2>5. MemoryInv'
    BY <1>1, <1>2, <2>1, <2>2, Kept DEF MemoryInv
  <2>. QED  BY <2>3, <2>4, <2>5
<1>. QED  BY <1>4, <1>5

LEMMA InvNext == IInv /\ [Next]_vars => IInv'
<1> SUFFICES ASSUME IInv, [Next]_vars PROVE IInv'
  OBVIOUS
<1>1. TypeOK'
  BY TypeNext DEF IInv
<1>2. StartInv'
  BY StartNext DEF IInv
<1>3. CASE Restart
  <2>1. pc' = "open" /\ part' = "ilm" /\ chunk' = 0 /\ dma' = <<>>
    BY <1>3 DEF Restart, Goto
  <2>2. (ChipInv /\ DmaInv /\ CopyInv /\ MemoryInv)'
    BY <2>1 DEF ChipInv, DmaInv, CopyInv, MemoryInv, Before, Loop, Body, Behind
  <2>. QED  BY <1>1, <1>2, <2>2 DEF IInv
<1>4. ASSUME ~Restart, Clean' PROVE (ChipInv /\ DmaInv /\ CopyInv /\ MemoryInv)'
  <2>0. Clean
    BY <1>4, CleanBefore
  <2>1. CASE UNCHANGED vars
    <3>1. UNCHANGED <<pc, part, chunk, addrReg, lenReg, complete, dma, memory, chip>>
      BY <2>1 DEF vars, hostVars, chipVars
    <3>2. ChipInv /\ DmaInv /\ CopyInv /\ MemoryInv
      BY <2>0 DEF IInv
    <3>3. /\ ChunkLength' = ChunkLength /\ Content' = Content
          /\ Length(part)' = Length(part) /\ Offset(part)' = Offset(part)
      BY <3>1, SamePlace DEF Length, Offset
    <3>4. LoadedUpTo(part, chunk + ChunkSize)' <=> LoadedUpTo(part, chunk + ChunkSize)
      BY <3>1 DEF LoadedUpTo, Length, Offset
    <3>5. LoadedUpTo(part, chunk)' <=> LoadedUpTo(part, chunk)
      BY <3>1 DEF LoadedUpTo, Length, Offset
    <3>6. /\ LoadedUpTo("ilm", IlmLength)' <=> LoadedUpTo("ilm", IlmLength)
          /\ Loaded' <=> Loaded
      BY <3>1 DEF LoadedUpTo, Loaded, Length, Offset
    <3>7. ChipInv' /\ DmaInv'
      BY <3>1, <3>2 DEF ChipInv, DmaInv
    <3>8. CopyInv'
      BY <3>1, <3>2, <3>3, <3>4 DEF CopyInv
    <3>9. MemoryInv'
      BY <3>1, <3>2, <3>5, <3>6 DEF MemoryInv
    <3>. QED  BY <3>7, <3>8, <3>9
  <2>. QED
    BY <1>4, <2>0, <2>1, PreparationKeeps, LoadingKeeps, PollingKeeps, ChipKeeps
    DEF Next, HostStep
<1>. QED  BY <1>1, <1>2, <1>3, <1>4 DEF IInv

THEOREM Invariant == Spec => []IInv
BY InvInit, InvNext, PTL DEF Spec

-----------------------------------------------------------------------------
\* For parts of any length, chunks of any size and whatever earlier processes have
\* left, the chip starts with both parts in its memory and nothing left to copy,
\* unless a transfer has failed or the register misled the host: the induction over
\* the loop of loadFirmwarePart().
THEOREM FirmwareIsIntact == Spec => []FirmwareIntact
<1>1. IInv => FirmwareIntact
  BY DEF IInv, Clean, FirmwareIntact, MemoryInv, DmaInv
<1>. QED  BY <1>1, Invariant, PTL

\* Nothing is uploaded under a firmware that an earlier process has left running, in
\* whatever state that process died: loadFirmware() resets the chip first.  The
\* exceptions are a transfer that fails and a register that misleads.
THEOREM NothingUnderRunning == Spec => []NeverUnderRunning
<1>1. IInv => NeverUnderRunning
  BY DEF IInv, Clean, NeverUnderRunning, DmaInv
<1>. QED  BY <1>1, Invariant, PTL

\* The host does not touch the registers of a copy while the chip copies
\* (loadFirmwarePart() polls for the completion and the length).
THEOREM RegistersAreQuiet == Spec => QuietWhileCopying
<1>1. IInv /\ [Next]_vars =>
        [dma # <<>> /\ dma' = dma /\ ~interrupted' /\ ~misled' =>
           UNCHANGED <<addrReg, lenReg>>]_vars
  <2> SUFFICES ASSUME IInv, Next, dma # <<>>, dma' = dma, ~interrupted', ~misled'
               PROVE  UNCHANGED <<addrReg, lenReg>>
    BY DEF vars
  <2> USE DEF Goto, hostVars, chipVars, pastVars
  <2>1. ~Restart
    BY DEF Restart
  <2>2. Clean
    BY <2>1, CleanBefore DEF Clean
  <2>3. pc \in {"pollChunk", "failed"} /\ chip = "idle"
    BY <2>2 DEF IInv, DmaInv
  <2>4. CASE HostStep
    BY <2>3, <2>4 DEF HostStep, Open, Check, Reset, PollReset, Polled, Configure, Chunk, WriteAddress,
       WriteLength, BulkWrite, PollChunk, ClearAddress, LoadIvb, PollStart
  <2>5. CASE ~HostStep
    BY <2>1, <2>3, <2>5 DEF Next, Timeout, PollError, Copy, ResetDone, Started, vars
  <2>. QED  BY <2>4, <2>5
<1>. QED  BY <1>1, Invariant, PTL DEF Spec, QuietWhileCopying
=============================================================================
