--------------------------- MODULE ChannelsProofs ---------------------------
(***************************************************************************)
(* What holds of the readings of the EFUSE for every content and any       *)
(* number of failures: efuseRead() returns what its caller asked for, and  *)
(* so every channel gets the power of its own table, the crystal the trim  *)
(* that is meant, and the chip one address.  And a dongle whose            *)
(* construction ends is complete.                                          *)
(***************************************************************************)
EXTENDS Channels, FiniteSetTheorems, TLAPS

ReadLabel == {"kick", "poll", "read", "use"}

Label == ReadLabel \cup
  {"selectFunction", "radioOn", "loadCr", "registers", "tune", "own", "bssid", "firmware",
   "reset", "calibrateTemperature", "calibrateRxDcoc", "calibrateRc", "enable", "channels",
   "candidates", "beaconTime", "beacon", "setBeaconTime", "calibrateBeacon", "done",
   "failed"}

Undisturbed == reading.by \notin disturbed

\* The address of the block that holds an address, and the place of the first
\* register that is read.
BlockOf(address) == address - (address % 16)
FirstOf(address) == (address % 16) - (address % 4)

EfuseType ==
  /\ efuse \in [Address -> Byte]
  /\ data \in Seq(Byte)
  /\ failures \in Nat
  /\ pc \in Label

\* Each call of efuseRead(): for whom, where, and how much
Call(by, address, length) == reading = [by |-> by, address |-> address, length |-> length]

Calls ==
  pc \in ReadLabel =>
    \/ Call(<<"trim2", 0>>, Trim2, 4)
    \/ Call(<<"trim1", 0>>, Trim1, 4)
    \/ Call(<<"address", 0>>, MacAddr, 6)
    \/ Call(<<"chipId", 0>>, ChipId, 4)
    \/ /\ current \in 1 .. 12
       /\ Call(<<"power", Channel>>, TableStart(Channel), 8)

\* The chip has read what it was asked for, or is busy.  A reading that nothing
\* disturbed asked for its own block, and waited for it.
Answered ==
  /\ busy \/ latched = block
  /\ pc \in {"poll", "read", "use"} /\ Undisturbed => block = BlockOf(reading.address)
  /\ pc \in {"read", "use"} /\ Undisturbed => ~busy

\* What was read so far are the bytes from the first register on.
Gathered ==
  /\ pc \in {"kick", "poll"} => data = <<>>
  /\ pc \in {"read", "use"} => Len(data) <= reading.length
  /\ pc = "use" /\ Undisturbed => Len(data) = reading.length
  /\ pc \in {"read", "use"} /\ Undisturbed =>
       \A k \in 1 .. Len(data) : data[k] = Stored(FirstOf(reading.address) + k - 1)

ReadInv == EfuseType /\ Calls /\ Answered /\ Gathered

-----------------------------------------------------------------------------
(* The call of efuseRead()                                                 *)

\* A caller's step: it works on its own, or makes the next call.
Caller ==
  /\ UNCHANGED memVars
  /\ failures' \in Nat
  /\ pc \notin {"kick", "poll", "read"}
  /\ \/ pc' \in Label \ ReadLabel /\ UNCHANGED data
     \/ /\ pc' = "kick" /\ data' = <<>>
        /\ Calls'

LEMMA FailsCounts ==
  ASSUME failures \in Nat, NEW fault, UNCHANGED failVars \/ Fails(fault)
  PROVE  /\ failures' \in Nat
         /\ disturbed \subseteq disturbed'
         /\ disturbed' = disturbed \/ (disturbed' = disturbed \cup {reading.by} /\ failures' # failures)
BY DEF failVars, Fails

\* A caller disturbs nothing of the next call.
LEMMA CallerKeeps ==
  ASSUME ReadInv, Caller
  PROVE  ReadInv'
<1>1. EfuseType'
  <2>1. efuse' = efuse /\ failures' \in Nat /\ pc' \in Label
    BY DEF Caller, memVars, Label, ReadLabel
  <2>2. data' = data \/ data' = <<>>
    BY DEF Caller
  <2>3. data \in Seq(Byte) /\ <<>> \in Seq(Byte) /\ efuse \in [Address -> Byte]
    BY DEF ReadInv, EfuseType
  <2>. QED  BY <2>1, <2>2, <2>3 DEF EfuseType
<1>2. Calls'
  BY DEF Caller, Calls
<1>3. Answered'
  BY DEF ReadInv, Answered, Caller, memVars, Label, ReadLabel
<1>4. Gathered'
  BY DEF ReadInv, Gathered, Caller, memVars, Label, ReadLabel
<1>. QED  BY <1>1, <1>2, <1>3, <1>4 DEF ReadInv

\* The lengths and addresses of the calls are numbers.
LEMMA CallNumbers ==
  ASSUME Calls, pc \in ReadLabel
  PROVE  reading.address \in Nat /\ reading.length \in Nat
<1>1. ASSUME current \in 1 .. 12 PROVE TableStart(Channel) \in Nat
  BY <1>1 DEF Channel, ConfiguredChannels, TableStart, ChannelGroup, Is24Ghz
<1>. QED  BY <1>1 DEF Calls, Call, Trim1, Trim2, MacAddr, ChipId

LEMMA KickKeeps ==
  ASSUME ReadInv, Kick, UNCHANGED <<registerVars, channelVars>>
  PROVE  ReadInv'
<1>1. EfuseType'
  BY FailsCounts DEF ReadInv, EfuseType, Kick, readVars, Label, ReadLabel, failVars
<1>2. Calls'
  BY DEF ReadInv, Calls, Call, Kick, readVars, ReadLabel, channelVars, Channel
<1>3. Answered'
  BY FailsCounts
  DEF ReadInv, EfuseType, Answered, Kick, Fails, readVars, Undisturbed, BlockOf
<1>4. Gathered'
  BY DEF ReadInv, Gathered, Kick, readVars
<1>. QED  BY <1>1, <1>2, <1>3, <1>4 DEF ReadInv

LEMMA PollKeeps ==
  ASSUME ReadInv, Poll, UNCHANGED <<registerVars, channelVars>>
  PROVE  ReadInv'
<1>1. EfuseType'
  BY FailsCounts DEF ReadInv, EfuseType, Poll, readVars, memVars, Label, ReadLabel, failVars
<1>2. Calls'
  BY DEF ReadInv, Calls, Call, Poll, readVars, ReadLabel, channelVars, Channel
<1>3. Answered'
  BY DEF ReadInv, Answered, Poll, Fails, readVars, memVars, failVars, Undisturbed, BlockOf
<1>4. Gathered'
  <2>1. data = <<>> /\ data' = <<>> /\ reading' = reading
    BY DEF ReadInv, Gathered, Poll, readVars
  <2>2. reading.length \in Nat
    BY CallNumbers DEF ReadInv, Poll, ReadLabel
  <2>3. pc' = "read" \/ (pc' = "use" /\ ~Undisturbed')
    BY DEF Poll, Fails, readVars, Undisturbed
  <2>. QED  BY <2>1, <2>2, <2>3 DEF Gathered
<1>. QED  BY <1>1, <1>2, <1>3, <1>4 DEF ReadInv

LEMMA StoredByte ==
  ASSUME EfuseType, NEW register
  PROVE  Stored(register) \in Byte
BY DEF EfuseType, Stored, Byte

LEMMA ReadWordKeeps ==
  ASSUME ReadInv, ReadWord, UNCHANGED <<registerVars, channelVars>>
  PROVE  ReadInv'
<1>0. /\ EfuseType /\ pc = "read" /\ pc' \in {"use", "read"}
      /\ UNCHANGED <<reading, memVars>>
      /\ Len(data) \in Nat /\ reading.length \in Nat /\ reading.address \in Nat
      /\ Len(data) <= reading.length
  BY CallNumbers DEF ReadInv, EfuseType, ReadWord, Gathered, ReadLabel
<1>1. Size \in 0 .. 4 /\ Len(data) + Size <= reading.length
  BY <1>0 DEF Size
<1>2. PICK word \in [1 .. Size -> Byte] :
        /\ data' = data \o word
        /\ \/ failVars' = failVars /\ \A k \in 1 .. Size : word[k] = Stored(Register + k - 1)
           \/ Fails("control")
  <2>1. CASE data' = data \o [k \in 1 .. Size |-> Stored(Register + k - 1)] /\ UNCHANGED failVars
    <3> DEFINE word == [k \in 1 .. Size |-> Stored(Register + k - 1)]
    <3>1. word \in [1 .. Size -> Byte]
      BY <1>0, StoredByte
    <3>. QED  BY <2>1, <3>1
  <2>2. CASE data' = data \o [k \in 1 .. Size |-> 0] /\ Fails("control")
    <3> DEFINE word == [k \in 1 .. Size |-> 0]
    <3>1. word \in [1 .. Size -> Byte]
      BY DEF Byte
    <3>. QED  BY <2>2, <3>1
  <2>. QED  BY <2>1, <2>2 DEF ReadWord
<1>3. word \in Seq(Byte) /\ Len(word) = Size
  BY <1>1, <1>2
<1>4. /\ data' \in Seq(Byte) /\ Len(data') = Len(data) + Size
      /\ \A k \in 1 .. Len(data) : data'[k] = data[k]
      /\ \A k \in 1 .. Size : data'[Len(data) + k] = word[k]
  BY <1>0, <1>1, <1>2, <1>3 DEF EfuseType
<1>5. failures' \in Nat
  BY <1>0, <1>2, FailsCounts DEF EfuseType, failVars
<1>6. EfuseType'
  BY <1>0, <1>4, <1>5 DEF EfuseType, memVars, Label, ReadLabel
<1>7. Calls'
  BY <1>0 DEF ReadInv, Calls, Call, ReadLabel, channelVars, Channel
<1>8. Undisturbed' => Undisturbed /\ failVars' = failVars
  BY <1>0, <1>2 DEF Undisturbed, Fails, failVars
<1>9. Answered'
  BY <1>0, <1>8 DEF ReadInv, Answered, memVars
<1>10. pc' = "use" => Len(data') = reading.length
  BY <1>0 DEF ReadWord
<1>11. ASSUME Undisturbed' PROVE \A k \in 1 .. Len(data') : data'[k] = Stored(FirstOf(reading.address) + k - 1)
  <2>1. Undisturbed /\ \A k \in 1 .. Size : word[k] = Stored(Register + k - 1)
    BY <1>0, <1>2, <1>8, <1>11 DEF Fails, Undisturbed
  <2>2. \A k \in 1 .. Len(data) : data[k] = Stored(FirstOf(reading.address) + k - 1)
    BY <1>0, <2>1 DEF ReadInv, Gathered
  <2>3. FirstOf(reading.address) \in Int /\ Register = FirstOf(reading.address) + Len(data)
    BY <1>0 DEF Register, FirstRegister, FirstOf
  <2> SUFFICES ASSUME NEW k \in 1 .. Len(data')
               PROVE  data'[k] = Stored(FirstOf(reading.address) + k - 1)
    OBVIOUS
  <2>4. CASE k \in 1 .. Len(data)
    BY <1>4, <2>2, <2>4
  <2>5. CASE k \notin 1 .. Len(data)
    <3>1. PICK j \in 1 .. Size : k = Len(data) + j
      <4>1. k - Len(data) \in 1 .. Size /\ k = Len(data) + (k - Len(data))
        BY <1>0, <1>1, <1>4, <2>5
      <4>. QED  BY <4>1
    <3>2. Register + j - 1 = FirstOf(reading.address) + k - 1
      BY <1>0, <1>1, <2>3, <3>1
    <3>. QED  BY <1>4, <2>1, <3>1, <3>2
  <2>. QED  BY <2>4, <2>5
<1>12. \A register : Stored(register)' = Stored(register)
  BY <1>0 DEF Stored, memVars
<1>13. Gathered'
  BY <1>0, <1>1, <1>4, <1>10, <1>11, <1>12 DEF Gathered
<1>. QED  BY <1>6, <1>7, <1>9, <1>13 DEF ReadInv

LEMMA ChipKeeps ==
  ASSUME ReadInv, ChipReads, UNCHANGED <<registerVars, channelVars>>
  PROVE  ReadInv'
<1>1. EfuseType' /\ Answered'
  BY DEF ReadInv, EfuseType, Answered, ChipReads, readVars, failVars, Undisturbed
<1>2. Calls'
  BY DEF ReadInv, Calls, Call, ChipReads, readVars, channelVars, Channel
<1>3. Gathered'
  BY DEF ReadInv, Answered, Gathered, ChipReads, readVars, failVars, Undisturbed
<1>. QED  BY <1>1, <1>2, <1>3 DEF ReadInv

-----------------------------------------------------------------------------
(* The callers                                                             *)

LEMMA ObeysCalls ==
  ASSUME ReadInv, NEW command \in Label \ ReadLabel, NEW next \in Label \ ReadLabel,
         Obeys(command, next)
  PROVE  Caller
BY FailsCounts
DEF ReadInv, EfuseType, Obeys, Caller, Throw, readVars, Label, ReadLabel, failVars

LEMMA RegistersCall ==
  ASSUME ReadInv, RegistersNext, UNCHANGED channelVars
  PROVE  Caller \/ (EfuseNext /\ UNCHANGED registerVars)
<1>0. EfuseType
  BY DEF ReadInv
<1>1. CASE Radio \/ Calibrate
  BY <1>1, ObeysCalls DEF Radio, Calibrate, Label, ReadLabel
<1>2. CASE WriteRegisters
  <2>1. pc' = "kick" /\ data' = <<>> /\ UNCHANGED memVars /\ failures' \in Nat /\ pc = "registers"
        /\ reading' = [by |-> <<"trim2", 0>>, address |-> Trim2, length |-> 4]
    BY <1>0, <1>2, FailsCounts DEF WriteRegisters, Controls, Read, EfuseType, failVars
  <2>. QED  BY <2>1 DEF Caller, Calls, Call
<1>3. CASE UseTrim2
  <2>1. /\ pc = "use" /\ UNCHANGED memVars /\ failures' \in Nat
        /\ \/ pc' \in {"failed", "tune"} /\ data' = data
           \/ /\ pc' = "kick" /\ data' = <<>>
              /\ reading' = [by |-> <<"trim1", 0>>, address |-> Trim1, length |-> 4]
    BY <1>0, <1>3 DEF UseTrim2, Used, Throw, Read, readVars, EfuseType, failVars
  <2>. QED  BY <2>1 DEF Caller, Calls, Call, Label, ReadLabel
<1>4. CASE UseTrim1
  BY <1>0, <1>4
  DEF UseTrim1, Used, Throw, readVars, EfuseType, failVars, Caller, Label, ReadLabel
<1>5. CASE Tune
  <2>1. pc' = "kick" /\ data' = <<>> /\ UNCHANGED memVars /\ failures' \in Nat /\ pc = "tune"
        /\ reading' = [by |-> <<"address", 0>>, address |-> MacAddr, length |-> 6]
    BY <1>0, <1>5, FailsCounts DEF Tune, Controls, Read, EfuseType, failVars
  <2>. QED  BY <2>1 DEF Caller, Calls, Call
<1>6. CASE UseAddress \/ UseChipId
  BY <1>0, <1>6
  DEF UseAddress, UseChipId, Used, Throw, readVars, EfuseType, failVars, Caller, Label,
      ReadLabel
<1>7. CASE WriteAddress \/ SetAddress
  BY <1>0, <1>7, FailsCounts
  DEF WriteAddress, SetAddress, Tells, Throw, readVars, EfuseType, failVars, Caller,
      Label, ReadLabel
<1>8. CASE WriteBssid
  <2>1. /\ pc = "bssid" /\ UNCHANGED memVars /\ failures' \in Nat
        /\ \/ pc' = "failed" /\ data' = data
           \/ /\ pc' = "kick" /\ data' = <<>>
              /\ reading' = [by |-> <<"chipId", 0>>, address |-> ChipId, length |-> 4]
    BY <1>0, <1>8, FailsCounts
    DEF WriteBssid, Tells, Throw, Read, readVars, EfuseType, failVars
  <2>. QED  BY <2>1 DEF Caller, Calls, Call, Label, ReadLabel
<1>9. CASE Reset \/ Enable
  BY <1>0, <1>9, FailsCounts
  DEF Reset, Enable, Controls, readVars, EfuseType, failVars, Caller, Label, ReadLabel
<1>. QED  BY <1>1, <1>2, <1>3, <1>4, <1>5, <1>6, <1>7, <1>8, <1>9 DEF RegistersNext

LEMMA ChannelsCall ==
  ASSUME ReadInv,
         InitChannels \/ Switch \/ SetCandidates \/ ReadBeaconTime \/ WriteBeacon \/ WriteBeaconTime
  PROVE  Caller
<1>0. EfuseType /\ Calls
  BY DEF ReadInv
<1>1. CASE InitChannels
  <2>1. pc' = "kick" /\ data' = <<>> /\ UNCHANGED memVars /\ failures' \in Nat
        /\ pc = "channels" /\ current' = 1
        /\ reading' = [by |-> <<"power", ConfiguredChannels[1]>>,
                       address |-> TableStart(ConfiguredChannels[1]), length |-> 8]
    BY <1>0, <1>1 DEF InitChannels, ReadTable, Read, EfuseType, failVars
  <2>. QED  BY <2>1 DEF Caller, Calls, Call, Channel, TableStart
<1>2. CASE Switch
  <2>1. current \in 1 .. 12
    BY <1>0, <1>2 DEF Switch, Used, Calls, Call, ReadLabel
  <2>2. /\ pc = "use" /\ UNCHANGED memVars /\ failures' \in Nat
        /\ \/ pc' = "candidates" /\ data' = data
           \/ /\ pc' = "kick" /\ data' = <<>> /\ current # 12
              /\ current' = current + 1
              /\ reading' = [by |-> <<"power", ConfiguredChannels[current + 1]>>,
                             address |-> TableStart(ConfiguredChannels[current + 1]),
                             length |-> 8]
    <3>1. pc = "use" /\ UNCHANGED memVars
      BY <1>2 DEF Switch, Used
    <3>2. failures' \in Nat
      <4>1. failures \in Nat
        BY <1>0 DEF EfuseType
      <4>2. UNCHANGED failVars \/ Fails("bulk")
        BY <1>2 DEF Switch
      <4>. QED  BY <4>1, <4>2, FailsCounts
    <3>3. CASE IsLast(current)
      <4>1. pc' = "candidates" /\ UNCHANGED readVars
        BY <1>2, <3>3 DEF Switch
      <4>. QED  BY <3>1, <3>2, <4>1 DEF readVars
    <3>4. CASE ~IsLast(current)
      <4>1. ReadTable(current + 1)
        BY <1>2, <3>4 DEF Switch
      <4>2. current # 12
        BY <3>4 DEF IsLast, ConfiguredChannels
      <4>. QED  BY <3>1, <3>2, <4>1, <4>2 DEF ReadTable, Read
    <3>. QED  BY <3>3, <3>4
  <2>3. CASE pc' = "candidates" /\ data' = data
    BY <2>2, <2>3 DEF Caller, Label, ReadLabel
  <2>4. CASE pc' = "kick"
    <3>1. current' \in 1 .. 12 /\ Channel' = ConfiguredChannels[current + 1]
      BY <2>1, <2>2, <2>4 DEF Channel
    <3>2. Calls'
      BY <2>2, <2>4, <3>1 DEF Calls, Call, TableStart
    <3>. QED  BY <2>2, <2>4, <3>2 DEF Caller
  <2>. QED  BY <2>2, <2>3, <2>4
<1>3. CASE SetCandidates
  BY <1>0, <1>3, FailsCounts
  DEF SetCandidates, Throw, readVars, EfuseType, failVars, Caller, Label, ReadLabel
<1>4. CASE WriteBeacon
  BY <1>4, ObeysCalls DEF WriteBeacon, Label, ReadLabel
<1>5. CASE ReadBeaconTime \/ WriteBeaconTime
  BY <1>0, <1>5, FailsCounts
  DEF ReadBeaconTime, WriteBeaconTime, Controls, readVars, EfuseType, failVars, Caller,
      Label, ReadLabel
<1>. QED  BY <1>1, <1>2, <1>3, <1>4, <1>5

LEMMA ReadInit == Init => ReadInv
<1> SUFFICES ASSUME Init PROVE ReadInv
  OBVIOUS
<1>1. EfuseType
  BY EfuseAssumption DEF Init, RegistersInit, EfuseInit, EfuseType, Label
<1>. QED  BY <1>1
     DEF Init, RegistersInit, EfuseInit, ReadInv, Calls, Answered, Gathered, ReadLabel

LEMMA ReadNext == ReadInv /\ [Next]_vars => ReadInv'
<1> SUFFICES ASSUME ReadInv, [Next]_vars PROVE ReadInv'
  OBVIOUS
<1>1. CASE EfuseNext /\ UNCHANGED registerVars /\ UNCHANGED channelVars
  BY <1>1, KickKeeps, PollKeeps, ReadWordKeeps, ChipKeeps DEF EfuseNext
<1>2. CASE Caller
  BY <1>2, CallerKeeps
<1>3. CASE UNCHANGED vars
  <2>1. UNCHANGED <<pc, reading, data, disturbed, failures, efuse, block, busy, latched, current>>
    BY <1>3
    DEF vars, efuseVars, readVars, failVars, memVars, channelVars
  <2>2. EfuseType' /\ Answered'
    BY <2>1 DEF ReadInv, EfuseType, Answered, Undisturbed
  <2>3. Calls'
    BY <2>1 DEF ReadInv, Calls, Call, Channel
  <2>4. Gathered'
    BY <2>1 DEF ReadInv, Gathered, Undisturbed, Stored
  <2>. QED  BY <2>2, <2>3, <2>4 DEF ReadInv
<1>. QED  BY <1>1, <1>2, <1>3, RegistersCall, ChannelsCall DEF Next

-----------------------------------------------------------------------------
(* The power of a channel                                                  *)

\* What getChannelPower() assumes of the targets: a target of up to 64 and an offset
\* of six bits have a sum of eight bits with a sign.
TargetsFit ==
  \A content \in Contents : \A c \in ToSet(ConfiguredChannels) :
    content[TableStart(c) + 2] <= 64

LEMMA ChannelSet ==
  /\ ToSet(ConfiguredChannels) = {1, 6, 11, 36, 40, 44, 48, 149, 153, 157, 161, 165}
  /\ \A i \in 1 .. 12 : ConfiguredChannels[i] \in ToSet(ConfiguredChannels)
  /\ Len(ConfiguredChannels) = 12
<1>1. DOMAIN ConfiguredChannels = 1 .. 12 /\ Len(ConfiguredChannels) = 12
  BY DEF ConfiguredChannels
<1>2. \A i \in 1 .. 12 : ConfiguredChannels[i] \in ToSet(ConfiguredChannels)
  BY <1>1 DEF ToSet
<1>3. ToSet(ConfiguredChannels) \subseteq {1, 6, 11, 36, 40, 44, 48, 149, 153, 157, 161, 165}
  BY <1>1 DEF ToSet, ConfiguredChannels
<1>4. {1, 6, 11, 36, 40, 44, 48, 149, 153, 157, 161, 165} \subseteq ToSet(ConfiguredChannels)
  BY <1>2 DEF ConfiguredChannels
<1>. QED  BY <1>1, <1>2, <1>3, <1>4

\* Target and offset are decoded without an overflow.
LEMMA Decoding ==
  ASSUME NEW target \in 0 .. 64, NEW shift \in Byte
  PROVE  DecodedPower(target, shift) = Meant(target, shift)
<1> DEFINE size == shift % 64
           sum == target + (IF Bit(shift, 64) = 1 THEN size ELSE -size)
           ok(p) == /\ sum \in MinPower .. MaxPower => p = sum
                    /\ sum < MinPower => p = MinPower
                    /\ sum > MaxPower => p = MaxPower
<1>1. size \in 0 .. 63
  BY DEF Byte
<1>2. sum \in -63 .. 127
  BY <1>1
<1>3. (IF Bit(shift, 64) = 1 THEN target + size ELSE target - size) = sum
  BY <1>1
<1>4. SignedByte(sum) = sum
  BY <1>2 DEF SignedByte
<1> HIDE DEF size, sum
<1>5. Clamped(sum) \in MinPower .. MaxPower /\ ok(Clamped(sum))
  BY <1>2 DEF Clamped, MinPower, MaxPower
<1>6. \A p \in MinPower .. MaxPower : ok(p) => p = Clamped(sum)
  BY <1>2 DEF Clamped, MinPower, MaxPower
<1>7. Clamped(sum) = CHOOSE p \in MinPower .. MaxPower : ok(p)
  BY <1>5, <1>6
<1>. QED  BY <1>3, <1>4, <1>7 DEF DecodedPower, Meant, size, sum

\* The fixed position of the target in the aligned entry is right for every channel
\* that is configured.
LEMMA Layout ==
  ASSUME NEW c \in ToSet(ConfiguredChannels)
  PROVE  LET start == TableStart(c)
             place == FirstOf(start) + EntryIndex(c)
         IN  /\ BlockOf(start) + place = start + 2
             /\ place \in 0 .. 15 /\ place + ChannelSubgroup(c) \in 0 .. 15
             /\ start + 2 \in Address /\ start + 2 + ChannelSubgroup(c) \in Address
             /\ EntryIndex(c) \in 4 .. 5 /\ ChannelSubgroup(c) \in 1 .. 2 \cup {3}
             /\ EntryIndex(c) + ChannelSubgroup(c) + 1 <= 8
<1>1. CASE c \in {1, 6, 11}
  <2>1. TableStart(c) = 86 /\ EntryIndex(c) = 4 /\ ChannelSubgroup(c) \in 1 .. 3
    BY <1>1 DEF TableStart, EntryIndex, Is24Ghz, ChannelSubgroup
  <2>2. FirstOf(86) = 4 /\ BlockOf(86) = 80
    BY DEF FirstOf, BlockOf
  <2>. QED  BY <2>1, <2>2 DEF Address
<1>2. CASE c \in {36, 40, 44, 48}
  <2>1. TableStart(c) = 103 /\ EntryIndex(c) = 5 /\ ChannelSubgroup(c) \in 1 .. 2
    BY <1>2 DEF TableStart, EntryIndex, Is24Ghz, ChannelSubgroup, ChannelGroup
  <2>2. FirstOf(103) = 4 /\ BlockOf(103) = 96
    BY DEF FirstOf, BlockOf
  <2>. QED  BY <2>1, <2>2 DEF Address
<1>3. CASE c \in {149, 153, 157, 161, 165}
  <2>1. TableStart(c) = 123 /\ EntryIndex(c) = 5 /\ ChannelSubgroup(c) \in 1 .. 2
    BY <1>3 DEF TableStart, EntryIndex, Is24Ghz, ChannelSubgroup, ChannelGroup
  <2>2. FirstOf(123) = 8 /\ BlockOf(123) = 112
    BY DEF FirstOf, BlockOf
  <2>. QED  BY <2>1, <2>2 DEF Address
<1>. QED  BY <1>1, <1>2, <1>3, ChannelSet

\* A reading that was not disturbed has the bytes of its block.
LEMMA ReadRight ==
  ASSUME ReadInv, pc = "use", Undisturbed, NEW k \in 1 .. reading.length,
         NEW register \in 0 .. 15, register = FirstOf(reading.address) + k - 1,
         BlockOf(reading.address) + register \in Address
  PROVE  Complete /\ data[k] = efuse[BlockOf(reading.address) + register]
<1>1. Len(data) = reading.length /\ data[k] = Stored(register)
  BY DEF ReadInv, Gathered
<1>2. latched = BlockOf(reading.address)
  BY DEF ReadInv, Answered
<1>3. register < 16 /\ latched + register \in Address
  BY <1>2
<1>4. Stored(register) = efuse[latched + register]
  BY <1>3, Zenon DEF Stored
<1>5. data[k] = efuse[BlockOf(reading.address) + register]
  BY <1>1, <1>2, <1>4, Zenon
<1>. QED  BY <1>1, <1>5, Zenon DEF Complete

LEMMA PowerRight ==
  ASSUME ReadInv, TargetsFit, efuse \in Contents, current \in 1 .. 12,
         Used(<<"power", Channel>>), Undisturbed
  PROVE  ChannelPower(Channel, data) = Meant(Target(Channel), Offset(Channel))
<1>1. PICK c \in ToSet(ConfiguredChannels) : c = Channel
  BY ChannelSet DEF Channel
<1>2. reading.address = TableStart(c) /\ reading.length = 8 /\ pc = "use"
  BY <1>1 DEF ReadInv, Calls, Call, Used, ReadLabel
<1> DEFINE start == TableStart(c)
           e == EntryIndex(c)
           sub == ChannelSubgroup(c)
<1>3. /\ BlockOf(start) + (FirstOf(start) + e) = start + 2
      /\ FirstOf(start) + e \in 0 .. 15 /\ FirstOf(start) + e + sub \in 0 .. 15
      /\ start + 2 \in Address /\ start + 2 + sub \in Address
      /\ e \in 4 .. 5 /\ sub \in 1 .. 3 /\ e + sub + 1 <= 8
  BY Layout
<1>4. start \in Nat /\ BlockOf(start) \in Int /\ FirstOf(start) \in Int
  BY <1>2, CallNumbers DEF BlockOf, FirstOf, ReadInv, ReadLabel
<1> HIDE DEF start, e, sub
<1>5. Len(data) = 8 /\ data[e + 1] = efuse[start + 2]
  <2>1. e + 1 \in 1 .. 8 /\ FirstOf(start) + e = FirstOf(start) + (e + 1) - 1
    BY <1>3, <1>4
  <2>. QED  BY <1>2, <1>3, <2>1, ReadRight DEF Complete, start
<1>6. data[e + sub + 1] = efuse[start + 2 + sub]
  <2>1. /\ e + sub + 1 \in 1 .. 8
        /\ FirstOf(start) + e + sub = FirstOf(start) + (e + sub + 1) - 1
        /\ BlockOf(start) + (FirstOf(start) + e + sub) = start + 2 + sub
    BY <1>3, <1>4
  <2>. QED  BY <1>2, <1>3, <2>1, ReadRight DEF start
<1>7. efuse[start + 2] \in 0 .. 64 /\ efuse[start + 2 + sub] \in Byte
  <2>1. efuse[start + 2] <= 64
    BY DEF TargetsFit, start
  <2>2. efuse[start + 2] \in Byte /\ efuse[start + 2 + sub] \in Byte
    BY <1>3 DEF ReadInv, EfuseType
  <2>. QED  BY <2>1, <2>2 DEF Byte
<1>8. ChannelPower(c, data) = DecodedPower(efuse[start + 2], efuse[start + 2 + sub])
  BY <1>5, <1>6 DEF ChannelPower, e, sub
<1>9. Target(c) = efuse[start + 2] /\ Offset(c) = efuse[start + 2 + sub]
  BY DEF Target, Offset, start, sub
<1>. QED  BY <1>1, <1>7, <1>8, <1>9, Decoding

\* Each channel has the power that is meant, or none, unless something failed while
\* it was configured.
PowerInv ==
  /\ efuse \in Contents
  /\ DOMAIN powers = ToSet(ConfiguredChannels)
  /\ PowerIsOfOwnTable

LEMMA PowerInit == Init => PowerInv
BY DEF Init, RegistersInit, EfuseInit, PowerInv, PowerIsOfOwnTable

\* No step but Switch changes what PowerInv speaks of.
LEMMA PowersStay ==
  ASSUME failures \in Nat, [Next]_vars, ~Switch
  PROVE  disturbed \subseteq disturbed' /\ UNCHANGED <<efuse, powers>>
<1>1. CASE EfuseNext /\ UNCHANGED registerVars /\ UNCHANGED channelVars
  BY <1>1
  DEF EfuseNext, Kick, Poll, ReadWord, ChipReads, Fails, failVars, memVars, channelVars
<1>2. CASE (Radio \/ Calibrate \/ WriteBeacon) /\ UNCHANGED channelVars
  <2>1. disturbed \subseteq disturbed' /\ UNCHANGED efuse
    BY <1>2 DEF Radio, Calibrate, WriteBeacon, Obeys, Fails, failVars, memVars
  <2>. QED  BY <1>2, <2>1 DEF channelVars
<1>3. CASE (WriteRegisters \/ Tune \/ Reset \/ Enable) /\ UNCHANGED channelVars
  <2>0. ASSUME NEW label \in Label, Controls(label)
        PROVE  disturbed \subseteq disturbed' /\ UNCHANGED efuse
    BY <2>0 DEF Controls, Fails, failVars, memVars
  <2>1. disturbed \subseteq disturbed' /\ UNCHANGED efuse
    <3>1. WriteRegisters => Controls("registers")
      BY DEF WriteRegisters
    <3>2. Tune => Controls("tune")
      BY DEF Tune
    <3>3. (Reset => Controls("reset")) /\ (Enable => Controls("enable"))
      BY DEF Reset, Enable
    <3>. QED  BY <1>3, <2>0, <3>1, <3>2, <3>3 DEF Label
  <2>. QED  BY <1>3, <2>1 DEF channelVars
<1>4. CASE (UseTrim2 \/ UseTrim1 \/ UseAddress \/ UseChipId) /\ UNCHANGED channelVars
  BY <1>4 DEF UseTrim2, UseTrim1, UseAddress, UseChipId, failVars, memVars, channelVars
<1>5. CASE (WriteAddress \/ WriteBssid \/ SetAddress) /\ UNCHANGED channelVars
  BY <1>5
  DEF WriteAddress, WriteBssid, SetAddress, Tells, Fails, failVars, memVars, channelVars
<1>6. CASE InitChannels \/ SetCandidates
  BY <1>6 DEF InitChannels, SetCandidates, Fails, failVars, memVars
<1>7. CASE (ReadBeaconTime \/ WriteBeaconTime) /\ UNCHANGED channelVars
  BY <1>7
  DEF ReadBeaconTime, WriteBeaconTime, Controls, Fails, failVars, memVars, channelVars
<1>8. CASE UNCHANGED vars
  BY <1>8 DEF vars, efuseVars, failVars, memVars, channelVars
<1>. QED  BY <1>1, <1>2, <1>3, <1>4, <1>5, <1>6, <1>7, <1>8 DEF Next, RegistersNext

LEMMA PowerNext ==
  ASSUME TargetsFit, ReadInv, PowerInv, [Next]_vars
  PROVE  PowerInv'
<1>0. failures \in Nat /\ PowerIsOfOwnTable
  BY DEF ReadInv, EfuseType, PowerInv
<1>1. CASE ~Switch
  <2>1. disturbed \subseteq disturbed' /\ UNCHANGED <<efuse, powers>>
    BY <1>0, <1>1, PowersStay
  <2>. QED  BY <1>0, <2>1 DEF PowerInv, PowerIsOfOwnTable, Target, Offset
<1>2. CASE Switch
  <2>1. efuse' = efuse /\ disturbed \subseteq disturbed'
    BY <1>0, <1>2, FailsCounts DEF Switch, memVars
  <2>2. Used(<<"power", Channel>>) /\ current \in 1 .. 12
    BY <1>2 DEF Switch, Used, ReadInv, Calls, Call, ReadLabel
  <2>3. \/ /\ powers' = [powers EXCEPT ![Channel] = ChannelPower(Channel, data)]
           /\ disturbed' = disturbed
        \/ powers' = powers
    BY <1>2 DEF Switch, failVars
  <2> SUFFICES ASSUME NEW c \in ToSet(ConfiguredChannels), <<"power", c>> \notin disturbed'
               PROVE  powers'[c] \in {NoPower, Meant(Target(c), Offset(c))}
    BY <2>1, <2>3 DEF PowerInv, PowerIsOfOwnTable, Target, Offset
  <2>4. powers[c] \in {NoPower, Meant(Target(c), Offset(c))}
    BY <1>0, <2>1 DEF PowerIsOfOwnTable
  <2>5. CASE c = Channel /\ disturbed' = disturbed
    <3>1. Undisturbed
      BY <2>2, <2>5 DEF Undisturbed, Used
    <3>2. ChannelPower(Channel, data) = Meant(Target(c), Offset(c))
      BY <2>2, <2>5, <3>1, PowerRight DEF PowerInv
    <3>. QED  BY <2>3, <2>4, <2>5, <3>2 DEF PowerInv
  <2>. QED  BY <2>3, <2>4, <2>5 DEF PowerInv
<1>. QED  BY <1>1, <1>2

-----------------------------------------------------------------------------
(* The trim of the crystal and the address                                 *)

\* The constructor waits for a reading.
Awaits(by) == pc \in ReadLabel /\ reading.by = by

\* Steps of efuseRead() and of the chip, and stuttering ones.
LEMMA EfuseStage ==
  ASSUME \/ EfuseNext /\ UNCHANGED registerVars
         \/ UNCHANGED <<efuseVars, registerVars>>
  PROVE  /\ pc' = pc \/ (pc \in ReadLabel /\ pc' \in ReadLabel)
         /\ reading' = reading /\ efuse' = efuse
         /\ disturbed \subseteq disturbed'
         /\ UNCHANGED <<offset, value, macAddress, crystal, addresses>>
BY DEF EfuseNext, Kick, Poll, ReadWord, ChipReads, Fails, failVars, memVars, readVars,
       efuseVars, registerVars, trimVars, chipVars, ReadLabel

\* The commands and the steps of initChannels().
LEMMA CommandStage ==
  ASSUME NEW command, NEW next, Obeys(command, next)
  PROVE  /\ pc = command /\ pc' \in {next, "failed"}
         /\ efuse' = efuse /\ disturbed \subseteq disturbed'
         /\ UNCHANGED <<offset, value, macAddress, crystal, addresses>>
BY DEF Obeys, Throw, Fails, failVars, memVars, trimVars

\* The control transfers of writeBeacon().
LEMMA BeaconTimeStage ==
  ASSUME ReadBeaconTime \/ WriteBeaconTime
  PROVE  /\ \/ pc = "beaconTime" /\ pc' = "beacon" /\ told' = told
            \/ /\ pc = "setBeaconTime" /\ pc' = "calibrateBeacon"
               /\ told' \in {told, told \cup {"setBeaconTime"}}
         /\ efuse' = efuse /\ disturbed \subseteq disturbed'
         /\ UNCHANGED <<offset, value, macAddress, crystal, addresses, enabled>>
BY DEF ReadBeaconTime, WriteBeaconTime, Controls, Fails, failVars, memVars, trimVars

Trim2By == <<"trim2", 0>>
Trim1By == <<"trim1", 0>>

TrimBase ==
  IF ~Missing(efuse[159]) THEN efuse[159]
  ELSE IF ~Missing(efuse[58]) THEN efuse[58] ELSE 20

\* After calibrateCrystal()
Tuned ==
  \/ pc \in ReadLabel /\ reading.by \notin {Trim1By, Trim2By}
  \/ pc \in {"own", "bssid", "firmware", "reset", "calibrateTemperature",
             "calibrateRxDcoc", "calibrateRc", "enable", "channels", "candidates",
             "beaconTime", "beacon", "setBeaconTime", "calibrateBeacon", "done"}

\* What is known of the trim while it is read, before and after it is written.
TrimInv ==
  /\ efuse \in Contents
  /\ Awaits(Trim1By) /\ Trim2By \notin disturbed =>
       offset = TrimOffset(efuse[158]) /\ Missing(efuse[159])
  /\ pc = "tune" => reading.by \in {Trim1By, Trim2By}
  /\ pc = "tune" /\ TrimRead => offset = TrimOffset(efuse[158]) /\ value = TrimBase
  /\ Tuned /\ TrimRead /\ TrimMeant \in 0 .. 127 =>
       crystal = [trim |-> TrimMeant, above |-> 0]

LEMMA TrimInit == Init => TrimInv
BY DEF Init, RegistersInit, EfuseInit, TrimInv, Awaits, Tuned, ReadLabel

\* TrimMeant is what calibrateCrystal() computes.
LEMMA TrimSum ==
  ASSUME efuse \in [Address -> Byte]
  PROVE  /\ TrimMeant = (TrimBase % 128) + TrimOffset(efuse[158])
         /\ TrimBase \in Byte
         /\ TrimMeant \in 0 .. 127 =>
              /\ (((TrimBase % 128) + TrimOffset(efuse[158])) % 65536) % 128 = TrimMeant
              /\ (((TrimBase % 128) + TrimOffset(efuse[158])) % 65536) \div 128 = 0
<1>1. efuse[158] \in 0 .. 255 /\ efuse[159] \in 0 .. 255 /\ efuse[58] \in 0 .. 255
  <2>1. 158 \in Address /\ 159 \in Address /\ 58 \in Address
    BY DEF Address
  <2>2. \A a \in Address : efuse[a] \in Byte
    OBVIOUS
  <2>. QED  BY <2>1, <2>2 DEF Byte
<1>2. TrimBase \in 0 .. 255
  BY <1>1 DEF TrimBase
<1>3. TrimMeant = (TrimBase % 128) + TrimOffset(efuse[158])
  <2>1. CASE efuse[158] = 255
    BY <2>1 DEF TrimMeant, TrimBase, TrimOffset
  <2>2. CASE efuse[158] \in 0 .. 127
    BY <2>2 DEF TrimMeant, TrimBase, TrimOffset
  <2>3. CASE efuse[158] \in 128 .. 254
    BY <2>3 DEF TrimMeant, TrimBase, TrimOffset
  <2>. QED  BY <1>1, <2>1, <2>2, <2>3
<1>4. ASSUME NEW n \in 0 .. 127 PROVE (n % 65536) % 128 = n /\ (n % 65536) \div 128 = 0
  BY <1>4
<1>. QED  BY <1>2, <1>3, <1>4 DEF Byte

\* What UseTrim2 and UseTrim1 find in a reading that was not disturbed.
LEMMA TrimData ==
  ASSUME ReadInv, pc = "use", Undisturbed
  PROVE  /\ reading.by = Trim2By => Complete /\ data[3] = efuse[158] /\ data[4] = efuse[159]
         /\ reading.by = Trim1By => Complete /\ data[3] = efuse[58]
<1>1. CASE reading.by = Trim2By
  <2>1. reading.address = 158 /\ reading.length = 4
    BY <1>1 DEF ReadInv, Calls, Call, ReadLabel, Trim2By, Trim2
  <2>2. FirstOf(158) = 12 /\ BlockOf(158) = 144
    BY DEF FirstOf, BlockOf
  <2>3. Complete /\ data[3] = efuse[144 + 14]
    BY <2>1, <2>2, ReadRight DEF Address
  <2>4. data[4] = efuse[144 + 15]
    BY <2>1, <2>2, ReadRight DEF Address
  <2>. QED  BY <1>1, <2>3, <2>4 DEF Trim1By, Trim2By
<1>2. CASE reading.by = Trim1By
  <2>1. reading.address = 58 /\ reading.length = 4
    BY <1>2 DEF ReadInv, Calls, Call, ReadLabel, Trim1By, Trim1
  <2>2. FirstOf(58) = 8 /\ BlockOf(58) = 48
    BY DEF FirstOf, BlockOf
  <2>3. Complete /\ data[3] = efuse[48 + 10]
    BY <2>1, <2>2, ReadRight DEF Address
  <2>. QED  BY <1>2, <2>3 DEF Trim1By, Trim2By
<1>. QED  BY <1>1, <1>2

LEMMA TrimsStay ==
  ASSUME UNCHANGED efuse, disturbed \subseteq disturbed'
  PROVE  TrimMeant' = TrimMeant /\ TrimBase' = TrimBase /\ (TrimRead' => TrimRead)
BY DEF TrimMeant, TrimBase, TrimRead

LEMMA TrimNext ==
  ASSUME ReadInv, TrimInv, [Next]_vars
  PROVE  TrimInv'
<1>0. EfuseType /\ efuse \in [Address -> Byte] /\ failures \in Nat
  BY DEF ReadInv, EfuseType
<1>1. ASSUME UNCHANGED efuse, disturbed \subseteq disturbed', UNCHANGED crystal,
             Tuned' => Tuned,
             Awaits(Trim1By)' => Awaits(Trim1By) /\ offset' = offset, pc' # "tune"
      PROVE  TrimInv'
  <2>1. TrimMeant' = TrimMeant /\ (TrimRead' => TrimRead)
    BY <1>1, TrimsStay
  <2>2. Trim2By \notin disturbed' => Trim2By \notin disturbed
    BY <1>1
  <2>. QED  BY <1>1, <2>1, <2>2 DEF TrimInv
<1>2. CASE \/ EfuseNext /\ UNCHANGED registerVars
           \/ UNCHANGED <<efuseVars, registerVars>>
  <2>1. /\ pc' = pc \/ (pc \in ReadLabel /\ pc' \in ReadLabel)
        /\ reading' = reading /\ efuse' = efuse
        /\ disturbed \subseteq disturbed'
        /\ UNCHANGED <<offset, value, crystal>>
    BY <1>2, EfuseStage
  <2>2. (Tuned' <=> Tuned) /\ (Awaits(Trim1By)' <=> Awaits(Trim1By))
    BY <2>1 DEF Tuned, Awaits, ReadLabel, Trim1By, Trim2By
  <2>3. pc' = "tune" => pc = "tune"
    BY <2>1 DEF ReadLabel
  <2>4. TrimMeant' = TrimMeant /\ TrimBase' = TrimBase /\ (TrimRead' => TrimRead)
    BY <2>1, TrimsStay
  <2>5. Trim2By \notin disturbed' => Trim2By \notin disturbed
    BY <2>1
  <2>. QED  BY <2>1, <2>2, <2>3, <2>4, <2>5 DEF TrimInv
<1>3. CASE Radio \/ Calibrate \/ ReadBeaconTime \/ WriteBeacon \/ WriteBeaconTime
  <2>1. /\ efuse' = efuse /\ disturbed \subseteq disturbed' /\ crystal' = crystal
        /\ pc' \notin ReadLabel \cup {"tune"}
        /\ Tuned' => Tuned
    BY <1>3, CommandStage, BeaconTimeStage
    DEF Radio, Calibrate, WriteBeacon, Tuned, ReadLabel
  <2>. QED  BY <1>1, <2>1 DEF Awaits
<1>4. CASE WriteRegisters
  <2>1. /\ efuse' = efuse /\ disturbed \subseteq disturbed' /\ crystal' = crystal
        /\ pc' = "kick" /\ reading'.by = Trim2By
    BY <1>4 DEF WriteRegisters, Controls, Read, Fails, failVars, memVars, Trim2By
  <2>2. ~Tuned' /\ ~Awaits(Trim1By)'
    BY <2>1 DEF Tuned, Awaits, ReadLabel, Trim1By, Trim2By
  <2>. QED  BY <1>1, <2>1, <2>2
<1>5. CASE UseTrim2
  <2>1. /\ pc = "use" /\ reading.by = Trim2By /\ UNCHANGED <<efuse, disturbed, crystal>>
        /\ \/ pc' = "failed"
           \/ /\ offset' = TrimOffset(data[3]) /\ value' = data[4]
              /\ \/ Missing(data[4]) /\ pc' = "kick" /\ reading'.by = Trim1By
                 \/ ~Missing(data[4]) /\ pc' = "tune" /\ reading' = reading
    BY <1>5
    DEF UseTrim2, Used, Throw, Read, readVars, failVars, memVars, chipVars, Trim1By, Trim2By
  <2>2. ~Tuned'
    BY <2>1 DEF Tuned, ReadLabel
  <2>3. Trim2By \notin disturbed => data[3] = efuse[158] /\ data[4] = efuse[159]
    BY <2>1, TrimData DEF Undisturbed
  <2>4. (Awaits(Trim1By)' /\ Trim2By \notin disturbed') =>
          offset' = TrimOffset(efuse'[158]) /\ Missing(efuse'[159])
    BY <2>1, <2>3 DEF Awaits, ReadLabel
  <2>5. pc' = "tune" => reading'.by \in {Trim1By, Trim2By}
    BY <2>1
  <2>6. (pc' = "tune" /\ TrimRead') => offset' = TrimOffset(efuse'[158]) /\ value' = TrimBase'
    BY <2>1, <2>3 DEF TrimRead, TrimBase, Trim2By
  <2>. QED  BY <2>1, <2>2, <2>4, <2>5, <2>6 DEF TrimInv
<1>6. CASE UseTrim1
  <2>1. /\ pc = "use" /\ reading.by = Trim1By
        /\ UNCHANGED <<efuse, disturbed, crystal, offset, reading>>
        /\ \/ pc' = "failed"
           \/ /\ pc' = "tune" /\ value' = IF Missing(data[3]) THEN 20 ELSE data[3]
    BY <1>6
    DEF UseTrim1, Used, Throw, readVars, failVars, memVars, chipVars, Trim1By
  <2>2. ~Tuned' /\ ~Awaits(Trim1By)'
    BY <2>1 DEF Tuned, Awaits, ReadLabel
  <2>3. Trim2By \notin disturbed => offset = TrimOffset(efuse[158]) /\ Missing(efuse[159])
    BY <2>1 DEF TrimInv, Awaits, ReadLabel
  <2>4. Trim1By \notin disturbed => data[3] = efuse[58]
    BY <2>1, TrimData DEF Undisturbed
  <2>5. (pc' = "tune" /\ TrimRead') => offset' = TrimOffset(efuse'[158]) /\ value' = TrimBase'
    BY <2>1, <2>3, <2>4 DEF TrimRead, TrimBase, Trim1By, Trim2By
  <2>. QED  BY <2>1, <2>2, <2>5 DEF TrimInv
<1>7. CASE Tune
  <2>1. /\ pc = "tune" /\ efuse' = efuse /\ pc' = "kick" /\ reading'.by = <<"address", 0>>
        /\ disturbed \subseteq disturbed'
    BY <1>0, <1>7 DEF Tune, Controls, Read, Fails, failVars, memVars
  <2>2. ~Awaits(Trim1By)'
    BY <2>1 DEF Awaits, Trim1By
  <2>3. ASSUME TrimRead', TrimMeant \in 0 .. 127
        PROVE  crystal' = [trim |-> TrimMeant, above |-> 0]
    <3>1. TrimRead /\ failures' = failures
      <4>1. reading.by \in {Trim1By, Trim2By}
        BY <2>1 DEF TrimInv
      <4>2. UNCHANGED failVars \/ disturbed' = disturbed \cup {reading.by}
        BY <1>7 DEF Tune, Controls, Fails
      <4>. QED  BY <2>1, <2>3, <4>1, <4>2 DEF TrimRead, failVars, Trim1By, Trim2By
    <3>2. offset = TrimOffset(efuse[158]) /\ value = TrimBase
      BY <2>1, <3>1 DEF TrimInv
    <3> DEFINE sum == ((value % 128) + offset) % 65536
    <3>3. crystal' = [trim |-> sum % 128, above |-> sum \div 128]
      BY <1>7, <3>1 DEF Tune
    <3>. QED  BY <1>0, <2>3, <3>2, <3>3, TrimSum
  <2>4. TrimMeant' = TrimMeant
    BY <2>1 DEF TrimMeant
  <2>. QED  BY <2>1, <2>2, <2>3, <2>4 DEF TrimInv
<1>8. CASE UseAddress \/ UseChipId
  <2>1. /\ efuse' = efuse /\ disturbed' = disturbed /\ crystal' = crystal
        /\ pc' \in {"own", "firmware", "failed"} /\ pc = "use"
        /\ reading.by \in {<<"address", 0>>, <<"chipId", 0>>}
    BY <1>8
    DEF UseAddress, UseChipId, Used, Throw, failVars, memVars, registerVars, chipVars
  <2>2. Tuned /\ ~Awaits(Trim1By)'
    BY <2>1 DEF Tuned, Awaits, ReadLabel, Trim1By, Trim2By
  <2>. QED  BY <1>1, <2>1, <2>2
<1>9. CASE WriteAddress \/ WriteBssid \/ SetAddress
  <2>1. /\ efuse' = efuse /\ disturbed \subseteq disturbed' /\ crystal' = crystal
        /\ pc \in {"own", "bssid", "firmware"}
        /\ \/ pc' \in {"bssid", "reset", "failed"}
           \/ pc' = "kick" /\ reading'.by = <<"chipId", 0>>
    BY <1>9
    DEF WriteAddress, WriteBssid, SetAddress, Tells, Throw, Read, Fails, failVars, memVars
  <2>2. Tuned /\ ~Awaits(Trim1By)' /\ pc' # "tune"
    BY <2>1 DEF Tuned, Awaits, ReadLabel, Trim1By
  <2>. QED  BY <1>1, <2>1, <2>2
<1>10. CASE Reset
  <2>1. /\ efuse' = efuse /\ disturbed \subseteq disturbed' /\ crystal' = crystal
        /\ pc = "reset" /\ pc' = "calibrateTemperature"
    BY <1>10 DEF Reset, Controls, Fails, failVars, memVars
  <2>. QED  BY <1>1, <2>1 DEF Tuned, Awaits, ReadLabel
<1>11. CASE Enable
  <2>1. /\ efuse' = efuse /\ disturbed \subseteq disturbed' /\ crystal' = crystal
        /\ pc = "enable" /\ pc' = "channels"
    BY <1>11 DEF Enable, Controls, Fails, failVars, memVars
  <2>. QED  BY <1>1, <2>1 DEF Tuned, Awaits, ReadLabel
<1>12. CASE SetCandidates
  <2>1. /\ efuse' = efuse /\ disturbed \subseteq disturbed' /\ crystal' = crystal
        /\ pc = "candidates" /\ pc' \in {"beaconTime", "failed"}
    BY <1>12
    DEF SetCandidates, Throw, Fails, failVars, memVars, registerVars, chipVars
  <2>. QED  BY <1>1, <2>1 DEF Tuned, Awaits, ReadLabel
<1>13. CASE InitChannels \/ Switch
  <2>1. /\ efuse' = efuse /\ disturbed \subseteq disturbed' /\ crystal' = crystal
        /\ \/ pc = "channels"
           \/ pc = "use" /\ reading.by = <<"power", Channel>>
        /\ \/ pc' = "candidates"
           \/ pc' = "kick" /\ \E c : reading'.by = <<"power", c>>
    BY <1>13
    DEF InitChannels, Switch, Used, ReadTable, Read, Fails, failVars, memVars,
        registerVars, chipVars
  <2>2. Tuned /\ ~Awaits(Trim1By)' /\ pc' # "tune"
    BY <2>1 DEF Tuned, Awaits, ReadLabel, Trim1By, Trim2By
  <2>. QED  BY <1>1, <2>1, <2>2
<1>. QED  BY <1>2, <1>3, <1>4, <1>5, <1>6, <1>7, <1>8, <1>9, <1>10, <1>11, <1>12, <1>13
     DEF Next, RegistersNext, vars

\* An address that begins with 62 is one that gamepads connect to.
OwnRange ==
  \A content \in Contents :
    content[4] = 98 => content[5] = 69 /\ content[6] \in 176 .. 191

\* How far the address has got: the places of the chip that have it.
WroteOwn == pc = "bssid"
WroteBoth == Awaits(<<"chipId", 0>>) \/ pc = "firmware"
WroteAll == pc \in {"reset", "calibrateTemperature", "calibrateRxDcoc", "calibrateRc",
                    "enable"}

AddressInv ==
  /\ efuse \in Contents
  /\ DOMAIN addresses = {"own", "bssid", "firmware"}
  /\ WroteOwn \/ WroteBoth \/ WroteAll => addresses["own"] = macAddress
  /\ WroteBoth \/ WroteAll => addresses["bssid"] = macAddress
  /\ WroteAll => addresses["firmware"] = macAddress
  /\ (pc = "own" \/ WroteOwn \/ WroteBoth \/ WroteAll) /\ <<"address", 0>> \notin disturbed =>
       Accepted(macAddress)

LEMMA AddressInit == Init => AddressInv
BY DEF Init, RegistersInit, EfuseInit, AddressInv, WroteOwn, WroteBoth, WroteAll, Awaits,
       ReadLabel

\* What UseAddress finds in a reading that was not disturbed.
LEMMA AddressData ==
  ASSUME ReadInv, OwnRange, efuse \in Contents, pc = "use", Undisturbed,
         reading.by = <<"address", 0>>
  PROVE  Accepted(Corrected(data))
<1>1. reading.address = 4 /\ reading.length = 6
  BY DEF ReadInv, Calls, Call, ReadLabel, MacAddr
<1>2. FirstOf(reading.address) = 4 /\ BlockOf(reading.address) = 0
  BY <1>1 DEF FirstOf, BlockOf
<1>3. ASSUME NEW k \in 1 .. 3 PROVE data[k] = efuse[3 + k]
  <2>1. /\ k \in 1 .. reading.length /\ 3 + k \in 0 .. 15
        /\ 3 + k = FirstOf(reading.address) + k - 1
        /\ BlockOf(reading.address) + (3 + k) = 3 + k
    BY <1>1, <1>2
  <2>2. BlockOf(reading.address) + (3 + k) \in Address
    BY <2>1 DEF Address
  <2>3. data[k] = efuse[BlockOf(reading.address) + (3 + k)]
    BY <2>1, <2>2, ReadRight, Zenon
  <2>. QED  BY <2>1, <2>3, Zenon
<1>4. data[1] = efuse[4] /\ data[2] = efuse[5] /\ data[3] = efuse[6]
  <2>1. /\ 1 \in 1 .. 3 /\ 2 \in 1 .. 3 /\ 3 \in 1 .. 3
        /\ 3 + 1 = 4 /\ 3 + 2 = 5 /\ 3 + 3 = 6
    OBVIOUS
  <2>. QED  BY <1>3, <2>1
<1>6. Len(data) = 6 /\ data \in Seq(Byte)
  BY <1>1 DEF ReadInv, EfuseType, Gathered
<1>7. CASE data[1] = 98
  <2>1. Corrected(data) = data
    BY <1>7 DEF Corrected
  <2>2. efuse[4] = 98
    BY <1>4, <1>7
  <2>3. efuse[5] = 69 /\ efuse[6] \in 176 .. 191
    BY <2>2 DEF OwnRange
  <2>4. data[2] = 69 /\ data[3] \in 176 .. 191
    BY <1>4, <2>3
  <2>. QED  BY <1>7, <2>1, <2>4 DEF Accepted
<1>8. CASE data[1] # 98
  <2>1. Corrected(data) = [data EXCEPT ![1] = 98, ![2] = 69, ![3] = 189]
    BY <1>8 DEF Corrected
  <2>2. Corrected(data)[1] = 98 /\ Corrected(data)[2] = 69 /\ Corrected(data)[3] = 189
    BY <1>6, <2>1
  <2>. QED  BY <2>2 DEF Accepted
<1>. QED  BY <1>7, <1>8

LEMMA AddressNext ==
  ASSUME OwnRange, ReadInv, AddressInv, [Next]_vars
  PROVE  AddressInv'
<1>0. failures \in Nat
  BY DEF ReadInv, EfuseType
<1>1. ASSUME UNCHANGED <<efuse, macAddress, addresses>>, disturbed \subseteq disturbed',
             pc' # "own", ~WroteOwn', ~WroteBoth', WroteAll' => WroteAll
      PROVE  AddressInv'
  <2>1. efuse' = efuse /\ macAddress' = macAddress /\ addresses' = addresses
    BY <1>1
  <2>2. CASE ~WroteAll'
    BY <1>1, <2>1, <2>2 DEF AddressInv
  <2>3. CASE WroteAll'
    BY <1>1, <2>1, <2>3 DEF AddressInv
  <2>. QED  BY <2>2, <2>3
<1>2. CASE \/ EfuseNext /\ UNCHANGED registerVars
           \/ UNCHANGED <<efuseVars, registerVars>>
  <2>1. /\ pc' = pc \/ (pc \in ReadLabel /\ pc' \in ReadLabel)
        /\ reading' = reading /\ UNCHANGED <<efuse, macAddress, addresses>>
        /\ disturbed \subseteq disturbed'
    BY <1>2, EfuseStage
  <2>2. /\ (pc' = "own" <=> pc = "own") /\ (WroteOwn' <=> WroteOwn)
        /\ (WroteBoth' <=> WroteBoth) /\ (WroteAll' <=> WroteAll)
    BY <2>1 DEF WroteOwn, WroteBoth, WroteAll, Awaits, ReadLabel
  <2>. QED  BY <2>1, <2>2 DEF AddressInv
<1>3. CASE Radio \/ Calibrate \/ ReadBeaconTime \/ WriteBeacon \/ WriteBeaconTime
  <2>1. /\ UNCHANGED <<efuse, macAddress, addresses>> /\ disturbed \subseteq disturbed'
        /\ pc' \notin ReadLabel \cup {"own", "bssid", "firmware"}
        /\ WroteAll' => WroteAll
    BY <1>3, CommandStage, BeaconTimeStage
    DEF Radio, Calibrate, WriteBeacon, WroteAll, ReadLabel
  <2>. QED  BY <1>1, <2>1 DEF WroteOwn, WroteBoth, Awaits
<1>4. CASE WriteRegisters \/ Tune
  <2>1. /\ UNCHANGED <<efuse, macAddress, addresses>> /\ disturbed \subseteq disturbed'
        /\ pc' = "kick" /\ reading'.by \in {<<"trim2", 0>>, <<"address", 0>>}
    <3>1. WriteRegisters => Controls("registers") /\ Read(<<"trim2", 0>>, Trim2, 4)
      BY DEF WriteRegisters
    <3>2. Tune => Controls("tune") /\ Read(<<"address", 0>>, MacAddr, 6)
      BY DEF Tune
    <3>. QED  BY <1>4, <3>1, <3>2 DEF Controls, Read, Fails, failVars, memVars
  <2>. QED  BY <1>1, <2>1 DEF WroteOwn, WroteBoth, WroteAll, Awaits
<1>5. CASE UseTrim2 \/ UseTrim1
  <2>1. /\ UNCHANGED <<efuse, macAddress, addresses, disturbed>>
        /\ \/ pc' \in {"failed", "tune"}
           \/ pc' = "kick" /\ reading'.by = <<"trim1", 0>>
    BY <1>5
    DEF UseTrim2, UseTrim1, Throw, Read, failVars, memVars, chipVars
  <2>. QED  BY <1>1, <2>1 DEF WroteOwn, WroteBoth, WroteAll, Awaits, ReadLabel
<1>6. CASE UseAddress
  <2>1. /\ UNCHANGED <<efuse, addresses, disturbed, reading>>
        /\ pc = "use" /\ reading.by = <<"address", 0>>
        /\ pc' = "failed" \/ (pc' = "own" /\ macAddress' = Corrected(data))
    BY <1>6 DEF UseAddress, Used, Throw, readVars, failVars, memVars, chipVars
  <2>2. ~WroteOwn' /\ ~WroteBoth' /\ ~WroteAll'
    BY <2>1 DEF WroteOwn, WroteBoth, WroteAll, Awaits, ReadLabel
  <2>3. (pc' = "own" /\ <<"address", 0>> \notin disturbed') => Accepted(macAddress')
    BY <2>1, AddressData DEF AddressInv, Undisturbed
  <2>. QED  BY <2>1, <2>2, <2>3 DEF AddressInv
<1>7. CASE WriteAddress
  <2>1. /\ UNCHANGED <<efuse, macAddress>> /\ disturbed \subseteq disturbed' /\ pc = "own"
        /\ \/ pc' = "bssid" /\ addresses' = [addresses EXCEPT !["own"] = macAddress]
           \/ pc' = "failed" /\ DOMAIN addresses' = DOMAIN addresses
    BY <1>0, <1>7 DEF WriteAddress, Tells, Throw, Fails, failVars, memVars
  <2>2. ~WroteBoth' /\ ~WroteAll' /\ (WroteOwn' => pc' = "bssid")
    BY <2>1 DEF WroteOwn, WroteBoth, WroteAll, Awaits, ReadLabel
  <2>. QED  BY <2>1, <2>2 DEF AddressInv
<1>8. CASE WriteBssid
  <2>1. /\ UNCHANGED <<efuse, macAddress>> /\ disturbed \subseteq disturbed' /\ WroteOwn
        /\ \/ pc' = "kick" /\ addresses' = [addresses EXCEPT !["bssid"] = macAddress]
           \/ pc' = "failed" /\ DOMAIN addresses' = DOMAIN addresses
    BY <1>0, <1>8 DEF WriteBssid, Tells, Throw, Read, Fails, failVars, memVars, WroteOwn
  <2>2. ~WroteOwn' /\ ~WroteAll' /\ pc' # "own" /\ (WroteBoth' => pc' = "kick")
    BY <2>1 DEF WroteOwn, WroteBoth, WroteAll, Awaits, ReadLabel
  <2>. QED  BY <2>1, <2>2 DEF AddressInv
<1>9. CASE UseChipId
  <2>1. /\ UNCHANGED <<efuse, macAddress, addresses, disturbed>> /\ WroteBoth
        /\ pc' \in {"firmware", "failed"}
    BY <1>9
    DEF UseChipId, Used, Throw, failVars, memVars, registerVars, chipVars, WroteBoth,
        Awaits, ReadLabel
  <2>2. ~WroteOwn' /\ ~WroteAll' /\ pc' # "own"
    BY <2>1 DEF WroteOwn, WroteAll
  <2>. QED  BY <2>1, <2>2 DEF AddressInv
<1>10. CASE SetAddress
  <2>1. /\ UNCHANGED <<efuse, macAddress>> /\ disturbed \subseteq disturbed' /\ WroteBoth
        /\ \/ pc' = "reset" /\ addresses' = [addresses EXCEPT !["firmware"] = macAddress]
           \/ pc' = "failed" /\ DOMAIN addresses' = DOMAIN addresses
    BY <1>0, <1>10 DEF SetAddress, Tells, Throw, Fails, failVars, memVars, WroteBoth
  <2>2. ~WroteOwn' /\ ~WroteBoth' /\ pc' # "own" /\ (WroteAll' => pc' = "reset")
    BY <2>1 DEF WroteOwn, WroteBoth, WroteAll, Awaits, ReadLabel
  <2>. QED  BY <2>1, <2>2 DEF AddressInv
<1>11. CASE Reset \/ Enable
  <2>1. /\ UNCHANGED <<efuse, macAddress, addresses>> /\ disturbed \subseteq disturbed'
        /\ \/ pc = "reset" /\ pc' = "calibrateTemperature"
           \/ pc' = "channels"
    BY <1>11 DEF Reset, Enable, Controls, Fails, failVars, memVars
  <2>. QED  BY <1>1, <2>1 DEF WroteOwn, WroteBoth, WroteAll, Awaits, ReadLabel
<1>12. CASE SetCandidates \/ InitChannels \/ Switch
  <2>1. /\ UNCHANGED <<efuse, macAddress, addresses>> /\ disturbed \subseteq disturbed'
        /\ \/ pc' \in {"beaconTime", "failed", "candidates"}
           \/ pc' = "kick" /\ \E c : reading'.by = <<"power", c>>
    BY <1>12
    DEF SetCandidates, InitChannels, Switch, ReadTable, Read, Throw, Fails, failVars,
        memVars, registerVars, chipVars
  <2>. QED  BY <1>1, <2>1 DEF WroteOwn, WroteBoth, WroteAll, Awaits, ReadLabel
<1>. QED  BY <1>2, <1>3, <1>4, <1>5, <1>6, <1>7, <1>8, <1>9, <1>10, <1>11, <1>12
     DEF Next, RegistersNext, vars

-----------------------------------------------------------------------------
(* A dongle that is constructed                                            *)

RadioCommands == {"selectFunction", "radioOn", "loadCr"}
Calibrations  == {"calibrateTemperature", "calibrateRxDcoc", "calibrateRc"}

ReadsPower == pc \in ReadLabel /\ current > 0 /\ reading.by = <<"power", Channel>>

\* Between the commands to the radio and the calibrations, and after these
BeforeCalibrations ==
  \/ pc \in ReadLabel /\ ~ReadsPower
  \/ pc \in {"registers", "tune", "own", "bssid", "firmware", "reset", "calibrateTemperature"}
AfterCalibrations ==
  ReadsPower \/ pc \in {"enable", "channels", "candidates", "beaconTime", "beacon"}

\* The place that the constructor has reached says which commands were obeyed: one
\* that fails ends it, but for the transfer that sets the time of the beacon.
ToldInv ==
  /\ pc = "selectFunction" => told = {}
  /\ pc = "radioOn" => told = {"selectFunction"}
  /\ pc = "loadCr" => told = {"selectFunction", "radioOn"}
  /\ BeforeCalibrations => told = RadioCommands
  /\ pc = "calibrateRxDcoc" => told = RadioCommands \cup {"calibrateTemperature"}
  /\ pc = "calibrateRc" => told = RadioCommands \cup {"calibrateTemperature", "calibrateRxDcoc"}
  /\ AfterCalibrations => told = RadioCommands \cup Calibrations
  /\ pc = "setBeaconTime" => told = RadioCommands \cup Calibrations \cup {"beacon"}
  /\ pc = "calibrateBeacon" /\ ~interrupted =>
       told = RadioCommands \cup Calibrations \cup {"beacon", "setBeaconTime"}
  /\ pc = "done" /\ ~interrupted =>
       told = RadioCommands \cup Calibrations \cup {"beacon", "setBeaconTime", "calibrateBeacon"}

\* What may fail and not end the constructor, but then interrupts the process.
AfterCandidates == pc \in {"beaconTime", "beacon", "setBeaconTime", "calibrateBeacon", "done"}
AfterChannels   == pc = "candidates" \/ AfterCandidates

Powered(i) == powers[ConfiguredChannels[i]] # NoPower

ReadyInv ==
  /\ DOMAIN powers = ToSet(ConfiguredChannels)
  /\ ~interrupted /\ (ReadsPower \/ AfterChannels \/ pc = "channels") => enabled
  /\ ~interrupted /\ ReadsPower => \A i \in 1 .. 12 : i < current => Powered(i)
  /\ ~interrupted /\ AfterChannels => \A i \in 1 .. 12 : Powered(i)
  /\ AfterCandidates => candidates = Candidates

LEMMA ReadyInit == Init => ToldInv /\ ReadyInv
BY DEF Init, RegistersInit, EfuseInit, ToldInv, ReadyInv, BeforeCalibrations,
       AfterCalibrations, ReadsPower, AfterChannels, AfterCandidates, ReadLabel

\* The readings other than those of the power tables
Early == {<<"trim2", 0>>, <<"trim1", 0>>, <<"address", 0>>, <<"chipId", 0>>}

LEMMA EarlyIsNotPower ==
  ASSUME NEW by \in Early, NEW c
  PROVE  by # <<"power", c>>
BY DEF Early

\* An interruption is not taken back.
LEMMA InterruptStays ==
  ASSUME [Next]_vars
  PROVE  interrupted => interrupted'
<1>1. ASSUME NEW fault, UNCHANGED failVars \/ Fails(fault) PROVE interrupted => interrupted'
  BY <1>1, Zenon DEF Fails, failVars
<1>2. CASE EfuseNext
  BY <1>1, <1>2 DEF EfuseNext, Kick, Poll, ReadWord, ChipReads
<1>3. CASE Radio \/ Calibrate \/ WriteBeacon
  <2>1. ASSUME NEW command, NEW next, Obeys(command, next) PROVE interrupted => interrupted'
    BY <1>1, <2>1 DEF Obeys
  <2>. QED  BY <1>3, <2>1 DEF Radio, Calibrate, WriteBeacon
<1>4. CASE WriteRegisters \/ Tune \/ Reset \/ Enable \/ ReadBeaconTime
  <2>1. ASSUME NEW label, Controls(label) PROVE interrupted => interrupted'
    BY <1>1, <2>1 DEF Controls
  <2>2. WriteRegisters => Controls("registers")
    BY DEF WriteRegisters
  <2>3. Tune => Controls("tune")
    BY DEF Tune
  <2>4. (Reset => Controls("reset")) /\ (Enable => Controls("enable"))
    BY DEF Reset, Enable
  <2>5. ReadBeaconTime => Controls("beaconTime")
    BY DEF ReadBeaconTime
  <2>. QED  BY <1>4, <2>1, <2>2, <2>3, <2>4, <2>5, Zenon
<1>5. CASE UseTrim2 \/ UseTrim1 \/ UseAddress \/ UseChipId \/ InitChannels
  BY <1>1, <1>5 DEF UseTrim2, UseTrim1, UseAddress, UseChipId, InitChannels
<1>6. CASE WriteAddress \/ WriteBssid \/ SetAddress
  <2>1. ASSUME NEW place, Tells(place) PROVE interrupted => interrupted'
    BY <1>1, <2>1 DEF Tells
  <2>. QED  BY <1>6, <2>1 DEF WriteAddress, WriteBssid, SetAddress
<1>7. CASE Switch \/ SetCandidates \/ WriteBeaconTime
  BY <1>1, <1>7 DEF Switch, SetCandidates, WriteBeaconTime
<1>8. CASE UNCHANGED vars
  BY <1>8 DEF vars, efuseVars, failVars
<1>. QED  BY <1>2, <1>3, <1>4, <1>5, <1>6, <1>7, <1>8 DEF Next, RegistersNext

LEMMA ToldNext ==
  ASSUME ReadInv, ToldInv, [Next]_vars
  PROVE  ToldInv'
<1>0. interrupted => interrupted'
  BY InterruptStays
<1>1. ASSUME UNCHANGED <<told, current>>,
             pc' = "failed" \/ (BeforeCalibrations /\ BeforeCalibrations')
             \/ (AfterCalibrations /\ AfterCalibrations')
             \/ (pc' = pc /\ pc \notin ReadLabel)
      PROVE  ToldInv'
  <2>1. CASE pc' = "failed"
    BY <2>1 DEF ToldInv, BeforeCalibrations, AfterCalibrations, ReadsPower, ReadLabel
  <2>2. CASE BeforeCalibrations /\ BeforeCalibrations'
    BY <1>1, <2>2 DEF ToldInv, BeforeCalibrations, AfterCalibrations, ReadsPower, ReadLabel
  <2>3. CASE AfterCalibrations /\ AfterCalibrations'
    BY <1>1, <2>3 DEF ToldInv, BeforeCalibrations, AfterCalibrations, ReadsPower, ReadLabel
  <2>4. CASE pc' = pc /\ pc \notin ReadLabel
    BY <1>0, <1>1, <2>4
    DEF ToldInv, BeforeCalibrations, AfterCalibrations, ReadsPower, ReadLabel
  <2>. QED  BY <1>1, <2>1, <2>2, <2>3, <2>4
<1>2. CASE (EfuseNext /\ UNCHANGED <<registerVars, channelVars>>) \/ UNCHANGED vars
  <2>1. \/ EfuseNext /\ UNCHANGED registerVars
        \/ UNCHANGED <<efuseVars, registerVars>>
    BY <1>2 DEF vars
  <2>2. /\ pc' = pc \/ (pc \in ReadLabel /\ pc' \in ReadLabel)
        /\ reading' = reading
    BY <2>1, EfuseStage
  <2>3. told' = told /\ current' = current
    BY <1>2 DEF vars, registerVars, chipVars, channelVars
  <2>4. ReadsPower' <=> ReadsPower
    BY <2>2, <2>3 DEF ReadsPower, Channel, ReadLabel
  <2>5. pc \in ReadLabel => BeforeCalibrations \/ AfterCalibrations
    BY DEF BeforeCalibrations, AfterCalibrations
  <2>6. (pc \in ReadLabel /\ BeforeCalibrations) => BeforeCalibrations'
    BY <2>2, <2>4 DEF BeforeCalibrations, ReadLabel
  <2>7. (pc \in ReadLabel /\ AfterCalibrations) => AfterCalibrations'
    BY <2>2, <2>4 DEF AfterCalibrations, ReadLabel
  <2>. QED  BY <1>1, <2>2, <2>3, <2>5, <2>6, <2>7
<1>3. ASSUME NEW command, NEW next, Obeys(command, next)
      PROVE  pc = command /\ (pc' = "failed" \/ (pc' = next /\ told' = told \cup {command}))
  BY <1>3 DEF Obeys, Throw
<1>4. ASSUME pc' \notin ReadLabel PROVE ~ReadsPower'
  BY <1>4 DEF ReadsPower
<1>5. CASE Radio
  <2>1. ASSUME pc' = "failed" PROVE ToldInv'
    BY <2>1 DEF ToldInv, BeforeCalibrations, AfterCalibrations, ReadsPower, ReadLabel
  <2>2. CASE Obeys("selectFunction", "radioOn")
    <3>1. pc = "selectFunction" /\ (pc' = "failed" \/ (pc' = "radioOn" /\ told' = told \cup {"selectFunction"}))
      BY <1>3, <2>2
    <3>. QED  BY <2>1, <3>1, <1>4 DEF ToldInv, BeforeCalibrations, AfterCalibrations, ReadLabel
  <2>3. CASE Obeys("radioOn", "loadCr")
    <3>1. pc = "radioOn" /\ (pc' = "failed" \/ (pc' = "loadCr" /\ told' = told \cup {"radioOn"}))
      BY <1>3, <2>3
    <3>. QED  BY <2>1, <3>1, <1>4 DEF ToldInv, BeforeCalibrations, AfterCalibrations, ReadLabel
  <2>4. CASE Obeys("loadCr", "registers")
    <3>1. pc = "loadCr" /\ (pc' = "failed" \/ (pc' = "registers" /\ told' = told \cup {"loadCr"}))
      BY <1>3, <2>4
    <3>. QED  BY <2>1, <3>1, <1>4
         DEF ToldInv, BeforeCalibrations, AfterCalibrations, ReadLabel, RadioCommands
  <2>. QED  BY <1>5, <2>2, <2>3, <2>4 DEF Radio
<1>6. CASE Calibrate
  <2>1. ASSUME pc' = "failed" PROVE ToldInv'
    BY <2>1 DEF ToldInv, BeforeCalibrations, AfterCalibrations, ReadsPower, ReadLabel
  <2>2. CASE Obeys("calibrateTemperature", "calibrateRxDcoc")
    <3>1. /\ pc = "calibrateTemperature"
          /\ pc' = "failed" \/ (pc' = "calibrateRxDcoc" /\ told' = told \cup {"calibrateTemperature"})
      BY <1>3, <2>2
    <3>. QED  BY <2>1, <3>1, <1>4 DEF ToldInv, BeforeCalibrations, AfterCalibrations, ReadLabel
  <2>3. CASE Obeys("calibrateRxDcoc", "calibrateRc")
    <3>1. /\ pc = "calibrateRxDcoc"
          /\ pc' = "failed" \/ (pc' = "calibrateRc" /\ told' = told \cup {"calibrateRxDcoc"})
      BY <1>3, <2>3
    <3>. QED  BY <2>1, <3>1, <1>4 DEF ToldInv, BeforeCalibrations, AfterCalibrations, ReadLabel
  <2>4. CASE Obeys("calibrateRc", "enable")
    <3>1. /\ pc = "calibrateRc"
          /\ pc' = "failed" \/ (pc' = "enable" /\ told' = told \cup {"calibrateRc"})
      BY <1>3, <2>4
    <3>. QED  BY <2>1, <3>1, <1>4
         DEF ToldInv, BeforeCalibrations, AfterCalibrations, ReadLabel, Calibrations
  <2>. QED  BY <1>6, <2>2, <2>3, <2>4 DEF Calibrate
<1>7. CASE WriteBeacon
  <2>1. ASSUME pc' = "failed" PROVE ToldInv'
    BY <2>1 DEF ToldInv, BeforeCalibrations, AfterCalibrations, ReadsPower, ReadLabel
  <2>2. CASE Obeys("beacon", "setBeaconTime")
    <3>1. /\ pc = "beacon"
          /\ pc' = "failed" \/ (pc' = "setBeaconTime" /\ told' = told \cup {"beacon"})
      BY <1>3, <2>2
    <3>. QED  BY <2>1, <3>1, <1>4 DEF ToldInv, BeforeCalibrations, AfterCalibrations, ReadLabel
  <2>3. CASE Obeys("calibrateBeacon", "done")
    <3>1. /\ pc = "calibrateBeacon"
          /\ pc' = "failed" \/ (pc' = "done" /\ told' = told \cup {"calibrateBeacon"})
      BY <1>3, <2>3
    <3>. QED  BY <1>0, <2>1, <3>1, <1>4
         DEF ToldInv, BeforeCalibrations, AfterCalibrations, ReadLabel
  <2>. QED  BY <1>7, <2>2, <2>3 DEF WriteBeacon
<1>8. CASE (WriteRegisters \/ Tune \/ WriteBssid) /\ UNCHANGED channelVars
  <2>1. /\ UNCHANGED <<told, current>> /\ pc \in {"registers", "tune", "bssid"}
        /\ \/ pc' = "failed"
           \/ pc' = "kick" /\ reading'.by \in Early
    <3>1. CASE WriteRegisters
      BY <1>8, <3>1 DEF WriteRegisters, Controls, Read, channelVars, Early
    <3>2. CASE Tune
      BY <1>8, <3>2 DEF Tune, Controls, Read, channelVars, Early
    <3>3. CASE WriteBssid
      BY <1>8, <3>3 DEF WriteBssid, Tells, Read, Throw, channelVars, Early
    <3>. QED  BY <1>8, <3>1, <3>2, <3>3
  <2>2. pc' = "failed" \/ BeforeCalibrations'
    BY <2>1, EarlyIsNotPower DEF BeforeCalibrations, ReadsPower, ReadLabel
  <2>. QED  BY <1>1, <2>1, <2>2 DEF BeforeCalibrations
<1>9. CASE (UseTrim2 \/ UseTrim1 \/ UseAddress \/ UseChipId) /\ UNCHANGED channelVars
  <2>1. /\ UNCHANGED <<told, current>> /\ pc = "use" /\ reading.by \in Early
        /\ \/ pc' \in {"failed", "tune", "own", "firmware"}
           \/ pc' = "kick" /\ reading'.by \in Early
    <3>1. CASE UseTrim2
      BY <1>9, <3>1 DEF UseTrim2, Used, Throw, Read, channelVars, chipVars, Early
    <3>2. CASE UseTrim1
      BY <1>9, <3>2 DEF UseTrim1, Used, Throw, channelVars, chipVars, Early
    <3>3. CASE UseAddress
      BY <1>9, <3>3 DEF UseAddress, Used, Throw, channelVars, chipVars, Early
    <3>4. CASE UseChipId
      BY <1>9, <3>4 DEF UseChipId, Used, Throw, channelVars, registerVars, chipVars, Early
    <3>. QED  BY <1>9, <3>1, <3>2, <3>3, <3>4
  <2>2. BeforeCalibrations
    BY <2>1, EarlyIsNotPower DEF BeforeCalibrations, ReadsPower, ReadLabel
  <2>3. pc' = "failed" \/ BeforeCalibrations'
    BY <2>1, EarlyIsNotPower DEF BeforeCalibrations, ReadsPower, ReadLabel
  <2>. QED  BY <1>1, <2>1, <2>2, <2>3
<1>10. CASE (WriteAddress \/ SetAddress \/ Reset) /\ UNCHANGED channelVars
  <2>1. /\ UNCHANGED <<told, current>> /\ pc \in {"own", "firmware", "reset"}
        /\ pc' \in {"failed", "bssid", "reset", "calibrateTemperature"}
    BY <1>10 DEF WriteAddress, SetAddress, Reset, Tells, Controls, Throw, channelVars
  <2>. QED  BY <1>1, <2>1 DEF BeforeCalibrations
<1>11. CASE Enable /\ UNCHANGED channelVars
  <2>1. UNCHANGED <<told, current>> /\ pc = "enable" /\ pc' = "channels"
    BY <1>11 DEF Enable, Controls, channelVars
  <2>. QED  BY <1>1, <2>1 DEF AfterCalibrations
<1>12. CASE InitChannels
  <2>1. told' = told /\ pc = "channels" /\ ReadsPower'
    BY <1>12
    DEF InitChannels, ReadTable, Read, registerVars, chipVars, ReadsPower, Channel, ReadLabel
  <2>2. pc' = "kick"
    BY <1>12 DEF InitChannels, ReadTable, Read
  <2>. QED  BY <2>1, <2>2 DEF ToldInv, AfterCalibrations, BeforeCalibrations
<1>13. CASE Switch
  <2>1. told' = told /\ ReadsPower
    BY <1>13 DEF Switch, Used, registerVars, chipVars, ReadsPower, ReadLabel
  <2>2. pc' = "candidates" \/ (ReadsPower' /\ pc' = "kick")
    <3>1. ASSUME ReadTable(current + 1) PROVE ReadsPower' /\ pc' = "kick"
      <4>1. current \in Nat
        BY <1>13 DEF Switch, Used, ReadInv, Calls, Call, ReadLabel
      <4>. QED  BY <1>13, <3>1, <4>1 DEF Switch, ReadTable, Read, ReadsPower, Channel, ReadLabel
    <3>. QED  BY <1>13, <3>1 DEF Switch
  <2>. QED  BY <1>4, <2>1, <2>2 DEF ToldInv, AfterCalibrations, BeforeCalibrations, ReadLabel
<1>14. CASE SetCandidates
  <2>1. /\ UNCHANGED <<told, current>> /\ pc = "candidates" /\ pc' \in {"beaconTime", "failed"}
    BY <1>14 DEF SetCandidates, Throw, registerVars, chipVars
  <2>. QED  BY <1>1, <2>1 DEF AfterCalibrations
<1>15. CASE ReadBeaconTime /\ UNCHANGED channelVars
  <2>1. UNCHANGED <<told, current>> /\ pc = "beaconTime" /\ pc' = "beacon"
    BY <1>15, BeaconTimeStage DEF ReadBeaconTime, Controls, channelVars
  <2>. QED  BY <1>1, <2>1 DEF AfterCalibrations
<1>16. CASE WriteBeaconTime
  <2>1. /\ pc = "setBeaconTime" /\ pc' = "calibrateBeacon"
        /\ told' = told \cup {"setBeaconTime"} \/ Fails("control")
    BY <1>16 DEF WriteBeaconTime
  <2>2. Fails("control") => interrupted'
    BY Zenon DEF Fails
  <2>. QED  BY <1>4, <2>1, <2>2
       DEF ToldInv, BeforeCalibrations, AfterCalibrations, ReadLabel
<1>. QED  BY <1>2, <1>5, <1>6, <1>7, <1>8, <1>9, <1>10, <1>11, <1>12, <1>13, <1>14, <1>15,
             <1>16
     DEF Next, RegistersNext

\* The power of a channel is a number of half dBm, never the mark of none.
LEMMA DecodedIsSome ==
  ASSUME NEW target \in Byte, NEW shift \in Byte
  PROVE  DecodedPower(target, shift) # NoPower
<1> DEFINE size == shift % 64
           sum == IF Bit(shift, 64) = 1 THEN target + size ELSE target - size
<1>1. size \in Int /\ target \in Int /\ target # NoPower
  BY DEF Byte, NoPower
<1>2. sum \in Int
  BY <1>1
<1> HIDE DEF size, sum
<1>3. SignedByte(sum) \in Int
  BY <1>2 DEF SignedByte
<1>4. ASSUME NEW n \in Int PROVE Clamped(n) # NoPower
  BY <1>4 DEF Clamped, MinPower, MaxPower, NoPower
<1>5. DecodedPower(target, shift) = target \/ DecodedPower(target, shift) = Clamped(SignedByte(sum))
  BY DEF DecodedPower, sum, size
<1>. QED  BY <1>1, <1>3, <1>4, <1>5

LEMMA PowerIsSome ==
  ASSUME data \in Seq(Byte), NEW c \in ToSet(ConfiguredChannels)
  PROVE  ChannelPower(c, data) # NoPower
<1> DEFINE e == EntryIndex(c)
           sub == ChannelSubgroup(c)
<1>1. e \in 4 .. 5 /\ sub \in 1 .. 3 /\ e + sub + 1 <= 8
  BY Layout
<1>2. CASE Len(data) < 8
  BY <1>2 DEF ChannelPower, MinPower, NoPower
<1>3. CASE ~(Len(data) < 8)
  <2> HIDE DEF e, sub
  <2>1. Len(data) \in Nat /\ data \in [1 .. Len(data) -> Byte]
    OBVIOUS
  <2>2. e + 1 \in 1 .. Len(data) /\ e + sub + 1 \in 1 .. Len(data)
    BY <1>1, <1>3, <2>1
  <2>3. data[e + 1] \in Byte /\ data[e + sub + 1] \in Byte
    BY <2>1, <2>2
  <2>4. ChannelPower(c, data) = DecodedPower(data[e + 1], data[e + sub + 1])
    BY <1>3 DEF ChannelPower, e, sub
  <2>. QED  BY <2>3, <2>4, DecodedIsSome
<1>. QED  BY <1>2, <1>3

\* What the steps of the constructor do to what ReadyInv speaks of.
LEMMA ReadyNext ==
  ASSUME ReadInv, ReadyInv, [Next]_vars
  PROVE  ReadyInv'
<1>0. failures \in Nat /\ data \in Seq(Byte)
  BY DEF ReadInv, EfuseType
<1>1. ASSUME interrupted => interrupted', UNCHANGED <<powers, candidates, current, enabled>>,
             ReadsPower' => ReadsPower, AfterChannels' => AfterChannels,
             AfterCandidates' => AfterCandidates, pc' = "channels" => pc = "channels"
      PROVE  ReadyInv'
  <2>1. \A i \in 1 .. 12 : Powered(i)' = Powered(i)
    BY <1>1 DEF Powered
  <2>. QED  BY <1>1, <2>1 DEF ReadyInv
<1>2. ASSUME NEW fault, Fails(fault) \/ UNCHANGED failVars
      PROVE  /\ interrupted => interrupted'
             /\ failures' = failures \/ fault = "timeout" \/ interrupted'
  <2>1. CASE Fails(fault)
    BY <2>1, Zenon DEF Fails
  <2>2. CASE UNCHANGED failVars
    BY <2>2, Zenon DEF failVars
  <2>. QED  BY <1>2, <2>1, <2>2
<1>3. ASSUME pc' \notin ReadLabel \cup {"channels", "candidates", "beaconTime", "beacon",
                              "setBeaconTime", "calibrateBeacon", "done"}
      PROVE  ~ReadsPower' /\ ~AfterChannels' /\ ~AfterCandidates' /\ pc' # "channels"
  BY <1>3 DEF ReadsPower, AfterChannels, AfterCandidates
<1>4. ASSUME pc' = "kick", reading'.by \in Early
      PROVE  ~ReadsPower' /\ ~AfterChannels' /\ ~AfterCandidates' /\ pc' # "channels"
  BY <1>4, EarlyIsNotPower DEF ReadsPower, AfterChannels, AfterCandidates
<1>5. CASE (EfuseNext /\ UNCHANGED <<registerVars, channelVars>>) \/ UNCHANGED vars
  <2>1. \/ EfuseNext /\ UNCHANGED registerVars
        \/ UNCHANGED <<efuseVars, registerVars>>
    BY <1>5 DEF vars
  <2>2. /\ pc' = pc \/ (pc \in ReadLabel /\ pc' \in ReadLabel)
        /\ reading' = reading
    BY <2>1, EfuseStage
  <2>3. UNCHANGED <<powers, candidates, current, enabled>>
    BY <1>5 DEF vars, registerVars, chipVars, channelVars
  <2>4. interrupted => interrupted'
    BY <1>5 DEF EfuseNext, Kick, Poll, ReadWord, ChipReads, Fails, failVars, vars, efuseVars
  <2>5. /\ ReadsPower' => ReadsPower
        /\ AfterChannels' => AfterChannels
        /\ AfterCandidates' => AfterCandidates
        /\ pc' = "channels" => pc = "channels"
    BY <2>2, <2>3 DEF ReadsPower, Channel, ReadLabel, AfterChannels, AfterCandidates
  <2>. QED  BY <1>1, <2>3, <2>4, <2>5
<1>6. CASE (Radio \/ Calibrate \/ WriteBeacon) /\ UNCHANGED channelVars
  <2>1. ASSUME NEW command, NEW next, Obeys(command, next)
        PROVE  /\ pc = command /\ pc' \in {next, "failed"} /\ enabled' = enabled
               /\ interrupted => interrupted'
    BY <2>1, <1>2 DEF Obeys, Throw
  <2>2. /\ enabled' = enabled
        /\ interrupted => interrupted'
        /\ pc' \notin ReadLabel \cup {"channels"}
        /\ AfterChannels' => AfterChannels
        /\ AfterCandidates' => AfterCandidates
    BY <1>6, <2>1
    DEF Radio, Calibrate, WriteBeacon, ReadLabel, AfterChannels, AfterCandidates
  <2>3. ~ReadsPower' /\ pc' # "channels"
    BY <2>2 DEF ReadsPower
  <2>4. UNCHANGED <<powers, candidates, current>>
    BY <1>6 DEF channelVars
  <2>. QED  BY <1>1, <2>2, <2>3, <2>4
<1>7. ASSUME ~ReadsPower' /\ ~AfterChannels' /\ ~AfterCandidates' /\ pc' # "channels",
             UNCHANGED channelVars
      PROVE  ReadyInv'
  BY <1>7 DEF ReadyInv, channelVars
<1>8. CASE (WriteRegisters \/ Tune \/ WriteBssid) /\ UNCHANGED channelVars
  <2>1. pc' = "failed" \/ (pc' = "kick" /\ reading'.by \in Early)
    <3>1. CASE WriteRegisters
      BY <3>1 DEF WriteRegisters, Controls, Read, Early
    <3>2. CASE Tune
      BY <3>2 DEF Tune, Controls, Read, Early
    <3>3. CASE WriteBssid
      BY <3>3 DEF WriteBssid, Read, Throw, Early
    <3>. QED  BY <1>8, <3>1, <3>2, <3>3
  <2>. QED  BY <1>3, <1>4, <1>7, <1>8, <2>1 DEF ReadLabel
<1>9. CASE (UseTrim2 \/ UseTrim1 \/ UseAddress \/ UseChipId) /\ UNCHANGED channelVars
  <2>1. \/ pc' \in {"failed", "tune", "own", "firmware"}
        \/ pc' = "kick" /\ reading'.by \in Early
    <3>1. CASE UseTrim2
      BY <3>1 DEF UseTrim2, Throw, Read, Early
    <3>2. CASE UseTrim1 \/ UseAddress \/ UseChipId
      BY <3>2 DEF UseTrim1, UseAddress, UseChipId, Throw
    <3>. QED  BY <1>9, <3>1, <3>2
  <2>. QED  BY <1>3, <1>4, <1>7, <1>9, <2>1 DEF ReadLabel
<1>10. CASE (WriteAddress \/ SetAddress \/ Reset) /\ UNCHANGED channelVars
  <2>1. pc' \in {"failed", "bssid", "reset", "calibrateTemperature"}
    BY <1>10 DEF WriteAddress, SetAddress, Reset, Throw
  <2>. QED  BY <1>3, <1>7, <1>10, <2>1 DEF ReadLabel
<1>11. CASE Enable /\ UNCHANGED channelVars
  <2>1. pc' = "channels" /\ (enabled' \/ interrupted')
    <3>1. UNCHANGED failVars \/ Fails("control")
      BY <1>11 DEF Enable, Controls
    <3>2. failures' = failures \/ interrupted'
      BY <3>1, <1>2
    <3>3. pc' = "channels" /\ (enabled' = TRUE \/ failures' # failures)
      BY <1>11 DEF Enable
    <3>. QED  BY <3>2, <3>3
  <2>2. ~ReadsPower' /\ ~AfterChannels' /\ ~AfterCandidates'
    BY <2>1 DEF ReadsPower, AfterChannels, AfterCandidates, ReadLabel
  <2>. QED  BY <1>11, <2>1, <2>2 DEF ReadyInv, channelVars
<1>12. CASE InitChannels
  <2>1. /\ pc = "channels" /\ pc' = "kick" /\ current' = 1
        /\ UNCHANGED <<interrupted, powers, candidates, enabled>>
    BY <1>12 DEF InitChannels, ReadTable, Read, failVars, registerVars, chipVars
  <2>2. ~AfterChannels' /\ ~AfterCandidates'
    BY <2>1 DEF AfterChannels, AfterCandidates
  <2>3. \A i \in 1 .. 12 : ~(i < current')
    BY <2>1
  <2>. QED  BY <2>1, <2>2, <2>3 DEF ReadyInv
<1>13. CASE Switch
  <2>1. ReadsPower /\ current \in 1 .. 12
    BY <1>13 DEF Switch, Used, ReadsPower, ReadInv, Calls, Call, ReadLabel
  <2>2. Channel \in ToSet(ConfiguredChannels)
    BY <2>1, ChannelSet DEF Channel
  <2>3. \/ /\ powers' = [powers EXCEPT ![Channel] = ChannelPower(Channel, data)]
           /\ interrupted' = interrupted
        \/ powers' = powers /\ interrupted'
    BY <1>2, <1>13 DEF Switch, Fails, failVars
  <2>4. DOMAIN powers' = ToSet(ConfiguredChannels)
    BY <2>3 DEF ReadyInv
  <2>5. ASSUME ~interrupted', NEW i \in 1 .. 12, i <= current PROVE Powered(i)'
    <3>1. /\ ~interrupted
          /\ powers' = [powers EXCEPT ![Channel] = ChannelPower(Channel, data)]
      BY <2>3, <2>5
    <3>2. ConfiguredChannels[i] \in ToSet(ConfiguredChannels)
      BY ChannelSet
    <3>3. CASE ConfiguredChannels[i] = Channel
      BY <1>0, <2>2, <3>1, <3>3, PowerIsSome DEF ReadyInv, Powered
    <3>4. CASE ConfiguredChannels[i] # Channel
      <4>1. i # current
        BY <3>4 DEF Channel
      <4>2. Powered(i)
        BY <2>1, <2>5, <3>1, <4>1 DEF ReadyInv
      <4>. QED  BY <3>1, <3>2, <3>4, <4>2 DEF ReadyInv, Powered
    <3>. QED  BY <3>3, <3>4
  <2>6. ~interrupted' => enabled'
    <3>1. enabled' = enabled
      BY <1>13 DEF Switch, registerVars, chipVars
    <3>. QED  BY <2>1, <2>3, <3>1 DEF ReadyInv
  <2>7. CASE IsLast(current)
    <3>1. pc' = "candidates" /\ current = 12
      BY <1>13, <2>7, ChannelSet DEF Switch, IsLast
    <3>2. ~ReadsPower' /\ ~AfterCandidates'
      BY <3>1 DEF ReadsPower, AfterCandidates, ReadLabel
    <3>3. ~interrupted' => \A i \in 1 .. 12 : Powered(i)'
      BY <2>5, <3>1
    <3>. QED  BY <2>4, <2>6, <3>1, <3>2, <3>3 DEF ReadyInv
  <2>8. CASE ~IsLast(current)
    <3>1. pc' = "kick" /\ current' = current + 1
      BY <1>13, <2>8 DEF Switch, ReadTable, Read
    <3>2. ~AfterChannels' /\ ~AfterCandidates'
      BY <3>1 DEF AfterChannels, AfterCandidates
    <3>3. \A i \in 1 .. 12 : i < current' => i <= current
      BY <2>1, <3>1
    <3>4. ~interrupted' => \A i \in 1 .. 12 : i < current' => Powered(i)'
      BY <2>5, <3>3
    <3>. QED  BY <2>4, <2>6, <3>1, <3>2, <3>4 DEF ReadyInv
  <2>. QED  BY <2>7, <2>8
<1>14. CASE SetCandidates
  <2>1. /\ pc = "candidates" /\ UNCHANGED <<powers, current, enabled>>
        /\ interrupted => interrupted'
        /\ pc' = "failed" \/ (pc' = "beaconTime" /\ candidates' = Candidates)
    BY <1>2, <1>14 DEF SetCandidates, Throw, registerVars, chipVars
  <2>2. ~ReadsPower' /\ pc' # "channels" /\ AfterChannels
    BY <2>1 DEF ReadsPower, ReadLabel, AfterChannels
  <2>3. AfterCandidates' => candidates' = Candidates
    BY <2>1 DEF AfterCandidates
  <2>4. \A i \in 1 .. 12 : Powered(i)' = Powered(i)
    BY <2>1 DEF Powered
  <2>. QED  BY <2>1, <2>2, <2>3, <2>4 DEF ReadyInv
<1>15. CASE (ReadBeaconTime \/ WriteBeaconTime) /\ UNCHANGED channelVars
  <2>1. /\ pc \in {"beaconTime", "setBeaconTime"} /\ pc' \in {"beacon", "calibrateBeacon"}
        /\ UNCHANGED <<enabled, powers, candidates, current>>
    BY <1>15, BeaconTimeStage DEF channelVars
  <2>2. interrupted => interrupted'
    BY InterruptStays
  <2>3. ~ReadsPower' /\ pc' # "channels" /\ AfterChannels /\ AfterCandidates
    BY <2>1 DEF ReadsPower, ReadLabel, AfterChannels, AfterCandidates
  <2>. QED  BY <1>1, <2>1, <2>2, <2>3
<1>. QED  BY <1>5, <1>6, <1>8, <1>9, <1>10, <1>11, <1>12, <1>13, <1>14, <1>15
     DEF Next, RegistersNext

\* The nine commands are nine.
LEMMA NineCommands ==
  Cardinality(RadioCommands \cup Calibrations \cup {"beacon", "setBeaconTime", "calibrateBeacon"}) = 9
<1>1. ASSUME NEW S, NEW n \in Nat, IsFiniteSet(S), Cardinality(S) = n, NEW x, x \notin S
      PROVE  IsFiniteSet(S \cup {x}) /\ Cardinality(S \cup {x}) = n + 1
  BY <1>1, FS_AddElement
<1>2. IsFiniteSet({"selectFunction"}) /\ Cardinality({"selectFunction"}) = 1
  BY FS_Singleton
<1>3. LET S == {"selectFunction", "radioOn"} IN IsFiniteSet(S) /\ Cardinality(S) = 2
  BY <1>1, <1>2
<1>4. IsFiniteSet(RadioCommands) /\ Cardinality(RadioCommands) = 3
  BY <1>1, <1>3 DEF RadioCommands
<1> DEFINE four == RadioCommands \cup {"calibrateTemperature"}
           five == four \cup {"calibrateRxDcoc"}
           six  == five \cup {"calibrateRc"}
           seven == six \cup {"beacon"}
           eight == seven \cup {"setBeaconTime"}
<1>5. IsFiniteSet(four) /\ Cardinality(four) = 4
  BY <1>1, <1>4 DEF RadioCommands
<1>6. IsFiniteSet(five) /\ Cardinality(five) = 5
  <2>1. "calibrateRxDcoc" \notin four /\ 4 \in Nat /\ 4 + 1 = 5
    BY DEF RadioCommands
  <2>. HIDE DEF four
  <2>. QED  BY <1>1, <1>5, <2>1
<1>7. IsFiniteSet(six) /\ Cardinality(six) = 6
  <2>1. "calibrateRc" \notin five /\ 5 \in Nat /\ 5 + 1 = 6
    BY DEF RadioCommands
  <2>. HIDE DEF five
  <2>. QED  BY <1>1, <1>6, <2>1
<1>8. IsFiniteSet(seven) /\ Cardinality(seven) = 7
  <2>1. "beacon" \notin six /\ 6 \in Nat /\ 6 + 1 = 7
    BY DEF RadioCommands
  <2>. HIDE DEF six
  <2>. QED  BY <1>1, <1>7, <2>1
<1>9. IsFiniteSet(eight) /\ Cardinality(eight) = 8
  <2>1. "setBeaconTime" \notin seven /\ 7 \in Nat /\ 7 + 1 = 8
    BY DEF RadioCommands
  <2>. HIDE DEF seven
  <2>. QED  BY <1>1, <1>8, <2>1
<1>10. Cardinality(eight \cup {"calibrateBeacon"}) = 9
  <2>1. "calibrateBeacon" \notin eight /\ 8 \in Nat /\ 8 + 1 = 9
    BY DEF RadioCommands
  <2>. HIDE DEF eight
  <2>. QED  BY <1>1, <1>9, <2>1
<1>11. RadioCommands \cup Calibrations \cup {"beacon", "setBeaconTime", "calibrateBeacon"}
         = eight \cup {"calibrateBeacon"}
  BY DEF Calibrations
<1>. QED  BY <1>10, <1>11

LEMMA CandidatesAreConfigured == Candidates = ToSet(ConfiguredChannels)
BY ChannelSet DEF Candidates

-----------------------------------------------------------------------------
(* Theorems                                                                *)

\* efuseRead() returns the bytes that were asked for, unless a transfer of its own
\* failed or the chip did not answer in time; what failed earlier does not matter.
THEOREM ReadingsAreRight == Spec => []ReadInv
BY ReadInit, ReadNext, PTL DEF Spec

\* For every content of the EFUSE whose targets fit, each channel gets the power of
\* its own table.
THEOREM PowersAreOfOwnTables ==
  ASSUME TargetsFit
  PROVE  Spec => []PowerIsOfOwnTable
<1>1. Init => ReadInv /\ PowerInv
  BY ReadInit, PowerInit
<1>2. ReadInv /\ PowerInv /\ [Next]_vars => (ReadInv /\ PowerInv)'
  BY ReadNext, PowerNext
<1>3. PowerInv => PowerIsOfOwnTable
  BY DEF PowerInv
<1>. QED  BY <1>1, <1>2, <1>3, PTL DEF Spec

\* For every content of the EFUSE the crystal gets the trim that is meant, if that
\* trim fits its field.
THEOREM CrystalIsTrimmed == Spec => []TrimIsMeant
<1>1. Init => ReadInv /\ TrimInv
  BY ReadInit, TrimInit
<1>2. ReadInv /\ TrimInv /\ [Next]_vars => (ReadInv /\ TrimInv)'
  BY ReadNext, TrimNext
<1>3. TrimInv => TrimIsMeant
  BY DEF TrimInv, TrimIsMeant, Tuned
<1>. QED  BY <1>1, <1>2, <1>3, PTL DEF Spec

\* The chip has one address in all its places, and one that gamepads connect to,
\* whatever is in the EFUSE of a dongle of another maker.
THEOREM AddressIsOne ==
  ASSUME OwnRange
  PROVE  Spec => []OneAddress
<1>1. Init => ReadInv /\ AddressInv
  BY ReadInit, AddressInit
<1>2. ReadInv /\ AddressInv /\ [Next]_vars => (ReadInv /\ AddressInv)'
  BY ReadNext, AddressNext
<1>3. AddressInv => OneAddress
  BY DEF AddressInv, OneAddress, WroteAll
<1>. QED  BY <1>1, <1>2, <1>3, PTL DEF Spec

\* A dongle that is constructed is complete, whatever failed without ending the
\* constructor: every channel has a power, every command was obeyed, and it transmits.
THEOREM ReadyDongleIsComplete == Spec => []ReadyIsComplete
<1>1. Init => ReadInv /\ ToldInv /\ ReadyInv
  BY ReadInit, ReadyInit
<1>2. ReadInv /\ ToldInv /\ ReadyInv /\ [Next]_vars => (ReadInv /\ ToldInv /\ ReadyInv)'
  BY ReadNext, ToldNext, ReadyNext
<1>3. ToldInv /\ ReadyInv => ReadyIsComplete
  <2> SUFFICES ASSUME ToldInv, ReadyInv, pc = "done", ~interrupted
               PROVE  /\ enabled
                      /\ Cardinality(told) = 9
                      /\ \A c \in candidates : powers[c] # NoPower
                      /\ candidates = ToSet(ConfiguredChannels)
    BY DEF ReadyIsComplete
  <2>1. enabled /\ candidates = ToSet(ConfiguredChannels)
    BY CandidatesAreConfigured DEF ReadyInv, AfterChannels, AfterCandidates
  <2>2. Cardinality(told) = 9
    BY NineCommands DEF ToldInv
  <2>3. ASSUME NEW c \in ToSet(ConfiguredChannels) PROVE powers[c] # NoPower
    <3>1. PICK i \in 1 .. 12 : c = ConfiguredChannels[i]
      BY ChannelSet DEF ConfiguredChannels
    <3>. QED  BY <3>1 DEF ReadyInv, AfterChannels, AfterCandidates, Powered
  <2>. QED  BY <2>1, <2>2, <2>3
<1>. QED  BY <1>1, <1>2, <1>3, PTL DEF Spec
=============================================================================
