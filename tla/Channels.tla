------------------------------ MODULE Channels ------------------------------
(***************************************************************************)
(* initChannels() of src/dongle/mt76.cpp, and with it the end of the       *)
(* constructor of Mt76: the transmit power of every channel is read from   *)
(* the EFUSE, decoded, and sent to the chip.  Bandwidths and the scan      *)
(* flag, which are constants, are left out.                                *)
(***************************************************************************)
EXTENDS Registers, SequencesExt

ConfiguredChannels == <<1, 6, 11, 36, 40, 44, 48, 149, 153, 157, 161, 165>>

Candidates == {1, 165, 11, 6, 36, 40, 44, 48, 149, 153, 157, 161}

NoPower == -1   \* the chip was not told of the channel

VARIABLES
  current,   \* which of ConfiguredChannels is configured
  powers,    \* chip: the power of each channel
  candidates \* chip: the channels it may use

channelVars == <<current, powers, candidates>>
vars == <<efuseVars, registerVars, channelVars>>

Init ==
  /\ RegistersInit
  /\ current = 0
  /\ powers = [c \in ToSet(ConfiguredChannels) |-> NoPower]
  /\ candidates = {}

-----------------------------------------------------------------------------
(* Mutated forms of the definitions that follow                            *)

\* The entry of a 5 GHz channel is taken to be aligned as one of 2.4 GHz.
EntryIndexUnaligned(channel) == 4

\* The power is limited above only.
ClampedAbove(power) == IF power > 47 THEN 47 ELSE power % 256

\* The last channel of the list is forgotten.
IsLastTooEarly(i) == i = Len(ConfiguredChannels) - 1

-----------------------------------------------------------------------------
(* getChannelGroup(), getChannelSubgroup(), getChannelPower()              *)

Is24Ghz(channel) == channel <= 14

\* MT_CH_5G_JAPAN, UNII_1, UNII_2, UNII_2E_1, UNII_2E_2, UNII_3
ChannelGroup(channel) ==
  CASE channel \in 184 .. 196 -> 0
    [] channel <= 48          -> 1
    [] channel \in 49 .. 64   -> 2
    [] channel \in 65 .. 114  -> 3
    [] channel \in 115 .. 144 -> 4
    [] OTHER                  -> 5

\* The position of a channel in its group; 5 GHz groups have a low and a high half.
ChannelSubgroup(channel) ==
  CASE channel < 6        -> 1
    [] channel \in 6 .. 10  -> 2
    [] channel \in 11 .. 14 -> 3
    [] channel \in 15 .. 43 \cup 52 .. 57 \cup 98 .. 105 \cup 116 .. 129
                   \cup 149 .. 156 \cup 184 .. 191 -> 1
    [] OTHER -> 2

\* Where the power table of the channel's group begins; each of 5 GHz is 5 bytes.
TableStart(channel) ==
  IF Is24Ghz(channel) THEN 86 ELSE 98 + 5 * ChannelGroup(channel)

\* `index`: where the target power is in the entry that was read, which begins
\* at the address that efuseRead() has aligned.
EntryIndex(channel) == IF Is24Ghz(channel) THEN 4 ELSE 5

\* The bit of this weight
Bit(byte, weight) == (byte \div weight) % 2
SignedByte(n)  == ((n + 128) % 256) - 128

\* MT_CH_POWER_MIN and MT_CH_POWER_MAX, in steps of 0.5 dB
MinPower == 0
MaxPower == 47

Clamped(power) ==
  IF power < MinPower THEN MinPower ELSE IF power > MaxPower THEN MaxPower ELSE power

\* The offset byte: bit 7 enables it, bit 6 is its sign, six bits its size.
\* Target and offset are added in an int8_t.
DecodedPower(target, shift) ==
  LET size == shift % 64
  IN  IF Bit(shift, 128) = 0 THEN target
      ELSE Clamped(SignedByte(IF Bit(shift, 64) = 1 THEN target + size ELSE target - size))

ChannelPower(channel, entry) ==
  IF Len(entry) < 8 THEN MinPower
  ELSE DecodedPower(entry[EntryIndex(channel) + 1],
                    entry[EntryIndex(channel) + ChannelSubgroup(channel) + 1])

-----------------------------------------------------------------------------
(* configureChannel() and initChannels()                                   *)

Channel == ConfiguredChannels[current]

IsLast(i) == i = Len(ConfiguredChannels)

\* getChannelPower() of the next channel asks for the entry in its power table.
ReadTable(i) ==
  /\ current' = i
  /\ Read(<<"power", ConfiguredChannels[i]>>, TableStart(ConfiguredChannels[i]), 8)

InitChannels ==
  /\ pc = "channels"
  /\ ReadTable(1)
  /\ UNCHANGED <<failVars, memVars, registerVars, powers, candidates>>

\* CMD_SWITCH_CHANNEL_OP; initChannels() ignores that it failed.
Switch ==
  /\ current > 0
  /\ Used(<<"power", Channel>>)
  /\ \/ /\ powers' = [powers EXCEPT ![Channel] = ChannelPower(Channel, data)]
        /\ UNCHANGED failVars
     \/ Fails("bulk") /\ UNCHANGED powers
  /\ IF IsLast(current)
     THEN pc' = "candidates" /\ UNCHANGED <<readVars, current>>
     ELSE ReadTable(current + 1)
  /\ UNCHANGED <<memVars, registerVars, candidates>>

\* FW_CHANNEL_CANDIDATES_SET
SetCandidates ==
  /\ pc = "candidates"
  /\ \/ candidates' = Candidates /\ pc' = "beaconTime" /\ UNCHANGED failVars
     \/ Fails("bulk") /\ Throw /\ UNCHANGED candidates
  /\ UNCHANGED <<readVars, memVars, registerVars, current, powers>>

\* writeBeacon(false): controlRead(MT_BEACON_TIME_CFG).  A read that fails yields
\* zero, and the interval of the beacon is lost when the register is written.
ReadBeaconTime ==
  /\ Controls("beaconTime")
  /\ pc' = "beacon"
  /\ UNCHANGED <<readVars, crystal, enabled>>

\* controlWrite(MT_BEACON_TIME_CFG): the timers and the transmission of the beacon;
\* nobody notices that it failed.
WriteBeaconTime ==
  /\ pc = "setBeaconTime"
  /\ pc' = "calibrateBeacon"
  /\ \/ told' = told \cup {"setBeaconTime"} /\ UNCHANGED failVars
     \/ Fails("control") /\ told' \in {told, told \cup {"setBeaconTime"}}
  /\ UNCHANGED <<readVars, memVars, trimVars, macAddress, crystal, addresses, enabled>>

\* Between and after them: its burstWrite() and its calibrate()
WriteBeacon == Obeys("beacon", "setBeaconTime") \/ Obeys("calibrateBeacon", "done")

Next ==
  \/ RegistersNext /\ UNCHANGED channelVars
  \/ InitChannels \/ Switch \/ SetCandidates
  \/ (ReadBeaconTime \/ WriteBeacon \/ WriteBeaconTime) /\ UNCHANGED channelVars

Spec == Init /\ [][Next]_vars

-----------------------------------------------------------------------------
(* Properties                                                              *)

\* The layout of a power table: the target is its third byte, and the offsets
\* of the subgroups follow.
Target(channel) == efuse[TableStart(channel) + 2]
Offset(channel) == efuse[TableStart(channel) + 2 + ChannelSubgroup(channel)]

\* The power that an offset is meant to give, in integers without a width.
Meant(target, shift) ==
  LET size == shift % 64
      sum  == target + (IF Bit(shift, 64) = 1 THEN size ELSE -size)
  IN  IF Bit(shift, 128) = 0 THEN target
      ELSE CHOOSE p \in MinPower .. MaxPower :
             /\ sum \in MinPower .. MaxPower => p = sum
             /\ sum < MinPower => p = MinPower
             /\ sum > MaxPower => p = MaxPower

\* Every channel gets the power that the table of its own group holds, decoded
\* without overflow, unless something failed while it was configured: the fixed
\* position 4 or 5 in the aligned entry is right for every channel that is
\* configured, no entry is of the block read before, and what failed for one
\* channel does not spoil the next.
PowerIsOfOwnTable ==
  \A c \in ToSet(ConfiguredChannels) :
    <<"power", c>> \notin disturbed => powers[c] \in {NoPower, Meant(Target(c), Offset(c))}

\* A dongle that is constructed is complete, though neither the control transfers
\* nor configureChannel() report their failures: everything that failed unnoticed
\* has ended the process by its interruption, or was the EFUSE not answering in
\* time.
ReadyIsComplete ==
  pc = "done" /\ ~interrupted =>
    /\ enabled
    /\ Cardinality(told) = 9
    /\ \A c \in candidates : powers[c] # NoPower
    /\ candidates = ToSet(ConfiguredChannels)

\* What the limits MT_CH_POWER_MIN and MT_CH_POWER_MAX say of every channel.
\* The code does NOT have this property: a target whose offset is disabled is
\* sent as it is.
WithinLimits ==
  \A c \in DOMAIN powers : powers[c] \in MinPower .. MaxPower \cup {NoPower}
=============================================================================
