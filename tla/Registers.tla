----------------------------- MODULE Registers -----------------------------
(***************************************************************************)
(* The constructor of Mt76 (src/dongle/mt76.cpp) from the firmware to the  *)
(* channels: the radio, the registers, the crystal oscillator, the address *)
(* of the dongle and the calibrations.  A command that fails ends the      *)
(* constructor; a control transfer that fails does not.                    *)
(***************************************************************************)
EXTENDS Efuse

VARIABLES
  offset,     \* calibrateCrystal(): the local `offset`
  value,      \* calibrateCrystal(): the local `value`
  macAddress,
  told,       \* chip: the commands it has obeyed
  crystal,    \* chip: MT_XO_CTRL5, its seven bits C2_VAL and what is above them
  addresses,  \* chip: its own address, and the BSSID
  enabled     \* chip: transmission and reception in MT_MAC_SYS_CTRL

trimVars == <<offset, value>>
chipVars == <<told, crystal, addresses, enabled>>
registerVars == <<trimVars, macAddress, chipVars>>

RegistersInit ==
  /\ EfuseInit
  /\ pc = "selectFunction"
  /\ offset = 0
  /\ value = 0
  /\ macAddress = <<>>
  /\ told = {}
  /\ crystal = [trim |-> 0, above |-> 0]
  /\ addresses = [place \in {"own", "bssid", "firmware"} |-> <<>>]
  /\ enabled = FALSE

-----------------------------------------------------------------------------
(* Mutated forms of the definitions that follow                            *)

\* The sign bit of the offset is not consulted.
TrimOffsetUnsigned(byte) == IF byte = 255 THEN 0 ELSE byte % 128

\* Only the first byte of a foreign address is replaced.
CorrectedFirstByte(address) == [address EXCEPT ![1] = 98]

-----------------------------------------------------------------------------
(* Commands                                                                *)

\* The constructor throws.
Throw == pc' = "failed"

\* A command the chip obeys, or that fails.
Obeys(command, next) ==
  /\ pc = command
  /\ \/ /\ told' = told \cup {command}
        /\ pc' = next
        /\ UNCHANGED failVars
     \/ /\ Fails("bulk")
        /\ Throw
        /\ UNCHANGED told
  /\ UNCHANGED <<readVars, memVars, trimVars, macAddress, crystal, addresses, enabled>>

\* selectFunction(Q_SELECT, 1), powerMode(RADIO_ON) and loadCr(MT_RF_BBP_CR)
Radio ==
  \/ Obeys("selectFunction", "radioOn")
  \/ Obeys("radioOn", "loadCr")
  \/ Obeys("loadCr", "registers")

\* The three calls of calibrate()
Calibrate ==
  \/ Obeys("calibrateTemperature", "calibrateRxDcoc")
  \/ Obeys("calibrateRxDcoc", "calibrateRc")
  \/ Obeys("calibrateRc", "enable")

\* Control transfers that write registers, or some of which fail.
Controls(label) ==
  /\ pc = label
  /\ UNCHANGED failVars \/ Fails("control")
  /\ UNCHANGED <<memVars, trimVars, macAddress, told, addresses>>

-----------------------------------------------------------------------------
(* initRegisters() and calibrateCrystal()                                  *)

\* MT_EE_XTAL_TRIM_2, MT_EE_XTAL_TRIM_1, MT_EE_MAC_ADDR, MT_EE_CHIP_ID
Trim2 == 158
Trim1 == 58
MacAddr == 4
ChipId == 0

\* The writes of initRegisters() before calibrateCrystal(); the last one to
\* MT_MAC_SYS_CTRL enables transmission and reception.
WriteRegisters ==
  /\ Controls("registers")
  /\ Read(<<"trim2", 0>>, Trim2, 4)
  /\ enabled' \in {TRUE} \cup (IF failures' # failures THEN {enabled} ELSE {})
  /\ UNCHANGED crystal

\* The low byte of the word: a sign and seven bits; 255 is empty.
TrimOffset(byte) ==
  IF byte = 255 THEN 0 ELSE IF byte >= 128 THEN -(byte % 128) ELSE byte

\* 0x00 and 0xff: the EFUSE has no value there.
Missing(byte) == byte \in {0, 255}

\* The offset and the value; without a value the first trim value is read.
UseTrim2 ==
  /\ Used(<<"trim2", 0>>)
  /\ IF ~Complete
     THEN Throw /\ UNCHANGED <<readVars, trimVars>>
     ELSE /\ offset' = TrimOffset(data[3])
          /\ value' = data[4]
          /\ IF Missing(data[4]) THEN Read(<<"trim1", 0>>, Trim1, 4)
             ELSE pc' = "tune" /\ UNCHANGED readVars
  /\ UNCHANGED <<failVars, memVars, macAddress, chipVars>>

UseTrim1 ==
  /\ Used(<<"trim1", 0>>)
  /\ IF ~Complete THEN Throw /\ UNCHANGED value
     ELSE /\ value' = IF Missing(data[3]) THEN 20 ELSE data[3]
          /\ pc' = "tune"
  /\ UNCHANGED <<readVars, failVars, memVars, offset, macAddress, chipVars>>

\* ctrl | (value << 8) into MT_XO_CTRL5, whose C2_VAL was cleared; value is a
\* uint16_t, and what exceeds seven bits goes into the bits above.
Tune ==
  /\ Controls("tune")
  /\ LET sum == ((value % 128) + offset) % 65536
         set == [trim |-> sum % 128, above |-> sum \div 128]
     IN  crystal' \in {set} \cup (IF failures' # failures THEN {crystal} ELSE {})
  /\ Read(<<"address", 0>>, MacAddr, 6)
  /\ UNCHANGED enabled

\* Addresses that do not begin with 62 become 62:45:bd.
Corrected(address) ==
  IF address[1] = 98 THEN address
  ELSE [address EXCEPT ![1] = 98, ![2] = 69, ![3] = 189]

UseAddress ==
  /\ Used(<<"address", 0>>)
  /\ IF ~Complete THEN Throw /\ UNCHANGED macAddress
     ELSE macAddress' = Corrected(data) /\ pc' = "own"
  /\ UNCHANGED <<readVars, failVars, memVars, trimVars, chipVars>>

\* A command that tells the chip the address
Tells(place) ==
  /\ pc = place
  /\ \/ addresses' = [addresses EXCEPT ![place] = macAddress] /\ UNCHANGED failVars
     \/ Fails("bulk") /\ UNCHANGED addresses
  /\ UNCHANGED <<memVars, trimVars, macAddress, told, crystal, enabled>>

\* burstWrite(MT_MAC_ADDR_DW0)
WriteAddress ==
  /\ Tells("own")
  /\ IF failures' = failures THEN pc' = "bssid" ELSE Throw
  /\ UNCHANGED readVars

\* burstWrite(MT_MAC_BSSID_DW0)
WriteBssid ==
  /\ Tells("bssid")
  /\ IF failures' = failures THEN Read(<<"chipId", 0>>, ChipId, 4)
     ELSE Throw /\ UNCHANGED readVars

\* The chip id is only logged, but it has to be there.
UseChipId ==
  /\ Used(<<"chipId", 0>>)
  /\ IF Complete THEN pc' = "firmware" ELSE Throw
  /\ UNCHANGED <<readVars, failVars, memVars, registerVars>>

-----------------------------------------------------------------------------
(* The constructor, after initRegisters()                                  *)

\* sendFirmwareCommand(FW_MAC_ADDRESS_SET)
SetAddress ==
  /\ Tells("firmware")
  /\ IF failures' = failures THEN pc' = "reset" ELSE Throw
  /\ UNCHANGED readVars

\* MT_MAC_SYS_CTRL is cleared for the calibrations ...
Reset ==
  /\ Controls("reset")
  /\ enabled' \in {FALSE} \cup (IF failures' # failures THEN {enabled} ELSE {})
  /\ pc' = "calibrateTemperature"
  /\ UNCHANGED <<readVars, crystal>>

\* ... and transmission and reception are enabled.
Enable ==
  /\ Controls("enable")
  /\ enabled' \in {TRUE} \cup (IF failures' # failures THEN {enabled} ELSE {})
  /\ pc' = "channels"
  /\ UNCHANGED <<readVars, crystal>>

RegistersNext ==
  \/ Radio \/ WriteRegisters \/ UseTrim2 \/ UseTrim1 \/ Tune
  \/ UseAddress \/ WriteAddress \/ WriteBssid \/ UseChipId
  \/ SetAddress \/ Reset \/ Calibrate \/ Enable
  \/ EfuseNext /\ UNCHANGED registerVars

-----------------------------------------------------------------------------
(* Properties                                                              *)

\* The readings of the trim values were not disturbed.
TrimRead == disturbed \cap {<<"trim1", 0>>, <<"trim2", 0>>} = {}

\* The trim of the crystal as the EFUSE means it: the second value unless it is
\* empty, or the first unless it is empty, or 20; and an offset with a sign.
TrimMeant ==
  LET second == efuse[159]
      first  == efuse[58]
      amount == efuse[158] % 128
      base   == IF ~Missing(second) THEN second ELSE IF ~Missing(first) THEN first ELSE 20
  IN  (base % 128) + (CASE efuse[158] = 255  -> 0
                        [] efuse[158] \in 0 .. 127 -> amount
                        [] OTHER -> -amount)

\* The oscillator gets the trim that the EFUSE means, and no other bit of
\* MT_XO_CTRL5 is touched, as long as that trim fits its seven bits.
TrimIsMeant ==
  pc = "enable" /\ TrimRead /\ TrimMeant \in 0 .. 127 =>
    crystal = [trim |-> TrimMeant, above |-> 0]

\* The trim always stays within its seven bits.  The code does NOT have this
\* property: a large offset makes the sum negative or too large, and bits of
\* MT_XO_CTRL5 are set that the code means to keep.
TrimInField == crystal.above = 0

\* What gamepads connect to: 62:45:bx:xx:xx:xx
Accepted(address) == address[1] = 98 /\ address[2] = 69 /\ address[3] \in 176 .. 191

\* The chip has one address, which gamepads connect to, in its own address, the
\* BSSID and the firmware, once it may transmit to gamepads; only a disturbed
\* reading may leave an address of unknown bytes.
OneAddress ==
  pc = "enable" =>
    /\ \A place \in DOMAIN addresses : addresses[place] = macAddress
    /\ <<"address", 0>> \notin disturbed => Accepted(macAddress)
=============================================================================
