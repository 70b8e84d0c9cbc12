------------------------------ MODULE Framing ------------------------------
(***************************************************************************)
(* What the driver writes to the dongle (src/dongle/mt76.cpp,              *)
(* src/controller/gip.cpp), down to the layout of the bytes but without    *)
(* their values: a byte is known by the structure it belongs to and its    *)
(* place in it.  So cutting, padding and appending (src/utils/bytes.h) are *)
(* what they are in the code, and a byte out of place shows.               *)
(***************************************************************************)
EXTENDS Naturals, Sequences

-----------------------------------------------------------------------------
(* Bytes                                                                   *)

\* An object of `size` bytes
Object(name, size) == [i \in 1 .. size |-> <<name, i>>]

\* Bytes::pad()
Zeros(count) == [i \in 1 .. count |-> <<"zero", 0>>]

\* Bytes::padding<uint32_t>()
Padding(count) == (4 - (count % 4)) % 4

\* Bytes(bytes, skipBegin, skipEnd)
Skip(bytes, first, last) == SubSeq(bytes, first + 1, Len(bytes) - last)

Beyond == <<"beyond", 0>>  \* what a pointer finds past the end

\* toStruct<T>(offset), as far as it is read
ToStruct(bytes, offset, size) ==
  [i \in 1 .. size |-> IF offset + i <= Len(bytes) THEN bytes[offset + i] ELSE Beyond]

-----------------------------------------------------------------------------
(* Structures                                                              *)

RxInfo    == Object("RxInfo", 4)
RxWi      == Object("RxWi", 32)
TxInfo    == Object("TxInfo", 4)
TxWi      == Object("TxWi", 20)
WlanFrame == Object("WlanFrame", 24)
QosFrame  == Object("QosFrame", 2)
ReservedFrame == Object("ReservedFrame", 2)
AssociationResponseFrame == Object("AssociationResponseFrame", 14)
BeaconFrame == Object("BeaconFrame", 14)
ChannelConfigData == Object("ChannelConfigData", 20)
Frame     == Object("Frame", 4)

Word == Object("word", 4)  \* a uint32_t

-----------------------------------------------------------------------------
(* Messages: what bulkWrite() is given, with the two lengths it contains,  *)
(* `length` of TxInfo and mpduByteCount of TxWi, and the frame in it; a    *)
(* plain command has none.                                                 *)

\* sendCommand() and sendWlanPacket()
Message(form, data, mpdu, frame) ==
  LET padding == Padding(Len(data))
  IN  [form |-> form, mpdu |-> mpdu, frame |-> frame, length |-> Len(data) + padding,
       bytes |-> TxInfo \o data \o Zeros(padding) \o Zeros(4)]

Command(data)          == Message("command", data, 0, <<>>)
WlanPacket(frame)      == Message("wlan", TxWi \o frame, Len(frame), frame)
FirmwareCommand(data)  == Command(Word \o data)
BurstWrite(values)     == Command(Word \o values)
LedMode                == Command(Word)
Calibration            == Command(Word \o Word)
SwitchChannel          == Command(ChannelConfigData)

\* writeBeacon(): WlanFrame, BeaconFrame and 18 bytes, with their TxWi
Beacon ==
  LET frame == WlanFrame \o BeaconFrame \o Object("beacon", 18)
  IN  Message("beacon", Word \o TxWi \o frame, Len(frame), frame)

\* The association response of associateClient(), the packet of pairClient()
AssociationResponse == WlanPacket(WlanFrame \o AssociationResponseFrame)
PairingPacket       == WlanPacket(WlanFrame \o Object("pairing", 11))

\* Mutated form: mpduByteCount includes the padding of the frame.
MpduByteCountPadded(packet) == Len(WlanFrame) + Len(QosFrame) + 2 + Len(packet)

\* mpduByteCount of sendClientPacket()
MpduByteCount(packet) == Len(WlanFrame) + Len(QosFrame) + Len(packet)

\* sendClientPacket(): the frames are padded, and so is the packet.
ClientPacket(packet) ==
  LET frames == TxWi \o WlanFrame \o QosFrame
  IN  Message("client",
              Word \o Zeros(4) \o frames \o Zeros(Padding(Len(frames)))
                \o packet \o Zeros(Padding(Len(packet))),
              MpduByteCount(packet), WlanFrame \o QosFrame \o packet)

-----------------------------------------------------------------------------
(* GIP packets that are sent                                               *)

GipPacket(data) == Frame \o data

PowerMode     == GipPacket(Object("mode", 1))
LedModeData   == GipPacket(Object("LedModeData", 3))
SerialRequest == GipPacket(Object("serial", 1))
RumbleData    == GipPacket(Object("RumbleData", 9))

\* acknowledgePacket(): a header, the frame that is acknowledged, and padding
Acknowledgement == GipPacket(Zeros(1) \o Object("acknowledged", 4) \o Zeros(4))

-----------------------------------------------------------------------------
(* What the chip transmits of a message: external.  It finds the frame     *)
(* behind TxWi, and the payload behind the header, aligned to four bytes.  *)

FrameStart(message) ==
  CASE message.form = "client" -> 4 + 8 + 20
    [] message.form = "wlan"   -> 4 + 20
    [] message.form = "beacon" -> 4 + 4 + 20

HeaderSize(message) == IF message.form = "client" THEN 26 ELSE 24

Transmitted(message) ==
  LET header == ToStruct(message.bytes, FrameStart(message), HeaderSize(message))
      behind == FrameStart(message) + HeaderSize(message) + Padding(HeaderSize(message))
  IN  header \o ToStruct(message.bytes, behind, message.mpdu - HeaderSize(message))
=============================================================================
