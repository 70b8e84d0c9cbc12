-------------------------------- MODULE Gip --------------------------------
(***************************************************************************)
(* The way of a transfer through the handlers: from a bulk endpoint        *)
(* (src/dongle/dongle.cpp) to the Controller that a GIP packet is for      *)
(* (src/controller/gip.cpp, src/controller/controller.cpp), and of what    *)
(* they write in answer.  Which Controller that is, is in Dongle.tla; here *)
(* there is one, and it matters what the bytes are that each handler sees. *)
(***************************************************************************)
EXTENDS Framing, Inputs

CONSTANTS
  Transfers,     \* what may arrive, made by the operators of the external part
  Faults,        \* what may fail: "usb"
  WcidCount      \* MT_WCID_COUNT

ASSUME GipAssumption == WcidCount \in Nat

VARIABLES
  pc,        \* the handler that is about to run, or "read", or "returned"
  arrived,   \* the transfer that is handled
  window,    \* the bytes that the handler is given
  looked,    \* history: what was looked at in the transfer, and found there
  heard,     \* history: what the transfer was taken for
  outgoing,  \* the messages that the handler still has to write
  written,   \* the last message that was written
  emitted,   \* the events that the input device was given
  failed     \* a message could not be written since the transfer arrived

vars == <<pc, arrived, window, looked, heard, outgoing, written, emitted, failed>>

NoMessage == LedMode

\* A transfer of nothing
Nothing == [port |-> "other", event |-> "other", is80211 |-> FALSE, destination |-> "other",
            type |-> "other", wcid |-> 0, pairs |-> FALSE, command |-> "other",
            device |-> 0, asks |-> FALSE, length |-> 0, pressed |-> FALSE,
            input |-> Released, bytes |-> <<>>, means |-> <<>>]

Init ==
  /\ pc = "read"
  /\ arrived = Nothing
  /\ window = <<>>
  /\ looked = {}
  /\ heard = <<>>
  /\ outgoing = <<>>
  /\ written = NoMessage
  /\ emitted = <<>>
  /\ failed = FALSE

-----------------------------------------------------------------------------
(* Mutated forms of the definitions that follow                            *)

\* `<` instead of `<=`: data without a packet is handled.
HasPacketOrEmpty(data) == Len(data) >= Len(RxInfo) + 4

\* The packet begins behind the QoS frame.
PacketOfClientUnpadded(packet) == Skip(packet, Len(QosFrame), 0)

\* Packets of accessories are ignored before they are acknowledged.
AskedUnlessAccessory == arrived.asks /\ arrived.device = 0

-----------------------------------------------------------------------------
(* Control flow                                                            *)

\* The handlers return.
Return == pc' = "returned" /\ UNCHANGED <<window, looked, heard, outgoing>>

\* The next handler is given these bytes, after those were looked at.
Call(handler, bytes, seen) ==
  /\ pc' = handler
  /\ window' = bytes
  /\ looked' = looked \cup seen
  /\ UNCHANGED <<heard, outgoing>>

\* The transfer is taken for something, and messages are to be written.
Take(as, messages, seen) ==
  /\ pc' = "write"
  /\ heard' = Append(heard, as)
  /\ outgoing' = messages
  /\ looked' = looked \cup seen
  /\ UNCHANGED window

Look(bytes, offset, object) == [at |-> object, found |-> ToStruct(bytes, offset, Len(object))]

Valid(wcid) == wcid \in 1 .. WcidCount

-----------------------------------------------------------------------------
(* What the handlers write                                                 *)

Client(packet) == ClientPacket(packet)

\* setPairingStatus()
PairingMessages == <<Beacon, Calibration, LedMode>>

\* associateClient()
ConnectMessages ==
  <<BurstWrite(Object("address", 6)), FirmwareCommand(Object("wcidData", 8)),
    AssociationResponse, LedMode>>

\* The POWER_OFF of ~Controller(), whose failure is only logged, and
\* removeClient() of the last client
DisconnectMessages ==
  <<Client(PowerMode), FirmwareCommand(Object("wcidData", 4)),
    BurstWrite(Object("address", 6)), LedMode>>

\* initInput()
AnnounceMessages == <<Client(PowerMode), Client(LedModeData), Client(SerialRequest)>>

\* What is written unasked: the rumble requests, the parts of the constructor
Unasked ==
  {Client(RumbleData), SwitchChannel, FirmwareCommand(Object("macAddress", 6)),
   FirmwareCommand(Object("candidates", 56)), BurstWrite(Object("macAddress", 6))}

-----------------------------------------------------------------------------
(* readBulkPackets() and handleBulkData()                                  *)

Receive ==
  /\ pc = "read"
  /\ arrived' \in Transfers
  /\ window' = arrived'.bytes
  /\ pc' = IF window' = <<>> THEN "returned" ELSE "bulk"
  /\ UNCHANGED <<looked, heard, outgoing, written, emitted, failed>>

\* The handlers have kept nothing of the transfer.
Loop ==
  /\ pc = "returned"
  /\ pc' = "read"
  /\ arrived' = Nothing
  /\ window' = <<>>
  /\ looked' = {}
  /\ heard' = <<>>
  /\ written' = NoMessage
  /\ emitted' = <<>>
  /\ failed' = FALSE
  /\ UNCHANGED outgoing

WriteUnasked ==
  /\ pc = "read"
  /\ pc' = "write"
  /\ \E message \in Unasked : outgoing' = <<message>>
  /\ UNCHANGED <<arrived, window, looked, heard, written, emitted, failed>>

\* There is more than a header and an end marker.
HasPacket(data) == Len(data) > Len(RxInfo) + 4

Bulk ==
  /\ pc = "bulk"
  /\ LET packet == Skip(window, Len(RxInfo), 4)
         info   == {Look(window, 0, RxInfo)}
         wcid   == Look(packet, 0, Object("lost", 1))
     IN  CASE ~HasPacket(window) -> Return
           [] HasPacket(window) /\ arrived.port = "cpu" /\ arrived.event = "button" ->
                Take(<<"button">>, PairingMessages, info)
           [] HasPacket(window) /\ arrived.port = "cpu" /\ arrived.event = "lost" ->
                IF Valid(arrived.wcid)
                THEN Take(<<"disconnect", arrived.wcid>>, DisconnectMessages, info \cup {wcid})
                ELSE Return
           [] HasPacket(window) /\ \/ arrived.port = "cpu" /\ arrived.event = "packet"
                                   \/ arrived.port = "wlan" /\ arrived.is80211 ->
                Call("wlan", packet, info)
           [] OTHER -> Return
  /\ UNCHANGED <<arrived, written, emitted, failed>>

-----------------------------------------------------------------------------
(* handleWlanPacket() and handleControllerPair()                           *)

Wlan ==
  /\ pc = "wlan"
  /\ LET headers == {Look(window, 0, RxWi), Look(window, Len(RxWi), WlanFrame)}
         inner   == Skip(window, Len(RxWi) + Len(WlanFrame), 0)
         longer  == Len(window) > Len(RxWi) + Len(WlanFrame)
         us      == longer /\ arrived.destination = "us"
     IN  CASE us /\ arrived.type = "associate" ->
                Take(<<"connect">>, ConnectMessages, headers)
           [] us /\ arrived.type = "disassociate" /\ Valid(arrived.wcid) ->
                Take(<<"disconnect", arrived.wcid>>, DisconnectMessages, headers)
           [] us /\ arrived.type = "reserved" /\ Len(inner) >= Len(ReservedFrame)
                 /\ arrived.pairs ->
                Take(<<"pair">>, <<PairingPacket>> \o PairingMessages,
                     headers \cup {Look(inner, 0, ReservedFrame)})
           [] us /\ arrived.type = "data" -> Call("client", inner, headers)
           [] OTHER -> Return
  /\ UNCHANGED <<arrived, written, emitted, failed>>

-----------------------------------------------------------------------------
(* handleControllerPacket() and GipDevice::handlePacket()                  *)

\* Two bytes of padding follow the QoS frame.
PacketOfClient(packet) == Skip(packet, Len(QosFrame) + 2, 0)

ControllerPacket ==
  /\ pc = "client"
  /\ IF Valid(arrived.wcid) /\ Len(window) > Len(QosFrame) + 2
     THEN Call("gip", PacketOfClient(window), {})
     ELSE Return
  /\ UNCHANGED <<arrived, written, emitted, failed>>

\* type & TYPE_ACK
Asked == arrived.asks

\* An acknowledgement that cannot be sent ends the handling of the packet.
HandlePacket ==
  /\ pc = "gip"
  /\ IF Len(window) < Len(Frame) THEN Return /\ UNCHANGED <<written, failed>>
     ELSE IF ~Asked
          THEN /\ Call("dispatch", window, {Look(window, 0, Frame)})
               /\ UNCHANGED <<written, failed>>
          ELSE \/ /\ written' = Client(Acknowledgement)
                  /\ pc' = "dispatch"
                  /\ heard' = Append(heard, <<"acknowledge">>)
                  /\ looked' = looked \cup {Look(window, 0, Frame)}
                  /\ UNCHANGED <<window, outgoing, failed>>
               \/ "usb" \in Faults /\ failed' = TRUE /\ Return /\ UNCHANGED written
  /\ UNCHANGED <<arrived, emitted>>

\* The structures of the commands that are handled
DataSize == [announce |-> 28, status |-> 4, guide |-> 2, serial |-> 16, input |-> 14]

\* frame->length: exactly the size, but Elite controllers send larger inputs
LengthFits(command, length) ==
  IF command = "input" THEN length >= DataSize[command] ELSE length = DataSize[command]

\* What the handler of a command tells the input device
DeviceEvents(command) ==
  CASE command = "input" -> InputEvents(arrived.input)
    [] command = "guide" -> GuideEvents(arrived.pressed)
    [] OTHER -> <<>>

\* An announcement is answered, the state of the gamepad is passed on; the status
\* and the serial number are only logged.  Packets of accessories and of unknown
\* commands are ignored.
Dispatch ==
  /\ pc = "dispatch"
  /\ LET data == Skip(window, Len(Frame), 0)
         command == arrived.command
     IN  IF /\ arrived.device = 0
            /\ command \in DOMAIN DataSize
            /\ LengthFits(command, arrived.length)
            /\ Len(data) >= DataSize[command]
         THEN /\ Take(<<command>>, IF command = "announce" THEN AnnounceMessages ELSE <<>>,
                      {Look(data, 0, Object("data", DataSize[command]))})
              /\ emitted' = DeviceEvents(command)
         ELSE Return /\ UNCHANGED emitted
  /\ UNCHANGED <<arrived, written, failed>>

-----------------------------------------------------------------------------
(* bulkWrite()                                                             *)

WriteNext ==
  /\ pc = "write"
  /\ outgoing # <<>>
  /\ \/ /\ written' = Head(outgoing)
        /\ outgoing' = Tail(outgoing)
        /\ UNCHANGED failed
     \/ /\ "usb" \in Faults
        /\ failed' = TRUE
        /\ outgoing' = IF outgoing = DisconnectMessages THEN Tail(outgoing) ELSE <<>>
        /\ UNCHANGED written
  /\ UNCHANGED <<pc, arrived, window, looked, heard, emitted>>

Written ==
  /\ pc = "write"
  /\ outgoing = <<>>
  /\ pc' = "returned"
  /\ UNCHANGED <<arrived, window, looked, heard, outgoing, written, emitted, failed>>

Next ==
  \/ Receive \/ Loop \/ Bulk \/ Wlan \/ ControllerPacket \/ HandlePacket \/ Dispatch
  \/ WriteUnasked \/ WriteNext \/ Written

Spec == Init /\ [][Next]_vars

-----------------------------------------------------------------------------
(* What arrives: external.  The values that the handlers look at, and the  *)
(* bytes in the order in which the chip delivers them.                     *)

\* The chip puts a header and an end marker around what it delivers, aligned.
Delivered(bytes) ==
  RxInfo \o bytes \o Zeros(Padding(Len(bytes))) \o Object("end", 4)

Event(event, wcid, means) ==
  [Nothing EXCEPT !.port = "cpu", !.event = event, !.wcid = wcid, !.means = means,
                  !.bytes = Delivered(Object("lost", 1))]

\* A frame of a gamepad: it comes as an event or as an 802.11 packet.
OverAir(frame, body) ==
  {[frame EXCEPT !.port = p, !.event = "packet", !.is80211 = TRUE, !.destination = "us",
                 !.bytes = Delivered(RxWi \o WlanFrame \o body)] : p \in {"cpu", "wlan"}}

Management(type, pairs, wcid, body, means) ==
  OverAir([Nothing EXCEPT !.type = type, !.pairs = pairs, !.wcid = wcid, !.means = means], body)

\* A GIP packet with `size` bytes of data.
Packet(command, device, asks, size, means) ==
  OverAir([Nothing EXCEPT !.type = "data", !.wcid = 1, !.command = command,
                          !.device = device, !.asks = asks, !.length = size, !.means = means],
          QosFrame \o Zeros(2) \o Frame \o Object("data", size))

\* Only the first bytes of a transfer arrive: it means nothing, whatever it was.
Cut(transfer, size) ==
  [transfer EXCEPT !.bytes = SubSeq(@, 1, size), !.means = <<<<"cut">>>>]

\* An 802.11 frame is in it.
HasFrame(t) == (t.port = "cpu" /\ t.event = "packet") \/ (t.port = "wlan" /\ t.is80211)

\* What stands at the beginning of a transfer, as far as it is known
FrameBody(t) ==
  CASE t.type = "data"     -> QosFrame \o Zeros(2) \o Frame \o Object("data", t.length)
    [] t.type = "reserved" -> ReservedFrame
    [] OTHER               -> Object("body", 1)

Layout(t) ==
  IF t.port = "cpu" /\ t.event # "packet" THEN RxInfo \o Object("lost", 1)
  ELSE RxInfo \o RxWi \o WlanFrame \o FrameBody(t)

\* What the chip and the gamepads mean by a whole transfer.  A gamepad has a WCID once
\* it is connected; a packet that asks for it is to be acknowledged, whatever is in it.
PacketMeaning(t) ==
  IF t.device = 0 /\ t.command \in DOMAIN DataSize /\ LengthFits(t.command, t.length)
  THEN <<<<t.command>>>> ELSE <<>>

FrameMeaning(t) ==
  CASE t.type = "associate"                        -> <<<<"connect">>>>
    [] t.type = "disassociate" /\ Valid(t.wcid)    -> <<<<"disconnect", t.wcid>>>>
    [] t.type = "reserved" /\ t.pairs              -> <<<<"pair">>>>
    [] t.type = "data" /\ Valid(t.wcid) /\ t.asks  -> <<<<"acknowledge">>>> \o PacketMeaning(t)
    [] t.type = "data" /\ Valid(t.wcid) /\ ~t.asks -> PacketMeaning(t)
    [] OTHER                                       -> <<>>

Meaning(t) ==
  CASE t.port = "cpu" /\ t.event = "button"                  -> <<<<"button">>>>
    [] t.port = "cpu" /\ t.event = "lost" /\ Valid(t.wcid)   -> <<<<"disconnect", t.wcid>>>>
    [] HasFrame(t) /\ t.destination = "us"                   -> FrameMeaning(t)
    [] OTHER                                                 -> <<>>

IsCut(t) == t.means = <<<<"cut">>>>

\* The bytes of a transfer are those of its layout as far as both go.  A transfer that
\* is not cut has all of them, and an end marker.
Arrives(t) ==
  /\ t.input \in Input /\ t.pressed \in BOOLEAN /\ t.asks \in BOOLEAN /\ t.length \in Nat
  /\ t.bytes \in Seq(STRING \X Nat)
  /\ \A i \in 1 .. Len(t.bytes) : i <= Len(Layout(t)) => t.bytes[i] = Layout(t)[i]
  /\ ~IsCut(t) => Len(t.bytes) >= Len(Layout(t)) + 4 /\ t.means = Meaning(t)

ASSUME TransfersAssumption == \A t \in Transfers : Arrives(t)

-----------------------------------------------------------------------------
(* Properties                                                              *)

\* Whatever the size of a transfer, a structure that is looked at lies within it,
\* and is the one that the chip or the gamepad has put there: the handlers check
\* the size and skip header, end marker and padding as they are on the wire.
LooksRight == \A look \in looked : look.found = look.at

\* A transfer is taken for what it means: the handlers are called that its sender
\* means to call, with the data it has sent, and a packet that asks for it is
\* acknowledged once, before all that it causes.  Only a message that could not be
\* written cuts this short.
IsPrefixOf(s, t) == Len(s) <= Len(t) /\ s = SubSeq(t, 1, Len(s))
TakenAsMeant ==
  ~IsCut(arrived) =>
    /\ IsPrefixOf(heard, arrived.means)
    /\ pc = "returned" /\ ~failed => heard = arrived.means

\* The input device is only given events of the keys and axes it was created with
\* and within their ranges, which the kernel would drop or clip otherwise, and each
\* packet of inputs tells of every axis, and ends with a report.
EventsPassed ==
  /\ \A i \in 1 .. Len(emitted) : Passed(emitted[i]) /\ (emitted[i] = Report <=> i = Len(emitted))
  /\ heard # <<>> /\ heard[Len(heard)] = <<"input">> =>
       {emitted[i][2] : i \in 1 .. Len(emitted)} = (Key \ {"mode"}) \cup DOMAIN Axis \cup {"syn"}

\* A message is aligned, its length is that of what stands between its header and
\* the zeros that mark its end.
Framed(message) ==
  /\ Len(message.bytes) = 4 + message.length + 4
  /\ message.length % 4 = 0
  /\ SubSeq(message.bytes, Len(message.bytes) - 3, Len(message.bytes)) = Zeros(4)

\* What the chip transmits of a message is the frame that was put in, whole and
\* without the padding around and within it.
TransmittedAsMeant ==
  Framed(written) /\ (written.frame # <<>> => Transmitted(written) = written.frame)
=============================================================================
