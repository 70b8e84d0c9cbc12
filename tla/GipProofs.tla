------------------------------ MODULE GipProofs ------------------------------
(***************************************************************************)
(* What Gip.tla promises, for every set of transfers that are laid out as  *)
(* the chip and the gamepads lay them out (TransfersAssumption), cut       *)
(* anywhere or whole.  A message is a concatenation of structures, and so  *)
(* is a transfer: both proofs follow the offset at which each structure    *)
(* stands (Holds), on the way out to what the chip transmits, on the way   *)
(* in to the window that each handler is given (PlaceInv).                 *)
(***************************************************************************)
EXTENDS Gip, SequenceTheorems, TLAPS

-----------------------------------------------------------------------------
(* Bytes                                                                   *)

\* The structures that a byte may belong to
Name == {"RxInfo", "RxWi", "TxInfo", "TxWi", "WlanFrame", "QosFrame", "ReservedFrame",
         "AssociationResponseFrame", "BeaconFrame", "ChannelConfigData", "Frame", "word",
         "zero", "end", "beacon", "pairing", "mode", "LedModeData", "serial", "RumbleData",
         "acknowledged", "address", "wcidData", "macAddress", "candidates", "lost", "body",
         "data"}

Byte == Name \X Nat

\* All that is known of the bytes of a message or of a layout is how many they are.
Bytes(n) == {s \in Seq(Byte) : Len(s) = n}

LEMMA BytesAre ==
  ASSUME NEW n \in Nat, NEW s
  PROVE  s \in Bytes(n) <=> s \in [1 .. n -> Byte]
<1>1. s \in Bytes(n) => s \in [1 .. n -> Byte]
  BY LenProperties DEF Bytes
<1>2. ASSUME s \in [1 .. n -> Byte] PROVE s \in Bytes(n)
  <2>1. s \in Seq(Byte) /\ DOMAIN s = 1 .. n
    BY <1>2, SeqDef
  <2>2. Len(s) = n
    BY <2>1, LenProperties
  <2>. QED  BY <2>1, <2>2 DEF Bytes
<1>. QED  BY <1>1, <1>2

LEMMA SameBytes ==
  ASSUME NEW n \in Nat, NEW s \in Bytes(n), NEW t \in Bytes(n), \A i \in 1 .. n : s[i] = t[i]
  PROVE  s = t
BY BytesAre

LEMMA ObjectBytes ==
  ASSUME NEW name \in Name, NEW size \in Nat
  PROVE  /\ Object(name, size) \in Bytes(size)
         /\ \A i \in 1 .. size : Object(name, size)[i] = <<name, i>>
<1>1. \A i \in 1 .. size : <<name, i>> \in Byte
  BY DEF Byte
<1>2. Object(name, size) \in [1 .. size -> Byte]
  BY <1>1 DEF Object
<1>. QED  BY <1>2, BytesAre DEF Object

LEMMA ZerosBytes ==
  ASSUME NEW count \in Nat
  PROVE  Zeros(count) \in Bytes(count)
<1>1. <<"zero", 0>> \in Byte
  BY DEF Byte, Name
<1>2. Zeros(count) \in [1 .. count -> Byte]
  BY <1>1 DEF Zeros
<1>. QED  BY <1>2, BytesAre

\* Bytes::padding() aligns to four bytes.
LEMMA PaddingAligns ==
  ASSUME NEW count \in Nat
  PROVE  Padding(count) \in 0 .. 3 /\ (count + Padding(count)) % 4 = 0
BY DEF Padding

LEMMA Joined ==
  ASSUME NEW a \in Nat, NEW b \in Nat, NEW s \in Bytes(a), NEW t \in Bytes(b)
  PROVE  /\ s \o t \in Bytes(a + b)
         /\ \A i \in 1 .. a : (s \o t)[i] = s[i]
         /\ \A i \in 1 .. b : (s \o t)[a + i] = t[i]
<1>1. s \in Seq(Byte) /\ t \in Seq(Byte) /\ Len(s) = a /\ Len(t) = b
  BY DEF Bytes
<1>2. /\ s \o t \in Seq(Byte) /\ Len(s \o t) = a + b
      /\ \A i \in 1 .. a + b : (s \o t)[i] = IF i <= a THEN s[i] ELSE t[i - a]
  BY <1>1, ConcatProperties, Zenon
<1>3. ASSUME NEW i \in 1 .. b PROVE (s \o t)[a + i] = t[i]
  <2> DEFINE j == a + i
  <2>1. j \in 1 .. a + b /\ ~(j <= a) /\ j - a = i
    OBVIOUS
  <2> HIDE DEF j
  <2>2. (s \o t)[j] = t[j - a]
    BY <1>2, <2>1
  <2>3. (s \o t)[j] = t[i]
    BY <2>1, <2>2
  <2>. QED  BY <2>3 DEF j
<1>4. ASSUME NEW i \in 1 .. a PROVE (s \o t)[i] = s[i]
  <2>1. i \in 1 .. a + b /\ i <= a
    OBVIOUS
  <2>. QED  BY <1>2, <2>1, Zenon
<1>5. s \o t \in Bytes(a + b)
  BY <1>2 DEF Bytes
<1>. QED  BY <1>3, <1>4, <1>5

\* The n bytes x stand in s at offset k.
Holds(s, k, x, n) == \A i \in 1 .. n : s[k + i] = x[i]

LEMMA JoinedHolds ==
  ASSUME NEW a \in Nat, NEW b \in Nat, NEW s \in Bytes(a), NEW t \in Bytes(b)
  PROVE  Holds(s \o t, 0, s, a) /\ Holds(s \o t, a, t, b)
<1>1. \A i \in 1 .. a : (s \o t)[i] = s[i]
  BY Joined
<1>2. ASSUME NEW i \in 1 .. a PROVE (s \o t)[0 + i] = s[i]
  <2>1. 0 + i = i
    OBVIOUS
  <2>. QED  BY <1>1, <2>1
<1>3. \A i \in 1 .. b : (s \o t)[a + i] = t[i]
  BY Joined
<1>. QED  BY <1>2, <1>3 DEF Holds

LEMMA LeftHolds ==
  ASSUME NEW a \in Nat, NEW b \in Nat, NEW s \in Bytes(a), NEW t \in Bytes(b),
         NEW k \in Nat, NEW n \in Nat, NEW x, Holds(s, k, x, n), k + n <= a
  PROVE  Holds(s \o t, k, x, n)
<1> SUFFICES ASSUME NEW i \in 1 .. n PROVE (s \o t)[k + i] = x[i]
  BY DEF Holds
<1>1. k + i \in 1 .. a
  OBVIOUS
<1>. QED  BY <1>1, Joined DEF Holds

LEMMA RightHolds ==
  ASSUME NEW a \in Nat, NEW b \in Nat, NEW s \in Bytes(a), NEW t \in Bytes(b),
         NEW k \in Nat, NEW n \in Nat, NEW x, Holds(t, k, x, n), k + n <= b
  PROVE  Holds(s \o t, a + k, x, n)
<1> SUFFICES ASSUME NEW i \in 1 .. n PROVE (s \o t)[a + k + i] = x[i]
  BY DEF Holds
<1>1. k + i \in 1 .. b /\ a + k + i = a + (k + i)
  OBVIOUS
<1>2. (s \o t)[a + (k + i)] = t[k + i]
  BY <1>1, Joined
<1>. QED  BY <1>1, <1>2 DEF Holds

\* toStruct() finds what stands at its offset.
LEMMA Found ==
  ASSUME NEW a \in Nat, NEW s \in Bytes(a), NEW k \in Nat, NEW n \in Nat, NEW x \in Bytes(n),
         Holds(s, k, x, n), k + n <= a
  PROVE  ToStruct(s, k, n) = x
<1>1. Len(s) = a
  BY DEF Bytes
<1>2. ASSUME NEW i \in 1 .. n PROVE k + i <= Len(s) /\ s[k + i] = x[i]
  BY <1>1 DEF Holds
<1>3. ToStruct(s, k, n) = [i \in 1 .. n |-> x[i]]
  BY <1>2 DEF ToStruct
<1>4. x = [i \in 1 .. n |-> x[i]]
  BY BytesAre
<1>. QED  BY <1>3, <1>4

-----------------------------------------------------------------------------
(* Messages                                                                *)

LEMMA Headers ==
  /\ RxInfo \in Bytes(4) /\ RxWi \in Bytes(32) /\ TxInfo \in Bytes(4) /\ TxWi \in Bytes(20)
  /\ WlanFrame \in Bytes(24) /\ QosFrame \in Bytes(2) /\ ReservedFrame \in Bytes(2)
  /\ Frame \in Bytes(4) /\ Word \in Bytes(4) /\ Zeros(2) \in Bytes(2) /\ Zeros(4) \in Bytes(4)
<1>1. {"RxInfo", "RxWi", "TxInfo", "TxWi", "WlanFrame", "QosFrame", "ReservedFrame", "Frame",
       "word"} \subseteq Name
  BY DEF Name
<1>. QED  BY <1>1, ObjectBytes, ZerosBytes
DEF RxInfo, RxWi, TxInfo, TxWi, WlanFrame, QosFrame, ReservedFrame, Frame, Word

\* Whatever is sent is aligned, of the length it says, and ends with zeros.
LEMMA MessageIsFramed ==
  ASSUME NEW form, NEW n \in Nat, NEW data \in Bytes(n), NEW mpdu, NEW frame
  PROVE  Framed(Message(form, data, mpdu, frame))
<1> DEFINE pad   == Padding(n)
           front == TxInfo \o data \o Zeros(pad)
           m     == Message(form, data, mpdu, frame)
<1>1. Len(data) = n
  BY DEF Bytes
<1>2. pad \in 0 .. 3 /\ (n + pad) % 4 = 0
  BY PaddingAligns
<1>3. m.bytes = front \o Zeros(4) /\ m.length = n + pad
  BY <1>1 DEF Message
<1> HIDE DEF m, pad
<1>4. front \in Bytes(4 + n + pad)
  <2>1. Zeros(pad) \in Bytes(pad)
    BY <1>2, ZerosBytes
  <2>2. TxInfo \o data \in Bytes(4 + n)
    BY Headers, Joined
  <2>3. 4 + n \in Nat /\ pad \in Nat
    BY <1>2
  <2>. QED  BY <2>1, <2>2, <2>3, Joined
<1> HIDE DEF front
<1>0. 4 + n + pad \in Nat
  BY <1>2
<1>5. m.bytes \in Bytes(4 + n + pad + 4)
  BY <1>0, <1>3, <1>4, Headers, Joined
<1>6. \A i \in 1 .. 4 : m.bytes[4 + n + pad + i] = Zeros(4)[i]
  <2> DEFINE k == 4 + n + pad
  <2>1. k \in Nat /\ 4 \in Nat /\ front \in Bytes(k) /\ Zeros(4) \in Bytes(4)
    BY <1>0, <1>4, Headers
  <2> HIDE DEF k
  <2>2. \A i \in 1 .. 4 : (front \o Zeros(4))[k + i] = Zeros(4)[i]
    BY <2>1, Joined, Zenon
  <2>. QED  BY <1>3, <2>2 DEF k
<1>7. SubSeq(m.bytes, 4 + n + pad + 1, 4 + n + pad + 4) = Zeros(4)
  <2> DEFINE a == 4 + n + pad + 1
             b == 4 + n + pad + 4
  <2>1. \A i \in a .. b : m.bytes[i] \in Byte
    BY <1>2, <1>5, BytesAre
  <2>2. a \in Int /\ b \in Int /\ b - a + 1 = 4 /\ a <= b
    BY <1>2
  <2> HIDE DEF a, b
  <2>3. /\ SubSeq(m.bytes, a, b) \in Seq(Byte) /\ Len(SubSeq(m.bytes, a, b)) = 4
        /\ \A i \in 1 .. 4 : SubSeq(m.bytes, a, b)[i] = m.bytes[a + i - 1]
    BY <2>1, <2>2, SubSeqProperties
  <2>4. SubSeq(m.bytes, a, b) \in Bytes(4)
    BY <2>3 DEF Bytes
  <2>5. ASSUME NEW i \in 1 .. 4 PROVE m.bytes[a + i - 1] = Zeros(4)[i]
    <3>1. a + i - 1 = 4 + n + pad + i
      BY <1>0 DEF a
    <3>. QED  BY <1>6, <3>1
  <2>6. \A i \in 1 .. 4 : SubSeq(m.bytes, a, b)[i] = Zeros(4)[i]
    BY <2>3, <2>5
  <2>. QED  BY <2>4, <2>6, Headers, SameBytes DEF a, b
<1>8. Len(m.bytes) = 4 + n + pad + 4
  BY <1>5 DEF Bytes
<1>9. Len(m.bytes) - 3 = 4 + n + pad + 1
  BY <1>2, <1>8
<1>. QED  BY <1>2, <1>3, <1>7, <1>8, <1>9 DEF Framed, m


\* What is around the data of a message.
LEMMA MessageHolds ==
  ASSUME NEW form, NEW a \in Nat, NEW data \in Bytes(a), NEW mpdu, NEW frame,
         NEW k \in Nat, NEW n \in Nat, NEW x \in Bytes(n), Holds(data, k, x, n), k + n <= a
  PROVE  ToStruct(Message(form, data, mpdu, frame).bytes, 4 + k, n) = x
<1> DEFINE pad == Padding(a)
<1>1. Len(data) = a /\ pad \in Nat
  BY PaddingAligns DEF Bytes
<1>2. Message(form, data, mpdu, frame).bytes = TxInfo \o data \o Zeros(pad) \o Zeros(4)
  BY <1>1 DEF Message
<1> HIDE DEF pad
<1> DEFINE b1 == TxInfo \o data
           b2 == b1 \o Zeros(pad)
           b3 == b2 \o Zeros(4)
<1>3. 4 \in Nat /\ 4 + a \in Nat /\ 4 + k \in Nat /\ 4 + k + n <= 4 + a
      /\ 4 + a + pad \in Nat /\ 4 + k + n <= 4 + a + pad /\ 4 + a + pad + 4 \in Nat
      /\ 4 + k + n <= 4 + a + pad + 4
  BY <1>1
<1>4. Zeros(pad) \in Bytes(pad) /\ Zeros(4) \in Bytes(4) /\ TxInfo \in Bytes(4)
  BY <1>1, ZerosBytes, Headers
<1>5. b1 \in Bytes(4 + a) /\ Holds(b1, 4 + k, x, n)
  BY <1>3, <1>4, Joined, RightHolds
<1> HIDE DEF b1
<1>6. b2 \in Bytes(4 + a + pad) /\ Holds(b2, 4 + k, x, n)
  BY <1>1, <1>3, <1>4, <1>5, Joined, LeftHolds
<1> HIDE DEF b2
<1>7. b3 \in Bytes(4 + a + pad + 4) /\ Holds(b3, 4 + k, x, n)
  BY <1>3, <1>4, <1>6, Joined, LeftHolds
<1> HIDE DEF b3
<1>8. ToStruct(b3, 4 + k, n) = x
  BY <1>3, <1>7, Found
<1>. QED  BY <1>2, <1>8 DEF b1, b2, b3

\* Whatever the length of a packet for a gamepad, what the chip transmits is the header
\* and the packet, without the padding around and between them.
LEMMA ClientPacketIsTransmitted ==
  ASSUME NEW n \in Nat, NEW packet \in Bytes(n)
  PROVE  /\ Framed(ClientPacket(packet))
         /\ Transmitted(ClientPacket(packet)) = ClientPacket(packet).frame
<1> DEFINE header == WlanFrame \o QosFrame
           frames == TxWi \o WlanFrame \o QosFrame
           pad == Padding(n)
           d0 == Word \o Zeros(4)
           d1 == d0 \o frames
           d2 == d1 \o Zeros(2)
           d3 == d2 \o packet
           d4 == d3 \o Zeros(pad)
           m  == Message("client", d4, 26 + n, header \o packet)
<1>1. Len(packet) = n /\ pad \in Nat
  BY PaddingAligns DEF Bytes
<1>n. /\ 20 \in Nat /\ 24 \in Nat /\ 2 \in Nat /\ 26 \in Nat /\ 46 \in Nat /\ 4 \in Nat
      /\ 8 \in Nat /\ 28 \in Nat /\ 54 \in Nat /\ 56 \in Nat
      /\ 24 + 2 = 26 /\ 20 + 26 = 46 /\ 4 + 4 = 8 /\ 8 + 46 = 54 /\ 8 + 20 = 28 /\ 54 + 2 = 56
      /\ 20 + 26 <= 46 /\ 28 + 26 <= 54 /\ 28 + 26 <= 56
  OBVIOUS
<1>h. /\ TxWi \in Bytes(20) /\ WlanFrame \in Bytes(24) /\ QosFrame \in Bytes(2)
      /\ Word \in Bytes(4) /\ Zeros(4) \in Bytes(4) /\ Zeros(2) \in Bytes(2)
  BY Headers, Zenon
<1>2. header \in Bytes(26) /\ Holds(frames, 20, header, 26) /\ frames \in Bytes(46)
  <2>1. header \in Bytes(26)
    BY <1>n, <1>h, Joined
  <2>2. frames = TxWi \o header
    <3>1. TxWi \in Seq(Byte) /\ WlanFrame \in Seq(Byte) /\ QosFrame \in Seq(Byte)
      BY <1>h DEF Bytes
    <3>. QED  BY <3>1, ConcatAssociative
  <2> HIDE DEF header
  <2>3. TxWi \o header \in Bytes(20 + 26)
    BY <1>n, <1>h, <2>1, Joined, Zenon
  <2>4. Holds(TxWi \o header, 20, header, 26)
    BY <1>n, <1>h, <2>1, JoinedHolds, Zenon
  <2>. QED  BY <1>n, <2>1, <2>2, <2>3, <2>4
<1>3. Padding(46) = 2 /\ Padding(26) = 2
  BY DEF Padding
<1>4. ClientPacket(packet) = m
  <2>1. Len(frames) = 46 /\ Len(WlanFrame) = 24 /\ Len(QosFrame) = 2
    BY <1>2, Headers DEF Bytes
  <2>. QED  BY <1>1, <1>3, <2>1 DEF ClientPacket, MpduByteCount
<1> HIDE DEF pad, header, frames
<1>5. d0 \in Bytes(8)
  <2>1. d0 \in Bytes(4 + 4)
    BY <1>n, <1>h, Joined, Zenon
  <2>. QED  BY <1>n, <2>1
<1> HIDE DEF d0
<1>6. d1 \in Bytes(54) /\ Holds(d1, 28, header, 26)
  <2>k. 8 \in Nat /\ 46 \in Nat /\ 20 \in Nat /\ 26 \in Nat /\ 20 + 26 <= 46
    OBVIOUS
  <2>1. d1 \in Bytes(8 + 46)
    BY <2>k, <1>2, <1>5, Joined, Zenon
  <2>2. Holds(d1, 8 + 20, header, 26)
    BY <2>k, <1>2, <1>5, RightHolds, Zenon
  <2>. QED  BY <1>n, <2>1, <2>2
<1> HIDE DEF d1
<1>7. d2 \in Bytes(56) /\ Holds(d2, 28, header, 26)
  <2>k. 54 \in Nat /\ 2 \in Nat /\ 28 \in Nat /\ 26 \in Nat /\ 28 + 26 <= 54
    OBVIOUS
  <2>h. Zeros(2) \in Bytes(2)
    BY <1>h
  <2>1. d2 \in Bytes(54 + 2)
    BY <2>k, <2>h, <1>6, Joined, Zenon
  <2>2. Holds(d2, 28, header, 26)
    BY <2>k, <2>h, <1>6, LeftHolds, Zenon
  <2>. QED  BY <1>n, <2>1, <2>2
<1> HIDE DEF d2
<1>8. d3 \in Bytes(56 + n) /\ Holds(d3, 28, header, 26) /\ Holds(d3, 56, packet, n)
  <2>k. 56 \in Nat /\ 28 \in Nat /\ 26 \in Nat /\ 28 + 26 <= 56
    OBVIOUS
  <2>1. d3 \in Bytes(56 + n)
    BY <2>k, <1>7, Joined, Zenon
  <2>2. Holds(d3, 28, header, 26)
    BY <2>k, <1>7, LeftHolds, Zenon
  <2>3. Holds(d3, 56, packet, n)
    BY <2>k, <1>7, JoinedHolds, Zenon
  <2>. QED  BY <2>1, <2>2, <2>3
<1> HIDE DEF d3
<1>9. /\ 56 + n \in Nat /\ 56 + n + pad \in Nat
      /\ 28 + 26 <= 56 + n /\ 28 + 26 <= 56 + n + pad /\ 56 + n <= 56 + n + pad
      /\ 56 + n <= 56 + n
  BY <1>1
<1>10. d4 \in Bytes(56 + n + pad) /\ Holds(d4, 28, header, 26) /\ Holds(d4, 56, packet, n)
  <2>1. Zeros(pad) \in Bytes(pad)
    BY <1>1, ZerosBytes
  <2>k. /\ 56 \in Nat /\ 28 \in Nat /\ 26 \in Nat /\ pad \in Nat
        /\ 56 + n \in Nat /\ 28 + 26 <= 56 + n /\ 56 + n <= 56 + n
    BY <1>1, <1>9
  <2>2. d4 \in Bytes(56 + n + pad)
    BY <2>k, <1>8, <2>1, Joined, Zenon
  <2>3. Holds(d4, 28, header, 26)
    BY <2>k, <1>8, <2>1, LeftHolds, Zenon
  <2>4. Holds(d4, 56, packet, n)
    BY <2>k, <1>8, <2>1, LeftHolds, Zenon
  <2>. QED  BY <2>2, <2>3, <2>4
<1> HIDE DEF d4
<1>11. Framed(m)
  BY <1>9, <1>10, MessageIsFramed
<1>12. ToStruct(m.bytes, 32, 26) = header /\ ToStruct(m.bytes, 60, n) = packet
  <2>1. 4 + 28 = 32 /\ 4 + 56 = 60
    OBVIOUS
  <2>2. ToStruct(m.bytes, 4 + 28, 26) = header
    BY <1>2, <1>9, <1>10, MessageHolds
  <2>3. ToStruct(m.bytes, 4 + 56, n) = packet
    BY <1>9, <1>10, MessageHolds
  <2>. QED  BY <2>1, <2>2, <2>3
<1>13. m.form = "client" /\ m.mpdu = 26 + n /\ m.frame = header \o packet
  BY DEF Message
<1> HIDE DEF m
<1>14. Transmitted(m) = header \o packet
  <2>1. FrameStart(m) = 32 /\ HeaderSize(m) = 26 /\ m.mpdu - 26 = n
    BY <1>13 DEF FrameStart, HeaderSize
  <2>2. 32 + 26 + 2 = 60
    OBVIOUS
  <2>. QED  BY <1>3, <1>12, <2>1, <2>2 DEF Transmitted
<1>. QED  BY <1>4, <1>11, <1>13, <1>14

LEMMA WlanPacketIsTransmitted ==
  ASSUME NEW n \in Nat, NEW body \in Bytes(n), NEW packet, packet = WlanPacket(WlanFrame \o body)
  PROVE  Framed(packet) /\ Transmitted(packet) = packet.frame
<1> DEFINE frame == WlanFrame \o body
           data  == TxWi \o frame
<1>1. /\ 20 \in Nat /\ 24 \in Nat /\ 44 \in Nat /\ 24 + n \in Nat /\ 44 + n \in Nat
      /\ 20 + 24 = 44 /\ 24 + 0 = 24 /\ 0 \in Nat
      /\ 20 + (24 + n) = 44 + n /\ 0 + 24 <= 24 + n /\ 24 + n <= 24 + n
      /\ 20 + 24 <= 44 + n /\ 44 + n <= 44 + n /\ 20 + 0 = 20
  OBVIOUS
<1>2. TxWi \in Bytes(20) /\ WlanFrame \in Bytes(24)
  BY Headers, Zenon
<1>3. frame \in Bytes(24 + n) /\ Holds(frame, 0, WlanFrame, 24) /\ Holds(frame, 24, body, n)
  <2>1. frame \in Bytes(24 + n)
    BY <1>1, <1>2, Joined, Zenon
  <2>. QED  BY <1>1, <1>2, <2>1, JoinedHolds, Zenon
<1>4. packet = Message("wlan", data, 24 + n, frame)
  <2>1. Len(frame) = 24 + n
    BY <1>3 DEF Bytes
  <2>. QED  BY <2>1 DEF WlanPacket
<1> HIDE DEF frame
<1>5. data \in Bytes(44 + n) /\ Holds(data, 20, WlanFrame, 24) /\ Holds(data, 44, body, n)
  <2>1. data \in Bytes(20 + (24 + n))
    BY <1>1, <1>2, <1>3, Joined, Zenon
  <2>2. Holds(data, 20 + 0, WlanFrame, 24)
    BY <1>1, <1>2, <1>3, RightHolds, Zenon
  <2>3. Holds(data, 20 + 24, body, n)
    BY <1>1, <1>2, <1>3, RightHolds, Zenon
  <2>. QED  BY <1>1, <2>1, <2>2, <2>3
<1> HIDE DEF data
<1>6. Framed(packet)
  BY <1>1, <1>4, <1>5, MessageIsFramed
<1>7. ToStruct(packet.bytes, 24, 24) = WlanFrame /\ ToStruct(packet.bytes, 48, n) = body
  <2>1. ToStruct(packet.bytes, 4 + 20, 24) = WlanFrame
    BY <1>1, <1>2, <1>4, <1>5, MessageHolds
  <2>2. ToStruct(packet.bytes, 4 + 44, n) = body
    BY <1>1, <1>4, <1>5, MessageHolds
  <2>. QED  BY <2>1, <2>2
<1>8. packet.form = "wlan" /\ packet.mpdu = 24 + n /\ packet.frame = frame
  BY <1>4 DEF Message
<1>9. FrameStart(packet) = 24 /\ HeaderSize(packet) = 24 /\ packet.mpdu - 24 = n
      /\ Padding(24) = 0
  BY <1>8 DEF FrameStart, HeaderSize, Padding
<1>10. Transmitted(packet) = WlanFrame \o body
  <2>1. 24 + 24 + 0 = 48
    OBVIOUS
  <2>. QED  BY <1>7, <1>9, <2>1 DEF Transmitted
<1>. QED  BY <1>6, <1>8, <1>10 DEF frame

LEMMA BeaconIsTransmitted == Framed(Beacon) /\ Transmitted(Beacon) = Beacon.frame
<1> DEFINE rest  == BeaconFrame \o Object("beacon", 18)
           frame == WlanFrame \o BeaconFrame \o Object("beacon", 18)
           front == Word \o TxWi
           data  == front \o frame
<1>1. /\ 4 \in Nat /\ 14 \in Nat /\ 18 \in Nat /\ 20 \in Nat /\ 24 \in Nat /\ 32 \in Nat
      /\ 48 \in Nat /\ 52 \in Nat /\ 56 \in Nat /\ 80 \in Nat /\ 0 \in Nat
      /\ 14 + 18 = 32 /\ 24 + 32 = 56 /\ 4 + 20 = 24 /\ 24 + 56 = 80 /\ 24 + 0 = 24
      /\ 24 + 24 = 48 /\ 0 + 24 <= 56 /\ 24 + 32 <= 56 /\ 24 + 24 <= 80 /\ 48 + 32 <= 80
  OBVIOUS
<1>2. /\ TxWi \in Bytes(20) /\ WlanFrame \in Bytes(24) /\ Word \in Bytes(4)
      /\ BeaconFrame \in Bytes(14) /\ Object("beacon", 18) \in Bytes(18)
  <2>1. "BeaconFrame" \in Name /\ "beacon" \in Name
    BY DEF Name
  <2>2. BeaconFrame \in Bytes(14) /\ Object("beacon", 18) \in Bytes(18)
    BY <1>1, <2>1, ObjectBytes, Zenon DEF BeaconFrame
  <2>. QED  BY <2>2, Headers, Zenon
<1>3. rest \in Bytes(32)
  <2>1. rest \in Bytes(14 + 18)
    BY <1>1, <1>2, Joined, Zenon
  <2>. QED  BY <1>1, <2>1
<1>4. frame = WlanFrame \o rest
  <2>1. WlanFrame \in Seq(Byte) /\ BeaconFrame \in Seq(Byte) /\ Object("beacon", 18) \in Seq(Byte)
    BY <1>2 DEF Bytes
  <2>. QED  BY <2>1, ConcatAssociative
<1> HIDE DEF rest, frame
<1>5. frame \in Bytes(56) /\ Holds(frame, 0, WlanFrame, 24) /\ Holds(frame, 24, rest, 32)
  <2>1. WlanFrame \o rest \in Bytes(24 + 32)
    BY <1>1, <1>2, <1>3, Joined, Zenon
  <2>2. Holds(WlanFrame \o rest, 0, WlanFrame, 24) /\ Holds(WlanFrame \o rest, 24, rest, 32)
    <3>1. 24 \in Nat /\ 32 \in Nat /\ WlanFrame \in Bytes(24)
      BY <1>2
    <3>. QED  BY <1>3, <3>1, JoinedHolds, Zenon
  <2>. QED  BY <1>1, <1>4, <2>1, <2>2
<1>6. front \in Bytes(24)
  <2>1. front \in Bytes(4 + 20)
    BY <1>1, <1>2, Joined, Zenon
  <2>. QED  BY <1>1, <2>1
<1>7. Beacon = Message("beacon", data, 56, frame)
  <2>1. Len(frame) = 56
    BY <1>5 DEF Bytes
  <2>. QED  BY <2>1 DEF Beacon, frame
<1> HIDE DEF front
<1>8. data \in Bytes(80) /\ Holds(data, 24, WlanFrame, 24) /\ Holds(data, 48, rest, 32)
  <2>1. data \in Bytes(24 + 56)
    BY <1>1, <1>5, <1>6, Joined, Zenon
  <2>n. /\ 24 \in Nat /\ 56 \in Nat /\ 0 \in Nat /\ 32 \in Nat
        /\ 0 + 24 <= 56 /\ 24 + 32 <= 56
    OBVIOUS
  <2>2. Holds(data, 24 + 0, WlanFrame, 24)
    BY <2>n, <1>5, <1>6, RightHolds, Zenon
  <2>3. Holds(data, 24 + 24, rest, 32)
    BY <2>n, <1>5, <1>6, RightHolds, Zenon
  <2>. QED  BY <1>1, <2>1, <2>2, <2>3
<1> HIDE DEF data
<1> DEFINE b == Message("beacon", data, 56, frame)
<1>9. Framed(b)
  BY <1>1, <1>8, MessageIsFramed
<1>10. ToStruct(b.bytes, 28, 24) = WlanFrame /\ ToStruct(b.bytes, 52, 32) = rest
  <2>1. ToStruct(b.bytes, 4 + 24, 24) = WlanFrame
    BY <1>1, <1>2, <1>8, MessageHolds
  <2>2. ToStruct(b.bytes, 4 + 48, 32) = rest
    BY <1>1, <1>3, <1>8, MessageHolds
  <2>. QED  BY <2>1, <2>2
<1>11. b.form = "beacon" /\ b.mpdu = 56 /\ b.frame = frame
  BY DEF Message
<1> HIDE DEF b
<1>12. FrameStart(b) = 28 /\ HeaderSize(b) = 24 /\ b.mpdu - 24 = 32 /\ Padding(24) = 0
  BY <1>11 DEF FrameStart, HeaderSize, Padding
<1>13. Transmitted(b) = WlanFrame \o rest
  <2>1. 28 + 24 + 0 = 52
    OBVIOUS
  <2>. QED  BY <1>10, <1>12, <2>1 DEF Transmitted
<1>. QED  BY <1>4, <1>7, <1>9, <1>11, <1>13 DEF b

-----------------------------------------------------------------------------
(* What is written                                                         *)

Right(message) ==
  Framed(message) /\ (message.frame # <<>> => Transmitted(message) = message.frame)

Commands ==
  {LedMode, Calibration, SwitchChannel, BurstWrite(Object("address", 6)),
   BurstWrite(Object("macAddress", 6)), FirmwareCommand(Object("macAddress", 6)),
   FirmwareCommand(Object("wcidData", 8)), FirmwareCommand(Object("wcidData", 4)),
   FirmwareCommand(Object("candidates", 56))}

ClientPackets ==
  {Client(packet) : packet \in {PowerMode, LedModeData, SerialRequest, RumbleData, Acknowledgement}}

Sent == Commands \cup ClientPackets \cup {AssociationResponse, PairingPacket, Beacon}

LEMMA CommandIsRight ==
  ASSUME NEW n \in Nat, NEW data \in Bytes(n)
  PROVE  Right(Command(data))
<1>1. Framed(Command(data))
  BY MessageIsFramed DEF Command
<1>2. Command(data).frame = <<>>
  BY DEF Command, Message
<1>. QED  BY <1>1, <1>2 DEF Right

LEMMA RegisterIsRight ==
  ASSUME NEW name \in Name, NEW n \in Nat
  PROVE  Right(Command(Word \o Object(name, n)))
<1>1. Object(name, n) \in Bytes(n) /\ Word \in Bytes(4) /\ 4 \in Nat
  BY ObjectBytes, Headers
<1>2. Word \o Object(name, n) \in Bytes(4 + n)
  BY <1>1, Joined, Zenon
<1>3. 4 + n \in Nat
  OBVIOUS
<1>. QED  BY <1>2, <1>3, CommandIsRight

LEMMA CommandsAreRight == \A m \in Commands : Right(m)
<1>1. /\ "word" \in Name /\ "address" \in Name /\ "macAddress" \in Name /\ "wcidData" \in Name
      /\ "candidates" \in Name /\ "ChannelConfigData" \in Name
      /\ 4 \in Nat /\ 6 \in Nat /\ 8 \in Nat /\ 20 \in Nat /\ 56 \in Nat
  BY DEF Name
<1>2. Right(LedMode)
  BY <1>1, Headers, CommandIsRight DEF LedMode
<1>3. Right(Calibration)
  BY <1>1, RegisterIsRight, Zenon DEF Calibration, Word
<1>4. Right(SwitchChannel)
  <2>1. ChannelConfigData \in Bytes(20)
    BY <1>1, ObjectBytes, Zenon DEF ChannelConfigData
  <2>. QED  BY <1>1, <2>1, CommandIsRight, Zenon DEF SwitchChannel
<1>5. /\ Right(BurstWrite(Object("address", 6))) /\ Right(BurstWrite(Object("macAddress", 6)))
  BY <1>1, RegisterIsRight, Zenon DEF BurstWrite
<1>6. /\ Right(FirmwareCommand(Object("macAddress", 6)))
      /\ Right(FirmwareCommand(Object("wcidData", 8)))
      /\ Right(FirmwareCommand(Object("wcidData", 4)))
      /\ Right(FirmwareCommand(Object("candidates", 56)))
  BY <1>1, RegisterIsRight, Zenon DEF FirmwareCommand
<1>. QED  BY <1>2, <1>3, <1>4, <1>5, <1>6 DEF Commands

LEMMA ClientPacketsAreRight == \A m \in ClientPackets : Right(m)
<1>1. ASSUME NEW n \in Nat, NEW data \in Bytes(n) PROVE Right(Client(GipPacket(data)))
  <2>1. Frame \in Bytes(4) /\ 4 \in Nat
    BY Headers
  <2>2. Frame \o data \in Bytes(4 + n)
    BY <2>1, Joined, Zenon
  <2>3. 4 + n \in Nat
    OBVIOUS
  <2>. QED  BY <2>2, <2>3, ClientPacketIsTransmitted DEF Right, Client, GipPacket
<1>2. ASSUME NEW name \in Name, NEW n \in Nat PROVE Right(Client(GipPacket(Object(name, n))))
  BY <1>1, ObjectBytes
<1>3. "mode" \in Name /\ "LedModeData" \in Name /\ "serial" \in Name /\ "RumbleData" \in Name
      /\ "acknowledged" \in Name
  BY DEF Name
<1>4. /\ Right(Client(PowerMode)) /\ Right(Client(LedModeData)) /\ Right(Client(SerialRequest))
      /\ Right(Client(RumbleData))
  BY <1>2, <1>3 DEF PowerMode, LedModeData, SerialRequest, RumbleData
<1>5. Right(Client(Acknowledgement))
  <2> DEFINE a == Zeros(1) \o Object("acknowledged", 4)
             b == a \o Zeros(4)
  <2>1. Zeros(1) \in Bytes(1) /\ Zeros(4) \in Bytes(4) /\ Object("acknowledged", 4) \in Bytes(4)
    BY <1>3, ObjectBytes, ZerosBytes
  <2>2. 1 \in Nat /\ 4 \in Nat /\ 1 + 4 \in Nat /\ 1 + 4 + 4 \in Nat
    OBVIOUS
  <2>3. a \in Bytes(1 + 4)
    BY <2>1, <2>2, Joined, Zenon
  <2> HIDE DEF a
  <2>4. b \in Bytes(1 + 4 + 4)
    BY <2>1, <2>2, <2>3, Joined, Zenon
  <2>5. Right(Client(GipPacket(b)))
    BY <1>1, <2>2, <2>4, Zenon
  <2>. QED  BY <2>5 DEF Acknowledgement, a
<1>. QED  BY <1>4, <1>5 DEF ClientPackets

LEMMA SentIsRight == \A m \in Sent : Right(m)
<1>1. Right(AssociationResponse)
  <2>1. "AssociationResponseFrame" \in Name /\ 14 \in Nat
    BY DEF Name
  <2>2. AssociationResponseFrame \in Bytes(14)
    BY <2>1, ObjectBytes, Zenon DEF AssociationResponseFrame
  <2>. QED  BY <2>1, <2>2, WlanPacketIsTransmitted DEF AssociationResponse, Right
<1>2. Right(PairingPacket)
  <2>1. "pairing" \in Name /\ 11 \in Nat
    BY DEF Name
  <2>2. Object("pairing", 11) \in Bytes(11)
    BY <2>1, ObjectBytes, Zenon
  <2>. QED  BY <2>1, <2>2, WlanPacketIsTransmitted DEF PairingPacket, Right
<1>. QED  BY <1>1, <1>2, BeaconIsTransmitted, CommandsAreRight, ClientPacketsAreRight
          DEF Sent, Right

\* The handlers write no message but those of Sent.
WrittenInv == written \in Sent /\ outgoing \in Seq(Sent)

LEMMA MessagesAreSent ==
  /\ PairingMessages \in Seq(Sent) /\ ConnectMessages \in Seq(Sent)
  /\ DisconnectMessages \in Seq(Sent) /\ AnnounceMessages \in Seq(Sent)
  /\ <<PairingPacket>> \o PairingMessages \in Seq(Sent)
  /\ \A m \in Unasked : m \in Sent
  /\ Client(Acknowledgement) \in Sent /\ NoMessage \in Sent
<1>1. /\ Beacon \in Sent /\ Calibration \in Sent /\ LedMode \in Sent /\ PairingPacket \in Sent
      /\ AssociationResponse \in Sent /\ SwitchChannel \in Sent
      /\ BurstWrite(Object("address", 6)) \in Sent /\ BurstWrite(Object("macAddress", 6)) \in Sent
      /\ FirmwareCommand(Object("macAddress", 6)) \in Sent
      /\ FirmwareCommand(Object("wcidData", 8)) \in Sent
      /\ FirmwareCommand(Object("wcidData", 4)) \in Sent
      /\ FirmwareCommand(Object("candidates", 56)) \in Sent
  BY DEF Sent, Commands
<1>2. /\ Client(PowerMode) \in Sent /\ Client(LedModeData) \in Sent /\ Client(SerialRequest) \in Sent
      /\ Client(RumbleData) \in Sent /\ Client(Acknowledgement) \in Sent
  BY DEF Sent, ClientPackets
<1>3. PairingMessages \in Seq(Sent)
  BY <1>1 DEF PairingMessages
<1>4. ConnectMessages \in Seq(Sent)
  BY <1>1 DEF ConnectMessages
<1>5. DisconnectMessages \in Seq(Sent)
  BY <1>1, <1>2 DEF DisconnectMessages
<1>6. AnnounceMessages \in Seq(Sent)
  BY <1>2 DEF AnnounceMessages
<1>7. <<PairingPacket>> \o PairingMessages \in Seq(Sent)
  <2>1. <<PairingPacket>> \in Seq(Sent)
    BY <1>1
  <2>. QED  BY <1>3, <2>1, ConcatProperties
<1>8. \A m \in Unasked : m \in Sent
  BY <1>1, <1>2 DEF Unasked
<1>. QED  BY <1>1, <1>2, <1>3, <1>4, <1>5, <1>6, <1>7, <1>8 DEF NoMessage

LEMMA WrittenStep ==
  ASSUME WrittenInv, [Next]_vars
  PROVE  WrittenInv'
<1> USE DEF WrittenInv
<1>0. <<>> \in Seq(Sent)
  OBVIOUS
<1>1. CASE Receive \/ Written \/ ControllerPacket \/ UNCHANGED vars
  BY <1>1 DEF Receive, Written, ControllerPacket, Call, Return, vars
<1>2. CASE Loop
  BY <1>2, MessagesAreSent DEF Loop
<1>3. CASE WriteUnasked
  <2>1. PICK message \in Unasked : outgoing' = <<message>> /\ UNCHANGED written
    BY <1>3 DEF WriteUnasked
  <2>. QED  BY <2>1, MessagesAreSent
<1>4. CASE Bulk
  <2>1. UNCHANGED written /\ outgoing' \in {outgoing, PairingMessages, DisconnectMessages}
    BY <1>4 DEF Bulk, Return, Take, Call
  <2>. QED  BY <2>1, MessagesAreSent
<1>5. CASE Wlan
  <2>1. /\ UNCHANGED written
        /\ outgoing' \in {outgoing, ConnectMessages, DisconnectMessages,
                          <<PairingPacket>> \o PairingMessages}
    BY <1>5 DEF Wlan, Return, Take, Call
  <2>. QED  BY <2>1, MessagesAreSent
<1>6. CASE HandlePacket
  <2>1. UNCHANGED outgoing /\ written' \in {written, Client(Acknowledgement)}
    BY <1>6 DEF HandlePacket, Return, Call
  <2>. QED  BY <2>1, MessagesAreSent
<1>7. CASE Dispatch
  <2>1. UNCHANGED written /\ outgoing' \in {outgoing, AnnounceMessages, <<>>}
    BY <1>7 DEF Dispatch, Return, Take
  <2>. QED  BY <1>0, <2>1, MessagesAreSent
<1>8. CASE WriteNext
  <2>1. Head(outgoing) \in Sent /\ Tail(outgoing) \in Seq(Sent)
    BY <1>8, HeadTailProperties DEF WriteNext
  <2>2. written' \in {written, Head(outgoing)} /\ outgoing' \in {Tail(outgoing), <<>>}
    BY <1>8 DEF WriteNext
  <2>. QED  BY <1>0, <2>1, <2>2
<1>. QED  BY <1>1, <1>2, <1>3, <1>4, <1>5, <1>6, <1>7, <1>8 DEF Next

\* Whatever arrives, and whatever fails: a message that is written is aligned and ends
\* with zeros, and the chip transmits the frame that was put in, without the padding.
THEOREM FramesAreTransmitted == Spec => []TransmittedAsMeant
<1>1. Init => WrittenInv
  <2>1. <<>> \in Seq(Sent)
    OBVIOUS
  <2>. QED  BY <2>1, MessagesAreSent DEF Init, WrittenInv
<1>2. WrittenInv /\ [Next]_vars => WrittenInv'
  BY WrittenStep
<1>3. WrittenInv => TransmittedAsMeant
  BY SentIsRight DEF WrittenInv, Right, TransmittedAsMeant
<1>. QED  BY <1>1, <1>2, <1>3, PTL DEF Spec

-----------------------------------------------------------------------------
(* Where the handlers are in a transfer                                    *)

\* The bytes of a transfer; beyond its layout they are anything.
Data == Seq(STRING \X Nat)

\* What follows the first k bytes of a transfer, but for the end marker
Follows(part, bytes, k) ==
  /\ part \in Data
  /\ Len(bytes) = k + Len(part) + 4
  /\ \A i \in 1 .. Len(part) : part[i] = bytes[k + i]

At(k) == Follows(window, arrived.bytes, k)

\* A frame that is for the dongle; one that holds a GIP packet
ToUs == arrived \in Transfers /\ HasFrame(arrived) /\ arrived.destination = "us"

DataToUs == ToUs /\ arrived.type = "data"

\* Each handler is given the bytes that follow the structures before its own, and is
\* only called for the transfers that hold such a structure.
PlaceInv ==
  /\ pc \in {"read", "bulk", "wlan", "client", "gip", "dispatch", "write", "returned"}
  /\ arrived \in Transfers \cup {Nothing}
  /\ pc = "read" => arrived = Nothing
  /\ pc = "bulk" => arrived \in Transfers /\ window = arrived.bytes
  /\ pc = "wlan" => arrived \in Transfers /\ HasFrame(arrived) /\ At(4)
  /\ pc = "client" => DataToUs /\ At(60)
  /\ pc = "gip" => DataToUs /\ Valid(arrived.wcid) /\ At(64)
  /\ pc = "dispatch" => DataToUs /\ Valid(arrived.wcid) /\ At(64) /\ Len(window) >= 4

LEMMA Skipped ==
  ASSUME NEW s \in Data, NEW first \in Nat, NEW last \in Nat, first + last <= Len(s)
  PROVE  /\ Skip(s, first, last) \in Data
         /\ Len(Skip(s, first, last)) = Len(s) - first - last
         /\ \A i \in 1 .. Len(s) - first - last : Skip(s, first, last)[i] = s[first + i]
<1> DEFINE m == first + 1
           n == Len(s) - last
           B == STRING \X Nat
<1>1. Len(s) \in Nat /\ \A i \in 1 .. Len(s) : s[i] \in B
  BY DEF Data
<1>2. m \in Int /\ n \in Int /\ m .. n \subseteq 1 .. Len(s)
  BY <1>1
<1>3. \A i \in m .. n : s[i] \in B
  BY <1>1, <1>2
<1>4. /\ SubSeq(s, m, n) \in Seq(B)
      /\ Len(SubSeq(s, m, n)) = IF m <= n THEN n - m + 1 ELSE 0
      /\ \A i \in 1 .. n - m + 1 : SubSeq(s, m, n)[i] = s[m + i - 1]
  BY <1>2, <1>3, SubSeqProperties
<1>5. Skip(s, first, last) = SubSeq(s, m, n)
  BY DEF Skip
<1>6. n - m + 1 = Len(s) - first - last /\ (m <= n \/ n - m + 1 = 0)
  BY <1>1
<1>7. \A i \in Nat : m + i - 1 = first + i
  OBVIOUS
<1> HIDE DEF m, n
<1>8. Len(SubSeq(s, m, n)) = Len(s) - first - last
  BY <1>2, <1>4, <1>6
<1>9. ASSUME NEW i \in 1 .. Len(s) - first - last PROVE SubSeq(s, m, n)[i] = s[first + i]
  <2>1. SubSeq(s, m, n)[i] = s[m + i - 1]
    BY <1>4, <1>6, Zenon
  <2>2. i \in Nat
    BY <1>1
  <2>. QED  BY <1>7, <2>1, <2>2, Zenon
<1>. QED  BY <1>4, <1>5, <1>8, <1>9 DEF Data

\* Bytes(bytes, skipBegin, skipEnd), as the handlers use it
LEMMA PacketFollows ==
  ASSUME NEW bytes \in Data, Len(bytes) >= 8
  PROVE  Follows(Skip(bytes, 4, 4), bytes, 4)
<1>1. 4 \in Nat /\ 4 + 4 <= Len(bytes) /\ Len(bytes) \in Nat
  BY DEF Data
<1> DEFINE part == Skip(bytes, 4, 4)
<1>2. /\ part \in Data /\ Len(part) = Len(bytes) - 4 - 4
      /\ \A i \in 1 .. Len(bytes) - 4 - 4 : part[i] = bytes[4 + i]
  BY <1>1, Skipped, Zenon
<1> HIDE DEF part
<1>3. Len(bytes) = 4 + Len(part) + 4
  BY <1>1, <1>2
<1>. QED  BY <1>2, <1>3 DEF Follows, part

LEMMA RestFollows ==
  ASSUME NEW bytes, NEW part, NEW k \in Nat, NEW n \in Nat, Follows(part, bytes, k), n <= Len(part)
  PROVE  Follows(Skip(part, n, 0), bytes, k + n) /\ Len(Skip(part, n, 0)) = Len(part) - n
<1> DEFINE rest == Skip(part, n, 0)
<1>1. /\ part \in Data /\ Len(bytes) = k + Len(part) + 4
      /\ \A i \in 1 .. Len(part) : part[i] = bytes[k + i]
  BY DEF Follows
<1>2. Len(part) \in Nat /\ 0 \in Nat /\ n + 0 <= Len(part)
  BY <1>1 DEF Data
<1>3. /\ rest \in Data /\ Len(rest) = Len(part) - n - 0
      /\ \A i \in 1 .. Len(part) - n - 0 : rest[i] = part[n + i]
  BY <1>1, <1>2, Skipped, Zenon
<1> HIDE DEF rest
<1>4. Len(rest) = Len(part) - n /\ Len(bytes) = k + n + Len(rest) + 4
  BY <1>1, <1>2, <1>3
<1>5. ASSUME NEW i \in 1 .. Len(rest) PROVE rest[i] = bytes[k + n + i]
  <2>1. i \in 1 .. Len(part) - n - 0 /\ n + i \in 1 .. Len(part) /\ k + (n + i) = k + n + i
    BY <1>2, <1>4
  <2>2. rest[i] = part[n + i] /\ part[n + i] = bytes[k + (n + i)]
    BY <1>1, <1>3, <2>1
  <2>. QED  BY <2>1, <2>2
<1>. QED  BY <1>3, <1>4, <1>5 DEF Follows, rest

LEMMA Arrived ==
  ASSUME NEW t \in Transfers
  PROVE  /\ t.input \in Input /\ t.pressed \in BOOLEAN /\ t.asks \in BOOLEAN /\ t.length \in Nat
         /\ t.bytes \in Data
         /\ \A i \in 1 .. Len(t.bytes) : i <= Len(Layout(t)) => t.bytes[i] = Layout(t)[i]
         /\ ~IsCut(t) => Len(t.bytes) >= Len(Layout(t)) + 4 /\ t.means = Meaning(t)
BY TransfersAssumption DEF Arrives, Data

Lies(part, bytes, k) ==
  /\ part \in Data
  /\ \A i \in 1 .. Len(part) : k + i \in 1 .. Len(bytes) /\ part[i] = bytes[k + i]

LEMMA FollowsLies ==
  ASSUME NEW part, NEW bytes, NEW k \in Nat, Follows(part, bytes, k)
  PROVE  Lies(part, bytes, k)
<1>1. Len(part) \in Nat
  BY DEF Follows, Data
<1>. QED  BY <1>1 DEF Follows, Lies

LEMMA AllLies ==
  ASSUME NEW bytes \in Data
  PROVE  Lies(bytes, bytes, 0)
<1>1. Len(bytes) \in Nat
  BY DEF Data
<1>2. ASSUME NEW i \in 1 .. Len(bytes) PROVE 0 + i = i /\ 0 + i \in 1 .. Len(bytes)
  BY <1>1
<1>. QED  BY <1>2 DEF Lies

RightLook(look) == look.found = look.at

\* A handler that looks at what the sender has put there finds it.
LEMMA LooksAt ==
  ASSUME NEW t \in Transfers, NEW part, NEW k \in Nat, Lies(part, t.bytes, k),
         NEW m \in Nat, Layout(t) \in Bytes(m),
         NEW j \in Nat, NEW n \in Nat, NEW x \in Bytes(n),
         Holds(Layout(t), k + j, x, n), k + j + n <= m, j + n <= Len(part)
  PROVE  RightLook(Look(part, j, x))
<1>1. /\ part \in Data
      /\ \A i \in 1 .. Len(part) : k + i \in 1 .. Len(t.bytes) /\ part[i] = t.bytes[k + i]
  BY DEF Lies
<1>2. Len(part) \in Nat
  BY <1>1 DEF Data
<1>3. Len(Layout(t)) = m
  BY DEF Bytes
<1>4. ASSUME NEW i \in 1 .. n PROVE j + i <= Len(part) /\ part[j + i] = x[i]
  <2>1. /\ j + i \in 1 .. Len(part) /\ k + (j + i) = k + j + i
        /\ k + j + i \in 1 .. Len(t.bytes) /\ k + j + i <= m
    BY <1>1, <1>2
  <2>2. part[j + i] = t.bytes[k + (j + i)]
    BY <1>1, <2>1
  <2>3. t.bytes[k + j + i] = Layout(t)[k + j + i]
    BY <1>3, <2>1, Arrived
  <2>4. Layout(t)[k + j + i] = x[i]
    BY DEF Holds
  <2>. QED  BY <2>1, <2>2, <2>3, <2>4
<1>5. ToStruct(part, j, n) = [i \in 1 .. n |-> x[i]]
  BY <1>4 DEF ToStruct
<1>6. x = [i \in 1 .. n |-> x[i]] /\ Len(x) = n
  BY BytesAre DEF Bytes
<1>. QED  BY <1>5, <1>6 DEF Look, RightLook

\* The layout of a transfer, as its handlers assume it
LEMMA EventLayout ==
  ASSUME NEW t, t.port = "cpu", t.event # "packet"
  PROVE  /\ Layout(t) \in Bytes(5)
         /\ Holds(Layout(t), 0, RxInfo, 4) /\ Holds(Layout(t), 4, Object("lost", 1), 1)
<1>1. Object("lost", 1) \in Bytes(1) /\ RxInfo \in Bytes(4) /\ 4 \in Nat /\ 1 \in Nat
  <2>1. "lost" \in Name /\ 1 \in Nat
    BY DEF Name
  <2>. QED  BY <2>1, ObjectBytes, Headers
<1>2. RxInfo \o Object("lost", 1) \in Bytes(4 + 1)
  BY <1>1, Joined, Zenon
<1>3. 4 + 1 = 5
  OBVIOUS
<1>4. /\ Holds(RxInfo \o Object("lost", 1), 0, RxInfo, 4)
      /\ Holds(RxInfo \o Object("lost", 1), 4, Object("lost", 1), 1)
  BY <1>1, JoinedHolds, Zenon
<1>. QED  BY <1>2, <1>3, <1>4 DEF Layout

BodySize(t) ==
  CASE t.type = "data" -> 8 + t.length [] t.type = "reserved" -> 2 [] OTHER -> 1

LEMMA BodyLayout ==
  ASSUME NEW t, t.length \in Nat
  PROVE  /\ BodySize(t) \in Nat /\ FrameBody(t) \in Bytes(BodySize(t))
         /\ t.type = "data" =>
              /\ BodySize(t) = 8 + t.length
              /\ Holds(FrameBody(t), 4, Frame, 4)
              /\ Holds(FrameBody(t), 8, Object("data", t.length), t.length)
         /\ t.type = "reserved" => BodySize(t) = 2 /\ Holds(FrameBody(t), 0, ReservedFrame, 2)
         /\ BodySize(t) >= 1
<1>1. CASE t.type = "data"
  <2> DEFINE a == QosFrame \o Zeros(2)
             b == a \o Frame
             d == Object("data", t.length)
  <2>0. "data" \in Name
    BY DEF Name
  <2>1. QosFrame \in Bytes(2) /\ Zeros(2) \in Bytes(2) /\ Frame \in Bytes(4) /\ d \in Bytes(t.length)
    BY <2>0, Headers, ObjectBytes
  <2>n. /\ 2 \in Nat /\ 4 \in Nat /\ 8 \in Nat /\ 0 \in Nat /\ 2 + 2 = 4 /\ 4 + 4 = 8
        /\ 4 + 4 <= 8 /\ 8 + t.length \in Nat
    OBVIOUS
  <2>2. a \in Bytes(4)
    BY <2>1, <2>n, Joined, Zenon
  <2> HIDE DEF a, d
  <2>3. b \in Bytes(8) /\ Holds(b, 4, Frame, 4)
    BY <2>1, <2>2, <2>n, Joined, JoinedHolds, Zenon
  <2> HIDE DEF b
  <2>4. b \o d \in Bytes(8 + t.length) /\ Holds(b \o d, 8, d, t.length)
    BY <2>1, <2>3, <2>n, Joined, JoinedHolds, Zenon
  <2>5. Holds(b \o d, 4, Frame, 4)
    BY <2>1, <2>3, <2>n, LeftHolds, Zenon
  <2>6. FrameBody(t) = b \o d
    <3>1. FrameBody(t) = QosFrame \o Zeros(2) \o Frame \o Object("data", t.length)
      BY <1>1 DEF FrameBody
    <3>. QED  BY <3>1 DEF b, a, d
  <2>7. BodySize(t) = 8 + t.length /\ 8 + t.length >= 1 /\ t.type # "reserved"
    BY <1>1 DEF BodySize
  <2>. QED  BY <2>n, <2>4, <2>5, <2>6, <2>7 DEF d
<1>2. CASE t.type = "reserved"
  <2>1. FrameBody(t) = ReservedFrame /\ BodySize(t) = 2 /\ t.type # "data"
    BY <1>2 DEF FrameBody, BodySize
  <2>2. Holds(ReservedFrame, 0, ReservedFrame, 2)
    <3>1. ASSUME NEW i \in 1 .. 2 PROVE 0 + i = i
      OBVIOUS
    <3>. QED  BY <3>1 DEF Holds
  <2>3. 2 \in Nat /\ 2 >= 1
    OBVIOUS
  <2>. QED  BY <2>1, <2>2, <2>3, Headers
<1>3. CASE t.type \notin {"data", "reserved"}
  <2>1. FrameBody(t) = Object("body", 1) /\ BodySize(t) = 1
    BY <1>3 DEF FrameBody, BodySize
  <2>2. "body" \in Name /\ 1 \in Nat /\ 1 >= 1
    BY DEF Name
  <2>. QED  BY <1>3, <2>1, <2>2, ObjectBytes
<1>. QED  BY <1>1, <1>2, <1>3

LEMMA FrameLayout ==
  ASSUME NEW t, ~(t.port = "cpu" /\ t.event # "packet"), t.length \in Nat
  PROVE  /\ 60 + BodySize(t) \in Nat /\ Layout(t) \in Bytes(60 + BodySize(t))
         /\ Holds(Layout(t), 0, RxInfo, 4) /\ Holds(Layout(t), 4, RxWi, 32)
         /\ Holds(Layout(t), 36, WlanFrame, 24)
         /\ \A x : \A k \in Nat, n \in Nat : Holds(FrameBody(t), k, x, n) /\ k + n <= BodySize(t)
               => Holds(Layout(t), 60 + k, x, n)
<1> DEFINE a == RxInfo \o RxWi
           b == a \o WlanFrame
           body == FrameBody(t)
           size == BodySize(t)
<1>1. RxInfo \in Bytes(4) /\ RxWi \in Bytes(32) /\ WlanFrame \in Bytes(24)
  BY Headers
<1>2. size \in Nat /\ body \in Bytes(size)
  BY BodyLayout
<1>n. 4 \in Nat /\ 32 \in Nat /\ 36 \in Nat /\ 24 \in Nat /\ 60 \in Nat /\ 0 \in Nat
  OBVIOUS
<1>m. 4 + 32 = 36 /\ 36 + 24 = 60
  OBVIOUS
<1>k. 4 + 32 <= 36
  OBVIOUS
<1>l. 0 + 4 <= 36 /\ 0 + 4 <= 60 /\ 4 + 32 <= 60 /\ 36 + 24 <= 60
  OBVIOUS
<1>s. 60 + size \in Nat
  BY <1>2
<1> HIDE DEF body, size
<1>3. a \in Bytes(36) /\ Holds(a, 0, RxInfo, 4) /\ Holds(a, 4, RxWi, 32)
  <2>1. a \in Bytes(4 + 32)
    BY <1>1, <1>n, Joined, Zenon
  <2>2. Holds(a, 0, RxInfo, 4) /\ Holds(a, 4, RxWi, 32)
    BY <1>1, <1>n, JoinedHolds, Zenon
  <2>. QED  BY <1>m, <2>1, <2>2, Zenon
<1> HIDE DEF a
<1>4. b \in Bytes(60) /\ Holds(b, 36, WlanFrame, 24)
  <2>1. b \in Bytes(36 + 24)
    BY <1>1, <1>3, <1>n, Joined, Zenon
  <2>2. Holds(b, 36, WlanFrame, 24)
    BY <1>1, <1>3, <1>n, JoinedHolds, Zenon
  <2>. QED  BY <1>m, <2>1, <2>2, Zenon
<1>5. Holds(b, 0, RxInfo, 4)
  BY <1>1, <1>3, <1>n, <1>l, LeftHolds, Zenon
<1>6. Holds(b, 4, RxWi, 32)
  BY <1>1, <1>3, <1>n, <1>k, LeftHolds, Zenon
<1> HIDE DEF b
<1>7. b \o body \in Bytes(60 + size)
  BY <1>2, <1>4, <1>n, Joined, Zenon
<1>8. Holds(b \o body, 0, RxInfo, 4)
  BY <1>2, <1>4, <1>5, <1>n, <1>l, LeftHolds, Zenon
<1>9. Holds(b \o body, 4, RxWi, 32)
  BY <1>2, <1>4, <1>6, <1>n, <1>l, LeftHolds, Zenon
<1>10. Holds(b \o body, 36, WlanFrame, 24)
  BY <1>2, <1>4, <1>n, <1>l, LeftHolds, Zenon
<1>11. ASSUME NEW k \in Nat, NEW n \in Nat, NEW x, Holds(body, k, x, n), k + n <= size
       PROVE  Holds(b \o body, 60 + k, x, n)
  BY <1>2, <1>4, <1>n, <1>11, RightHolds, Zenon
<1>12. Layout(t) = b \o body
  <2>1. Layout(t) = RxInfo \o RxWi \o WlanFrame \o FrameBody(t)
    BY DEF Layout
  <2>. QED  BY <2>1 DEF b, a, body
<1>. QED  BY <1>s, <1>7, <1>8, <1>9, <1>10, <1>11, <1>12 DEF body, size

LEMMA Lengths ==
  /\ Len(RxInfo) = 4 /\ Len(RxWi) = 32 /\ Len(WlanFrame) = 24 /\ Len(QosFrame) = 2
  /\ Len(ReservedFrame) = 2 /\ Len(Frame) = 4
BY Headers DEF Bytes

-----------------------------------------------------------------------------
(* The handlers, one outcome at a time                                     *)

InfoSeen == {Look(window, 0, RxInfo)}
WcidSeen == {Look(Skip(window, 4, 4), 0, Object("lost", 1))}

LEMMA BulkCases ==
  ASSUME Bulk
  PROVE  /\ pc = "bulk" /\ UNCHANGED <<arrived, written, emitted, failed>>
         /\ ~HasPacket(window) => Return
         /\ HasPacket(window) /\ arrived.port = "cpu" /\ arrived.event = "button" =>
              Take(<<"button">>, PairingMessages, InfoSeen)
         /\ HasPacket(window) /\ arrived.port = "cpu" /\ arrived.event = "lost" /\ Valid(arrived.wcid) =>
              Take(<<"disconnect", arrived.wcid>>, DisconnectMessages, InfoSeen \cup WcidSeen)
         /\ HasPacket(window) /\ HasFrame(arrived) => Call("wlan", Skip(window, 4, 4), InfoSeen)
         /\ ~HasFrame(arrived) /\ ~(arrived.port = "cpu" /\ arrived.event = "button")
              /\ ~(arrived.port = "cpu" /\ arrived.event = "lost" /\ Valid(arrived.wcid)) => Return
<1>1. pc = "bulk" /\ UNCHANGED <<arrived, written, emitted, failed>>
  BY DEF Bulk
<1>2. ~HasPacket(window) => Return
  BY DEF Bulk
<1>3. HasPacket(window) /\ arrived.port = "cpu" /\ arrived.event = "button" =>
        Take(<<"button">>, PairingMessages, InfoSeen)
  BY DEF Bulk, InfoSeen
<1>4. HasPacket(window) /\ arrived.port = "cpu" /\ arrived.event = "lost" /\ Valid(arrived.wcid) =>
        Take(<<"disconnect", arrived.wcid>>, DisconnectMessages, InfoSeen \cup WcidSeen)
  BY Lengths DEF Bulk, InfoSeen, WcidSeen
<1>5. HasPacket(window) /\ HasFrame(arrived) => Call("wlan", Skip(window, 4, 4), InfoSeen)
  BY Lengths DEF Bulk, InfoSeen, HasFrame
<1>6. ~HasFrame(arrived) /\ ~(arrived.port = "cpu" /\ arrived.event = "button")
        /\ ~(arrived.port = "cpu" /\ arrived.event = "lost" /\ Valid(arrived.wcid)) => Return
  BY DEF Bulk, HasFrame
<1>. QED  BY <1>1, <1>2, <1>3, <1>4, <1>5, <1>6

HeadersSeen == {Look(window, 0, RxWi), Look(window, 32, WlanFrame)}
Inner == Skip(window, 56, 0)
PairSeen == {Look(Inner, 0, ReservedFrame)}

Longer == Len(window) > 56 /\ arrived.destination = "us"

LEMMA WlanCases ==
  ASSUME Wlan
  PROVE  /\ pc = "wlan" /\ UNCHANGED <<arrived, written, emitted, failed>>
         /\ ~Longer => Return
         /\ Longer /\ arrived.type = "associate" => Take(<<"connect">>, ConnectMessages, HeadersSeen)
         /\ Longer /\ arrived.type = "disassociate" /\ Valid(arrived.wcid) =>
              Take(<<"disconnect", arrived.wcid>>, DisconnectMessages, HeadersSeen)
         /\ Longer /\ arrived.type = "reserved" /\ arrived.pairs /\ Len(Inner) >= 2 =>
              Take(<<"pair">>, <<PairingPacket>> \o PairingMessages, HeadersSeen \cup PairSeen)
         /\ Longer /\ arrived.type = "data" => Call("client", Inner, HeadersSeen)
         /\ arrived.type = "disassociate" /\ ~Valid(arrived.wcid) => Return
         /\ arrived.type = "reserved" /\ ~(arrived.pairs /\ Len(Inner) >= 2) => Return
         /\ arrived.type \notin {"associate", "disassociate", "reserved", "data"} => Return
<1>1. Len(RxWi) + Len(WlanFrame) = 56 /\ Len(RxWi) = 32 /\ Len(ReservedFrame) = 2
  BY Lengths
<1>2. pc = "wlan" /\ UNCHANGED <<arrived, written, emitted, failed>>
  BY DEF Wlan
<1>3. ~Longer => Return
  BY <1>1 DEF Wlan, Longer
<1>4. Longer /\ arrived.type = "associate" => Take(<<"connect">>, ConnectMessages, HeadersSeen)
  BY <1>1 DEF Wlan, Longer, HeadersSeen
<1>5. Longer /\ arrived.type = "disassociate" /\ Valid(arrived.wcid) =>
        Take(<<"disconnect", arrived.wcid>>, DisconnectMessages, HeadersSeen)
  BY <1>1 DEF Wlan, Longer, HeadersSeen
<1>6. Longer /\ arrived.type = "reserved" /\ arrived.pairs /\ Len(Inner) >= 2 =>
        Take(<<"pair">>, <<PairingPacket>> \o PairingMessages, HeadersSeen \cup PairSeen)
  BY <1>1 DEF Wlan, Longer, HeadersSeen, PairSeen, Inner
<1>7. Longer /\ arrived.type = "data" => Call("client", Inner, HeadersSeen)
  BY <1>1 DEF Wlan, Longer, HeadersSeen, Inner
<1>8. arrived.type = "disassociate" /\ ~Valid(arrived.wcid) => Return
  BY <1>1 DEF Wlan
<1>9. arrived.type = "reserved" /\ ~(arrived.pairs /\ Len(Inner) >= 2) => Return
  BY <1>1 DEF Wlan, Inner
<1>10. arrived.type \notin {"associate", "disassociate", "reserved", "data"} => Return
  BY DEF Wlan
<1>. QED  BY <1>2, <1>3, <1>4, <1>5, <1>6, <1>7, <1>8, <1>9, <1>10

\* A handler that does not call another leaves nothing to say of the window.
LEMMA Leaves ==
  ASSUME PlaceInv, UNCHANGED arrived, pc' \in {"write", "returned"}
  PROVE  PlaceInv'
BY DEF PlaceInv

LEMMA BulkPlace ==
  ASSUME PlaceInv, Bulk
  PROVE  PlaceInv'
<1>1. pc = "bulk" /\ UNCHANGED arrived /\ arrived \in Transfers /\ window = arrived.bytes
  BY BulkCases DEF PlaceInv
<1>2. CASE HasPacket(window) /\ HasFrame(arrived)
  <2>1. pc' = "wlan" /\ window' = Skip(window, 4, 4)
    BY <1>2, BulkCases DEF Call
  <2>2. window \in Data /\ Len(window) > 4 + 4 /\ Len(window) \in Nat
    BY <1>1, <1>2, Arrived, Lengths DEF HasPacket, Data
  <2>3. Follows(window', arrived'.bytes, 4)
    BY <1>1, <2>1, <2>2, PacketFollows
  <2>. QED  BY <1>1, <1>2, <2>1, <2>3 DEF PlaceInv, At, HasFrame
<1>3. CASE ~(HasPacket(window) /\ HasFrame(arrived))
  <2>1. pc' \in {"write", "returned"}
    BY <1>3, BulkCases DEF HasFrame, Return, Take
  <2>. QED  BY <1>1, <2>1, Leaves
<1>. QED  BY <1>2, <1>3

LEMMA WlanPlace ==
  ASSUME PlaceInv, Wlan
  PROVE  PlaceInv'
<1>1. /\ pc = "wlan" /\ UNCHANGED arrived /\ arrived \in Transfers /\ HasFrame(arrived)
      /\ Follows(window, arrived.bytes, 4)
  BY WlanCases DEF PlaceInv, At
<1>2. CASE Longer /\ arrived.type = "data"
  <2>1. pc' = "client" /\ window' = Skip(window, 56, 0)
    BY <1>2, WlanCases DEF Call, Inner
  <2>2. 4 \in Nat /\ 56 \in Nat /\ 56 <= Len(window) /\ 4 + 56 = 60
    BY <1>1, <1>2 DEF Longer, Follows, Data
  <2>3. Follows(window', arrived.bytes, 4 + 56)
    BY <1>1, <2>1, <2>2, RestFollows
  <2>4. Follows(window', arrived'.bytes, 60)
    BY <1>1, <2>2, <2>3
  <2>5. DataToUs'
    BY <1>1, <1>2 DEF DataToUs, ToUs, Longer, HasFrame
  <2>. QED  BY <1>1, <2>1, <2>4, <2>5 DEF PlaceInv, At
<1>3. CASE ~(Longer /\ arrived.type = "data")
  <2>1. pc' \in {"write", "returned"}
    BY <1>3, WlanCases DEF Return, Take
  <2>. QED  BY <1>1, <2>1, Leaves
<1>. QED  BY <1>2, <1>3

LEMMA ControllerPlace ==
  ASSUME PlaceInv, ControllerPacket
  PROVE  PlaceInv'
<1>1. /\ pc = "client" /\ UNCHANGED arrived /\ DataToUs /\ Follows(window, arrived.bytes, 60)
  BY DEF PlaceInv, At, ControllerPacket
<1>2. CASE pc' = "gip"
  <2>1. Valid(arrived.wcid) /\ Len(window) > 4 /\ window' = Skip(window, 4, 0)
    BY <1>2, Lengths DEF ControllerPacket, Call, Return, PacketOfClient
  <2>2. 60 \in Nat /\ 4 \in Nat /\ 4 <= Len(window) /\ 60 + 4 = 64
    BY <1>1, <2>1 DEF Follows, Data
  <2>3. Follows(window', arrived.bytes, 60 + 4)
    BY <1>1, <2>1, <2>2, RestFollows
  <2>4. Follows(window', arrived'.bytes, 64)
    BY <1>1, <2>2, <2>3
  <2>. QED  BY <1>1, <1>2, <2>1, <2>4 DEF PlaceInv, At, DataToUs, ToUs, HasFrame, Valid
<1>3. CASE pc' # "gip"
  <2>1. pc' = "returned"
    BY <1>3 DEF ControllerPacket, Call, Return
  <2>. QED  BY <1>1, <2>1, Leaves
<1>. QED  BY <1>2, <1>3

LEMMA PacketPlace ==
  ASSUME PlaceInv, HandlePacket
  PROVE  PlaceInv'
<1>1. /\ pc = "gip" /\ UNCHANGED arrived /\ DataToUs /\ Valid(arrived.wcid)
      /\ Follows(window, arrived.bytes, 64)
  BY DEF PlaceInv, At, HandlePacket
<1>2. CASE pc' = "dispatch"
  <2>1. UNCHANGED window /\ ~(Len(window) < 4)
    BY <1>2, Lengths DEF HandlePacket, Call, Return
  <2>2. Len(window) >= 4
    BY <1>1, <2>1 DEF Follows, Data
  <2>. QED  BY <1>1, <1>2, <2>1, <2>2 DEF PlaceInv, At, DataToUs, ToUs, HasFrame, Valid
<1>3. CASE pc' # "dispatch"
  <2>1. pc' = "returned"
    BY <1>3 DEF HandlePacket, Call, Return
  <2>. QED  BY <1>1, <2>1, Leaves
<1>. QED  BY <1>2, <1>3

LEMMA PlaceStep ==
  ASSUME PlaceInv, [Next]_vars
  PROVE  PlaceInv'
<1>1. CASE Receive
  BY <1>1 DEF Receive, PlaceInv
<1>2. CASE Loop
  BY <1>2 DEF Loop, PlaceInv
<1>3. CASE WriteUnasked \/ WriteNext \/ Written
  BY <1>3, Leaves DEF WriteUnasked, WriteNext, Written
<1>4. CASE Dispatch
  BY <1>4, Leaves DEF Dispatch, Take, Return
<1>5. CASE UNCHANGED vars
  BY <1>5 DEF PlaceInv, vars, At, DataToUs, ToUs, HasFrame, Valid
<1>. QED  BY <1>1, <1>2, <1>3, <1>4, <1>5, BulkPlace, WlanPlace, ControllerPlace, PacketPlace
          DEF Next

LEMMA PlaceInit == Init => PlaceInv
BY DEF Init, PlaceInv

-----------------------------------------------------------------------------
(* What a transfer is taken for                                            *)

\* The answer that a packet asks for, before it is dispatched
Acknowledgements == IF arrived.asks THEN <<<<"acknowledge">>>> ELSE <<>>

\* TakenAsMeant, and how far the handlers have come that have not returned
HeardInv ==
  /\ PlaceInv
  /\ pc \in {"read", "bulk", "wlan", "client", "gip"} => heard = <<>> /\ ~failed
  /\ pc = "dispatch" => heard = Acknowledgements /\ ~failed
  /\ pc \in {"write", "returned"} /\ ~IsCut(arrived) =>
       IsPrefixOf(heard, arrived.means) /\ (failed \/ heard = arrived.means)

\* What is not cut has all the bytes that the handlers ask for.
LEMMA WholeIsLong ==
  ASSUME NEW t \in Transfers, ~IsCut(t)
  PROVE  /\ Len(t.bytes) \in Nat /\ Len(t.bytes) > 8
         /\ HasFrame(t) => Len(t.bytes) >= 64 + BodySize(t)
<1>1. Len(t.bytes) \in Nat /\ Len(t.bytes) >= Len(Layout(t)) + 4 /\ t.length \in Nat
  BY Arrived DEF Data
<1>2. CASE t.port = "cpu" /\ t.event # "packet"
  <2>1. Len(Layout(t)) = 5 /\ ~HasFrame(t)
    BY <1>2, EventLayout DEF Bytes, HasFrame
  <2>. QED  BY <1>1, <2>1
<1>3. CASE ~(t.port = "cpu" /\ t.event # "packet")
  <2>1. Len(Layout(t)) = 60 + BodySize(t)
    BY <1>1, <1>3, FrameLayout DEF Bytes
  <2>2. BodySize(t) \in Nat
    BY <1>1, BodyLayout
  <2>. QED  BY <1>1, <2>1, <2>2
<1>. QED  BY <1>2, <1>3

LEMMA Prefixes ==
  ASSUME NEW S, NEW s \in Seq(S)
  PROVE  IsPrefixOf(s, s) /\ IsPrefixOf(<<>>, s)
<1>1. Len(s) \in Nat /\ \A i \in 1 .. Len(s) : s[i] \in S
  OBVIOUS
<1>2. SubSeq(s, 1, Len(s)) = s
  BY <1>1
<1>3. SubSeq(s, 1, 0) = <<>>
  BY SubSeqEmpty
<1>. QED  BY <1>1, <1>2, <1>3 DEF IsPrefixOf

LEMMA PrefixOfTwo ==
  ASSUME NEW a, NEW b
  PROVE  IsPrefixOf(<<a>>, <<a>> \o <<b>>)
<1> DEFINE s == <<a>> \o <<b>>
<1>1. <<a>> \in Seq({a, b}) /\ <<b>> \in Seq({a, b}) /\ Len(<<a>>) = 1 /\ Len(<<b>>) = 1 /\ <<a>>[1] = a
  OBVIOUS
<1>2. s \in Seq({a, b}) /\ Len(s) = 2 /\ s[1] = a
  BY <1>1, ConcatProperties
<1> HIDE DEF s
<1>3. SubSeq(s, 1, 1) = <<a>>
  <2> DEFINE q == SubSeq(s, 1, 1)
  <2>1. 1 \in Int /\ (\A i \in 1 .. 1 : s[i] \in {a, b}) /\ 1 - 1 + 1 = 1 /\ 1 <= 1 /\ 1 + 1 - 1 = 1
    BY <1>2
  <2>2. q \in Seq({a, b}) /\ Len(q) = 1 /\ q[1] = s[1]
    BY <2>1, SubSeqProperties
  <2> HIDE DEF q
  <2>3. q = <<a>>
    BY <1>2, <2>2
  <2>. QED  BY <2>3 DEF q
<1>. QED  BY <1>2, <1>3 DEF IsPrefixOf, s

LEMMA OneMeaning ==
  ASSUME NEW t
  PROVE  /\ t.port = "cpu" /\ t.event = "button" => Meaning(t) = <<<<"button">>>>
         /\ t.port = "cpu" /\ t.event = "lost" /\ Valid(t.wcid) => Meaning(t) = <<<<"disconnect", t.wcid>>>>
         /\ HasFrame(t) /\ t.destination = "us" => Meaning(t) = FrameMeaning(t)
         /\ HasFrame(t) /\ t.destination # "us" => Meaning(t) = <<>>
         /\ ~HasFrame(t) /\ ~(t.port = "cpu" /\ t.event = "button")
              /\ ~(t.port = "cpu" /\ t.event = "lost" /\ Valid(t.wcid)) => Meaning(t) = <<>>
<1>1. t.port = "cpu" /\ t.event = "button" => Meaning(t) = <<<<"button">>>>
  BY DEF Meaning, HasFrame
<1>2. t.port = "cpu" /\ t.event = "lost" /\ Valid(t.wcid) => Meaning(t) = <<<<"disconnect", t.wcid>>>>
  BY DEF Meaning, HasFrame
<1>3. HasFrame(t) /\ t.destination = "us" => Meaning(t) = FrameMeaning(t)
  BY DEF Meaning, HasFrame
<1>4. HasFrame(t) /\ t.destination # "us" => Meaning(t) = <<>>
  BY DEF Meaning, HasFrame
<1>5. ~HasFrame(t) /\ ~(t.port = "cpu" /\ t.event = "button")
        /\ ~(t.port = "cpu" /\ t.event = "lost" /\ Valid(t.wcid)) => Meaning(t) = <<>>
  BY DEF Meaning
<1>. QED  BY <1>1, <1>2, <1>3, <1>4, <1>5

LEMMA OneFrameMeaning ==
  ASSUME NEW t, t.asks \in BOOLEAN
  PROVE  /\ t.type = "associate" => FrameMeaning(t) = <<<<"connect">>>>
         /\ t.type = "disassociate" /\ Valid(t.wcid) => FrameMeaning(t) = <<<<"disconnect", t.wcid>>>>
         /\ t.type = "disassociate" /\ ~Valid(t.wcid) => FrameMeaning(t) = <<>>
         /\ t.type = "reserved" /\ t.pairs => FrameMeaning(t) = <<<<"pair">>>>
         /\ t.type = "reserved" /\ ~t.pairs => FrameMeaning(t) = <<>>
         /\ t.type = "data" /\ Valid(t.wcid) /\ t.asks =>
              FrameMeaning(t) = <<<<"acknowledge">>>> \o PacketMeaning(t)
         /\ t.type = "data" /\ Valid(t.wcid) /\ ~t.asks => FrameMeaning(t) = PacketMeaning(t)
         /\ t.type = "data" /\ ~Valid(t.wcid) => FrameMeaning(t) = <<>>
         /\ t.type \notin {"associate", "disassociate", "reserved", "data"} => FrameMeaning(t) = <<>>
BY DEF FrameMeaning

LEMMA AskingMeaning ==
  ASSUME NEW t, t.type = "data", Valid(t.wcid), t.asks
  PROVE  FrameMeaning(t) = <<<<"acknowledge">>>> \o PacketMeaning(t)
BY DEF FrameMeaning

\* The sequences that a meaning is one of
LEMMA MeaningIsSequence ==
  ASSUME NEW t, t.asks \in BOOLEAN
  PROVE  \E S : Meaning(t) \in Seq(S)
<1> DEFINE S == {<<"button">>, <<"connect">>, <<"pair">>, <<"acknowledge">>,
                 <<"disconnect", t.wcid>>, <<t.command>>}
<1>1. <<>> \in Seq(S) /\ \A x \in S : <<x>> \in Seq(S)
  OBVIOUS
<1>2. /\ <<"button">> \in S /\ <<"connect">> \in S /\ <<"pair">> \in S /\ <<"acknowledge">> \in S
      /\ <<"disconnect", t.wcid>> \in S /\ <<t.command>> \in S
  OBVIOUS
<1> HIDE DEF S
<1>3. PacketMeaning(t) \in Seq(S)
  BY <1>1, <1>2 DEF PacketMeaning
<1>4. <<<<"acknowledge">>>> \o PacketMeaning(t) \in Seq(S)
  <2>1. <<<<"acknowledge">>>> \in Seq(S)
    BY <1>1, <1>2
  <2>. QED  BY <1>3, <2>1, ConcatProperties
<1>5. FrameMeaning(t) \in {<<>>, <<<<"connect">>>>, <<<<"disconnect", t.wcid>>>>, <<<<"pair">>>>,
                           <<<<"acknowledge">>>> \o PacketMeaning(t), PacketMeaning(t)}
  BY DEF FrameMeaning
<1>6. FrameMeaning(t) \in Seq(S)
  BY <1>1, <1>2, <1>3, <1>4, <1>5
<1>7. Meaning(t) \in {<<>>, <<<<"button">>>>, <<<<"disconnect", t.wcid>>>>, FrameMeaning(t)}
  BY DEF Meaning
<1>. QED  BY <1>1, <1>2, <1>6, <1>7

\* When the handlers are done with a transfer, or one of them has failed
LEMMA HeardDone ==
  ASSUME HeardInv, PlaceInv', UNCHANGED arrived, pc' \in {"write", "returned"},
         ~IsCut(arrived) => IsPrefixOf(heard', arrived.means) /\ (failed' \/ heard' = arrived.means)
  PROVE  HeardInv'
BY DEF HeardInv, IsCut

\* One of them takes the transfer for one thing.
LEMMA HeardOnce ==
  ASSUME HeardInv, PlaceInv', UNCHANGED arrived, heard = <<>>, NEW as, NEW messages, NEW seen,
         Take(as, messages, seen), ~IsCut(arrived) => arrived.means = <<as>>
  PROVE  HeardInv'
<1>1. pc' = "write" /\ heard' = <<as>>
  BY DEF Take
<1>2. IsPrefixOf(<<as>>, <<as>>)
  <2>1. <<as>> \in Seq({as})
    OBVIOUS
  <2>. QED  BY <2>1, Prefixes
<1>. QED  BY <1>1, <1>2, HeardDone

\* Or it means nothing.
LEMMA HeardNothing ==
  ASSUME HeardInv, PlaceInv', UNCHANGED arrived, heard = <<>>, Return,
         ~IsCut(arrived) => arrived.means = <<>>
  PROVE  HeardInv'
<1>1. pc' = "returned" /\ heard' = <<>>
  BY DEF Return
<1>2. IsPrefixOf(<<>>, <<>>)
  <2>1. <<>> \in Seq({})
    OBVIOUS
  <2>. QED  BY <2>1, Prefixes
<1>. QED  BY <1>1, <1>2, HeardDone

LEMMA BulkHeard ==
  ASSUME HeardInv, Bulk
  PROVE  HeardInv'
<1>1. PlaceInv' /\ PlaceInv
  BY BulkPlace DEF HeardInv
<1>2. /\ pc = "bulk" /\ arrived \in Transfers /\ window = arrived.bytes /\ heard = <<>> /\ ~failed
      /\ UNCHANGED <<arrived, failed>>
  BY <1>1, BulkCases DEF HeardInv, PlaceInv
<1>3. ~IsCut(arrived) => HasPacket(window) /\ arrived.means = Meaning(arrived)
  BY <1>2, WholeIsLong, Arrived, Lengths DEF HasPacket
<1>4. CASE ~HasPacket(window)
  BY <1>1, <1>2, <1>3, <1>4, BulkCases, HeardNothing
<1>5. CASE HasPacket(window) /\ arrived.port = "cpu" /\ arrived.event = "button"
  BY <1>1, <1>2, <1>3, <1>5, BulkCases, OneMeaning, HeardOnce
<1>6. CASE HasPacket(window) /\ arrived.port = "cpu" /\ arrived.event = "lost" /\ Valid(arrived.wcid)
  BY <1>1, <1>2, <1>3, <1>6, BulkCases, OneMeaning, HeardOnce
<1>7. CASE HasPacket(window) /\ HasFrame(arrived)
  <2>1. pc' = "wlan" /\ UNCHANGED heard
    BY <1>7, BulkCases DEF Call
  <2>. QED  BY <1>1, <1>2, <2>1 DEF HeardInv
<1>8. CASE /\ ~HasFrame(arrived) /\ ~(arrived.port = "cpu" /\ arrived.event = "button")
           /\ ~(arrived.port = "cpu" /\ arrived.event = "lost" /\ Valid(arrived.wcid))
  BY <1>1, <1>2, <1>3, <1>8, BulkCases, OneMeaning, HeardNothing
<1>. QED  BY <1>4, <1>5, <1>6, <1>7, <1>8

LEMMA WlanHeard ==
  ASSUME HeardInv, Wlan
  PROVE  HeardInv'
<1>1. PlaceInv' /\ PlaceInv
  BY WlanPlace DEF HeardInv
<1>2. /\ pc = "wlan" /\ arrived \in Transfers /\ HasFrame(arrived) /\ heard = <<>> /\ ~failed
      /\ UNCHANGED <<arrived, failed>> /\ Follows(window, arrived.bytes, 4)
  BY <1>1, WlanCases DEF HeardInv, PlaceInv, At
<1>3. arrived.asks \in BOOLEAN /\ arrived.length \in Nat
  BY <1>2, Arrived
<1>4. ~IsCut(arrived) => /\ Len(window) >= 56 + BodySize(arrived)
                         /\ arrived.means = Meaning(arrived)
  <2>1. ~IsCut(arrived) => Len(arrived.bytes) >= 64 + BodySize(arrived)
    BY <1>2, WholeIsLong
  <2>2. Len(arrived.bytes) = 4 + Len(window) + 4 /\ Len(window) \in Nat
    BY <1>2 DEF Follows, Data
  <2>3. BodySize(arrived) \in Nat
    BY <1>3, BodyLayout
  <2>. QED  BY <1>2, <2>1, <2>2, <2>3, Arrived
<1>5. ~IsCut(arrived) => Len(window) > 56
  <2>1. BodySize(arrived) \in Nat /\ BodySize(arrived) >= 1
    BY <1>3, BodyLayout
  <2>2. Len(window) \in Nat
    BY <1>2 DEF Follows, Data
  <2>. QED  BY <1>4, <2>1, <2>2
<1>6. CASE ~Longer
  <2>1. ~IsCut(arrived) => arrived.means = <<>>
    BY <1>2, <1>4, <1>5, <1>6, OneMeaning DEF Longer
  <2>. QED  BY <1>1, <1>2, <1>6, <2>1, WlanCases, HeardNothing
<1>7. Longer => (~IsCut(arrived) => arrived.means = FrameMeaning(arrived))
  BY <1>2, <1>4, OneMeaning DEF Longer
<1>8. CASE Longer /\ arrived.type = "associate"
  BY <1>1, <1>2, <1>3, <1>7, <1>8, OneFrameMeaning, WlanCases, HeardOnce
<1>9. CASE Longer /\ arrived.type = "disassociate" /\ Valid(arrived.wcid)
  BY <1>1, <1>2, <1>3, <1>7, <1>9, OneFrameMeaning, WlanCases, HeardOnce
<1>10. CASE Longer /\ arrived.type = "disassociate" /\ ~Valid(arrived.wcid)
  BY <1>1, <1>2, <1>3, <1>7, <1>10, OneFrameMeaning, WlanCases, HeardNothing
<1>11. CASE Longer /\ arrived.type = "reserved" /\ arrived.pairs /\ Len(Inner) >= 2
  BY <1>1, <1>2, <1>3, <1>7, <1>11, OneFrameMeaning, WlanCases, HeardOnce
<1>12. CASE Longer /\ arrived.type = "reserved" /\ ~(arrived.pairs /\ Len(Inner) >= 2)
  <2>1. ~IsCut(arrived) => Len(Inner) >= 2
    <3>1. 4 \in Nat /\ 56 \in Nat /\ Len(window) \in Nat
      BY <1>2 DEF Follows, Data
    <3>2. BodySize(arrived) = 2
      BY <1>3, <1>12, BodyLayout
    <3>3. ~IsCut(arrived) => 56 <= Len(window)
      BY <1>5, <3>1
    <3>4. ~IsCut(arrived) => Len(Inner) = Len(window) - 56
      BY <1>2, <3>1, <3>3, RestFollows DEF Inner
    <3>. QED  BY <1>4, <3>1, <3>2, <3>4
  <2>2. ~IsCut(arrived) => arrived.means = <<>>
    BY <1>3, <1>7, <1>12, <2>1, OneFrameMeaning
  <2>. QED  BY <1>1, <1>2, <1>12, <2>2, WlanCases, HeardNothing
<1>13. CASE Longer /\ arrived.type = "data"
  <2>1. pc' = "client" /\ UNCHANGED heard
    BY <1>13, WlanCases DEF Call
  <2>. QED  BY <1>1, <1>2, <2>1 DEF HeardInv
<1>14. CASE Longer /\ arrived.type \notin {"associate", "disassociate", "reserved", "data"}
  BY <1>1, <1>2, <1>3, <1>7, <1>14, OneFrameMeaning, WlanCases, HeardNothing
<1>. QED  BY <1>6, <1>8, <1>9, <1>10, <1>11, <1>12, <1>13, <1>14

LEMMA ControllerHeard ==
  ASSUME HeardInv, ControllerPacket
  PROVE  HeardInv'
<1>1. PlaceInv' /\ PlaceInv
  BY ControllerPlace DEF HeardInv
<1>2. /\ pc = "client" /\ DataToUs /\ heard = <<>> /\ ~failed
      /\ UNCHANGED <<arrived, failed>> /\ Follows(window, arrived.bytes, 60)
  BY <1>1 DEF HeardInv, PlaceInv, At, ControllerPacket
<1>3. arrived.asks \in BOOLEAN /\ arrived.length \in Nat
  BY <1>2, Arrived DEF DataToUs, ToUs
<1>4. ~IsCut(arrived) => Len(window) > 4 /\ arrived.means = Meaning(arrived)
  <2>1. ~IsCut(arrived) => Len(arrived.bytes) >= 64 + (8 + arrived.length)
    BY <1>2, <1>3, WholeIsLong, BodyLayout DEF DataToUs, ToUs
  <2>2. Len(arrived.bytes) = 60 + Len(window) + 4 /\ Len(window) \in Nat
    BY <1>2 DEF Follows, Data
  <2>. QED  BY <1>2, <1>3, <2>1, <2>2, Arrived DEF DataToUs, ToUs
<1>5. CASE pc' = "gip"
  <2>1. UNCHANGED heard
    BY <1>5 DEF ControllerPacket, Call, Return
  <2>. QED  BY <1>1, <1>2, <1>5, <2>1 DEF HeardInv
<1>6. CASE pc' # "gip"
  <2>1. Return /\ ~(Valid(arrived.wcid) /\ Len(window) > 4)
    BY <1>6, Lengths DEF ControllerPacket, Call
  <2>2. ~IsCut(arrived) => arrived.means = <<>>
    BY <1>2, <1>3, <1>4, <2>1, OneMeaning, OneFrameMeaning DEF DataToUs, ToUs
  <2>. QED  BY <1>1, <1>2, <2>1, <2>2, HeardNothing
<1>. QED  BY <1>5, <1>6

LEMMA PacketHeard ==
  ASSUME HeardInv, HandlePacket
  PROVE  HeardInv'
<1>1. PlaceInv' /\ PlaceInv
  BY PacketPlace DEF HeardInv
<1>2. /\ pc = "gip" /\ DataToUs /\ heard = <<>> /\ ~failed /\ UNCHANGED arrived
      /\ Follows(window, arrived.bytes, 64)
  BY <1>1 DEF HeardInv, PlaceInv, At, HandlePacket
<1>3. arrived.asks \in BOOLEAN /\ arrived.length \in Nat
  BY <1>2, Arrived DEF DataToUs, ToUs
<1>4. ~IsCut(arrived) => Len(window) >= 4 /\ arrived.means = Meaning(arrived)
  <2>1. ~IsCut(arrived) => Len(arrived.bytes) >= 64 + (8 + arrived.length)
    BY <1>2, <1>3, WholeIsLong, BodyLayout DEF DataToUs, ToUs
  <2>2. Len(arrived.bytes) = 64 + Len(window) + 4 /\ Len(window) \in Nat
    BY <1>2 DEF Follows, Data
  <2>. QED  BY <1>2, <1>3, <2>1, <2>2, Arrived DEF DataToUs, ToUs
<1>5. CASE Len(window) < 4
  <2>1. Return /\ UNCHANGED <<heard, failed>> /\ pc' = "returned"
    BY <1>5, Lengths DEF HandlePacket, Return
  <2>2. IsCut(arrived)
    BY <1>2, <1>4, <1>5 DEF Follows, Data
  <2>. QED  BY <1>1, <1>2, <2>1, <2>2, HeardDone
<1>6. CASE ~(Len(window) < 4) /\ ~arrived.asks
  <2>1. pc' = "dispatch" /\ UNCHANGED <<heard, failed>>
    BY <1>6, Lengths DEF HandlePacket, Call, Asked
  <2>2. Acknowledgements' = <<>>
    BY <1>2, <1>6 DEF Acknowledgements
  <2>. QED  BY <1>1, <1>2, <2>1, <2>2 DEF HeardInv
<1>7. CASE ~(Len(window) < 4) /\ arrived.asks /\ ~failed'
  <2>1. pc' = "dispatch" /\ heard' = Append(heard, <<"acknowledge">>)
    BY <1>7, Lengths DEF HandlePacket, Asked
  <2>2. Acknowledgements' = <<<<"acknowledge">>>> /\ heard' = <<<<"acknowledge">>>>
    BY <1>2, <1>7, <2>1 DEF Acknowledgements
  <2>. QED  BY <1>1, <1>7, <2>1, <2>2 DEF HeardInv
<1>8. CASE ~(Len(window) < 4) /\ arrived.asks /\ failed'
  <2>1. pc' = "returned" /\ UNCHANGED heard
    BY <1>2, <1>8, Lengths DEF HandlePacket, Asked, Return
  <2>2. ~IsCut(arrived) => IsPrefixOf(<<>>, arrived.means)
    BY <1>3, <1>4, MeaningIsSequence, Prefixes
  <2>. QED  BY <1>1, <1>2, <1>8, <2>1, <2>2, HeardDone
<1>. QED  BY <1>3, <1>5, <1>6, <1>7, <1>8

\* The packets that a controller handles
Understood ==
  /\ arrived.device = 0 /\ arrived.command \in DOMAIN DataSize
  /\ LengthFits(arrived.command, arrived.length)

LEMMA DispatchCases ==
  ASSUME Dispatch
  PROVE  /\ pc = "dispatch" /\ UNCHANGED <<arrived, written, failed>>
         /\ \/ /\ Understood /\ Len(Skip(window, 4, 0)) >= DataSize[arrived.command]
               /\ Take(<<arrived.command>>,
                       IF arrived.command = "announce" THEN AnnounceMessages ELSE <<>>,
                       {Look(Skip(window, 4, 0), 0, Object("data", DataSize[arrived.command]))})
               /\ emitted' = DeviceEvents(arrived.command)
            \/ /\ ~(Understood /\ Len(Skip(window, 4, 0)) >= DataSize[arrived.command])
               /\ Return /\ UNCHANGED emitted
<1>1. pc = "dispatch" /\ UNCHANGED <<arrived, written, failed>>
  BY DEF Dispatch
<1> DEFINE fits == Understood /\ Len(Skip(window, 4, 0)) >= DataSize[arrived.command]
<1>2. CASE fits
  BY <1>1, <1>2, Lengths DEF Dispatch, Understood
<1>3. CASE ~fits
  BY <1>1, <1>3, Lengths DEF Dispatch, Understood
<1>. QED  BY <1>2, <1>3

LEMMA DispatchHeard ==
  ASSUME HeardInv, Dispatch
  PROVE  HeardInv'
<1>1. PlaceInv
  BY DEF HeardInv
<1>2. /\ pc = "dispatch" /\ DataToUs /\ Valid(arrived.wcid) /\ heard = Acknowledgements /\ ~failed
      /\ UNCHANGED <<arrived, failed>> /\ Follows(window, arrived.bytes, 64) /\ Len(window) >= 4
  BY <1>1, DispatchCases DEF HeardInv, PlaceInv, At
<1>3. arrived.asks \in BOOLEAN /\ arrived.length \in Nat
  BY <1>2, Arrived DEF DataToUs, ToUs
<1>4. ~IsCut(arrived) => /\ Len(Skip(window, 4, 0)) >= arrived.length
                         /\ arrived.means = Acknowledgements \o PacketMeaning(arrived)
  <2>1. ~IsCut(arrived) => Len(arrived.bytes) >= 64 + (8 + arrived.length)
    BY <1>2, <1>3, WholeIsLong, BodyLayout DEF DataToUs, ToUs
  <2>2. Len(arrived.bytes) = 64 + Len(window) + 4 /\ Len(window) \in Nat
    BY <1>2 DEF Follows, Data
  <2>3. Len(Skip(window, 4, 0)) = Len(window) - 4
    <3>1. 64 \in Nat /\ 4 \in Nat /\ 4 <= Len(window)
      BY <1>2, <2>2
    <3>. QED  BY <1>2, <3>1, RestFollows
  <2>4. ~IsCut(arrived) => arrived.means = FrameMeaning(arrived)
    BY <1>2, Arrived, OneMeaning DEF DataToUs, ToUs
  <2>5. FrameMeaning(arrived) = Acknowledgements \o PacketMeaning(arrived)
    <3>1. CASE arrived.asks
      <4>1. arrived.type = "data" /\ Acknowledgements = <<<<"acknowledge">>>>
        BY <1>2, <3>1 DEF DataToUs, Acknowledgements
      <4>2. FrameMeaning(arrived) = <<<<"acknowledge">>>> \o PacketMeaning(arrived)
        BY <1>2, <3>1, <4>1, AskingMeaning
      <4>. QED  BY <4>1, <4>2, Zenon
    <3>2. CASE ~arrived.asks
      <4>1. FrameMeaning(arrived) = PacketMeaning(arrived)
        BY <1>2, <1>3, <3>2, OneFrameMeaning DEF DataToUs, ToUs
      <4>2. <<>> \o PacketMeaning(arrived) = PacketMeaning(arrived)
        BY DEF PacketMeaning
      <4>. QED  BY <3>2, <4>1, <4>2 DEF Acknowledgements
    <3>. QED  BY <1>3, <3>1, <3>2
  <2>6. ~IsCut(arrived) => Len(Skip(window, 4, 0)) >= arrived.length
    <3> SUFFICES ASSUME ~IsCut(arrived) PROVE Len(window) - 4 >= arrived.length
      BY <2>3, Zenon
    <3>1. 64 + Len(window) + 4 >= 64 + (8 + arrived.length)
      BY <2>1, <2>2, Zenon
    <3>2. Len(window) \in Nat /\ arrived.length \in Nat
      BY <1>3, <2>2
    <3>. QED  BY <3>1, <3>2
  <2>. QED  BY <2>4, <2>5, <2>6, Zenon
<1>5. PlaceInv'
  BY <1>1, <1>2, DispatchCases, Leaves DEF Take, Return
<1>6. CASE Understood /\ Len(Skip(window, 4, 0)) >= DataSize[arrived.command]
  <2>1. pc' = "write" /\ heard' = Append(Acknowledgements, <<arrived.command>>)
    BY <1>2, <1>6, DispatchCases DEF Take
  <2>2. ~IsCut(arrived) => arrived.means = Acknowledgements \o <<<<arrived.command>>>>
    BY <1>4, <1>6 DEF PacketMeaning, Understood
  <2>3. ~IsCut(arrived) => heard' = arrived.means
    BY <2>1, <2>2 DEF Acknowledgements
  <2>4. IsPrefixOf(heard', heard')
    <3> DEFINE S == {<<"acknowledge">>, <<arrived.command>>}
    <3>1. heard' \in Seq(S)
      <4>1. <<"acknowledge">> \in S /\ <<arrived.command>> \in S
        OBVIOUS
      <4> HIDE DEF S
      <4>2. Acknowledgements \in Seq(S)
        BY <4>1 DEF Acknowledgements
      <4>. QED  BY <2>1, <4>1, <4>2
    <3>. QED  BY <3>1, Prefixes
  <2>. QED  BY <1>2, <1>5, <2>1, <2>3, <2>4, HeardDone
<1>7. CASE ~(Understood /\ Len(Skip(window, 4, 0)) >= DataSize[arrived.command])
  <2>1. pc' = "returned" /\ heard' = Acknowledgements
    BY <1>2, <1>7, DispatchCases DEF Return
  <2>2. ~IsCut(arrived) => ~Understood
    <3>1. ASSUME Understood, ~IsCut(arrived) PROVE FALSE
      <4>1. DataSize[arrived.command] \in Nat
        BY <3>1 DEF Understood, DataSize
      <4>2. arrived.length >= DataSize[arrived.command]
        BY <1>3, <3>1, <4>1 DEF Understood, LengthFits
      <4>3. Len(Skip(window, 4, 0)) \in Nat
        <5>1. 64 \in Nat /\ 4 \in Nat /\ 4 <= Len(window)
          BY <1>2 DEF Follows, Data
        <5>. QED  BY <1>2, <5>1, RestFollows DEF Follows, Data
      <4>. QED  BY <1>3, <1>4, <1>7, <3>1, <4>1, <4>2, <4>3
    <3>. QED  BY <3>1
  <2>3. ~IsCut(arrived) => arrived.means = Acknowledgements
    <3>1. ~IsCut(arrived) => PacketMeaning(arrived) = <<>>
      BY <2>2 DEF PacketMeaning, Understood
    <3>. QED  BY <1>4, <3>1 DEF Acknowledgements
  <2>4. IsPrefixOf(heard', heard')
    <3> DEFINE S == {<<"acknowledge">>}
    <3>1. heard' \in Seq(S)
      <4>1. <<"acknowledge">> \in S
        OBVIOUS
      <4> HIDE DEF S
      <4>. QED  BY <2>1, <4>1 DEF Acknowledgements
    <3>. QED  BY <3>1, Prefixes
  <2>. QED  BY <1>2, <1>5, <2>1, <2>3, <2>4, HeardDone
<1>. QED  BY <1>6, <1>7

LEMMA HeardStep ==
  ASSUME HeardInv, [Next]_vars
  PROVE  HeardInv'
<1>1. PlaceInv' /\ PlaceInv
  BY PlaceStep DEF HeardInv
<1>2. CASE Receive
  <2>1. pc = "read" /\ heard = <<>> /\ ~failed /\ UNCHANGED <<heard, failed>>
    BY <1>2 DEF Receive, HeardInv
  <2>2. CASE pc' = "bulk"
    BY <1>1, <2>1, <2>2 DEF HeardInv
  <2>3. CASE pc' # "bulk"
    <3>1. pc' = "returned" /\ arrived' \in Transfers /\ arrived'.bytes = <<>>
      BY <1>2, <2>3 DEF Receive
    <3>2. IsCut(arrived')
      BY <3>1, WholeIsLong
    <3>. QED  BY <1>1, <2>1, <3>1, <3>2 DEF HeardInv, IsCut
  <2>. QED  BY <2>2, <2>3
<1>3. CASE Loop
  BY <1>1, <1>3 DEF Loop, HeardInv
<1>4. CASE WriteUnasked
  <2>1. /\ arrived = Nothing /\ heard = <<>> /\ ~failed /\ pc' = "write"
        /\ UNCHANGED <<arrived, heard, failed>>
    BY <1>1, <1>4 DEF WriteUnasked, HeardInv, PlaceInv
  <2>2. <<>> \in Seq({}) /\ arrived.means = <<>>
    BY <2>1 DEF Nothing
  <2>. QED  BY <1>1, <2>1, <2>2, Prefixes, HeardDone
<1>5. CASE WriteNext \/ Written
  BY <1>1, <1>5 DEF WriteNext, Written, HeardInv, IsCut
<1>6. CASE UNCHANGED vars
  BY <1>1, <1>6 DEF HeardInv, vars, IsCut, Acknowledgements
<1>. QED  BY <1>2, <1>3, <1>4, <1>5, <1>6, BulkHeard, WlanHeard, ControllerHeard, PacketHeard,
             DispatchHeard DEF Next

\* Whatever arrives that is laid out as the handlers assume it: a transfer that is not
\* cut is taken for what its sender means, and nothing else, in the order in which it
\* is to be handled; a message that cannot be written may end this early.
THEOREM TransfersAreUnderstood == Spec => []TakenAsMeant
<1>1. Init => HeardInv
  BY PlaceInit DEF HeardInv, Init
<1>2. HeardInv /\ [Next]_vars => HeardInv'
  BY HeardStep
<1>3. HeardInv => TakenAsMeant
  <2> SUFFICES ASSUME HeardInv, ~IsCut(arrived)
               PROVE  /\ IsPrefixOf(heard, arrived.means)
                      /\ pc = "returned" /\ ~failed => heard = arrived.means
    BY DEF TakenAsMeant
  <2>1. CASE pc \in {"write", "returned"}
    BY <2>1 DEF HeardInv
  <2>2. CASE arrived = Nothing /\ pc = "read"
    <3>1. heard = <<>> /\ arrived.means = <<>> /\ <<>> \in Seq({})
      BY <2>2 DEF HeardInv, Nothing
    <3>. QED  BY <2>2, <3>1, Prefixes
  <2>3. CASE arrived \in Transfers /\ pc \in {"bulk", "wlan", "client", "gip"}
    <3>1. heard = <<>> /\ arrived.means = Meaning(arrived) /\ arrived.asks \in BOOLEAN
      BY <2>3, Arrived DEF HeardInv
    <3>. QED  BY <2>3, <3>1, MeaningIsSequence, Prefixes
  <2>4. CASE arrived \in Transfers /\ pc = "dispatch"
    <3>1. /\ heard = Acknowledgements /\ arrived.means = Meaning(arrived) /\ arrived.asks \in BOOLEAN
          /\ DataToUs /\ Valid(arrived.wcid)
      BY <2>4, Arrived DEF HeardInv, PlaceInv
    <3>2. arrived.means = FrameMeaning(arrived)
      BY <3>1, OneMeaning DEF DataToUs, ToUs
    <3>3. CASE ~arrived.asks
      BY <2>4, <3>1, <3>3, MeaningIsSequence, Prefixes DEF Acknowledgements
    <3>4. CASE arrived.asks
      <4>1. /\ heard = <<<<"acknowledge">>>>
            /\ arrived.means = <<<<"acknowledge">>>> \o PacketMeaning(arrived)
        <5>1. heard = <<<<"acknowledge">>>> /\ arrived.type = "data"
          BY <3>1, <3>4 DEF Acknowledgements, DataToUs
        <5>2. FrameMeaning(arrived) = <<<<"acknowledge">>>> \o PacketMeaning(arrived)
          BY <3>1, <3>4, <5>1, AskingMeaning
        <5>. QED  BY <3>2, <5>1, <5>2, Zenon
      <4>2. ASSUME PacketMeaning(arrived) = <<>>
            PROVE  IsPrefixOf(<<<<"acknowledge">>>>, arrived.means)
        <5>1. arrived.means = <<<<"acknowledge">>>> /\ arrived.means \in Seq({<<"acknowledge">>})
          BY <4>1, <4>2
        <5>. QED  BY <5>1, Prefixes
      <4>3. ASSUME PacketMeaning(arrived) = <<<<arrived.command>>>>
            PROVE  IsPrefixOf(<<<<"acknowledge">>>>, arrived.means)
        <5> DEFINE a == <<"acknowledge">>
                   b == <<arrived.command>>
        <5>1. arrived.means = <<a>> \o <<b>>
          BY <4>1, <4>3
        <5>. QED  BY <5>1, PrefixOfTwo
      <4>4. IsPrefixOf(<<<<"acknowledge">>>>, arrived.means)
        BY <4>2, <4>3 DEF PacketMeaning
      <4>. QED  BY <2>4, <4>1, <4>4
    <3>. QED  BY <3>1, <3>3, <3>4
  <2>. QED  BY <2>1, <2>2, <2>3, <2>4 DEF HeardInv, PlaceInv, DataToUs, ToUs
<1>. QED  BY <1>1, <1>2, <1>3, PTL DEF Spec

-----------------------------------------------------------------------------
(* What the handlers look at                                               *)

LooksInv == PlaceInv /\ LooksRight

LEMMA InfoIsRight ==
  ASSUME PlaceInv, pc = "bulk", HasPacket(window)
  PROVE  \A look \in InfoSeen : RightLook(look)
<1>1. arrived \in Transfers /\ window = arrived.bytes /\ window \in Data /\ arrived.length \in Nat
  BY Arrived DEF PlaceInv
<1>2. Lies(window, arrived.bytes, 0) /\ Len(window) \in Nat /\ Len(window) > 8
  BY <1>1, AllLies, Lengths DEF HasPacket, Data
<1>3. PICK m \in Nat : m >= 4 /\ Layout(arrived) \in Bytes(m) /\ Holds(Layout(arrived), 0, RxInfo, 4)
  <2>1. CASE arrived.port = "cpu" /\ arrived.event # "packet"
    <3>1. 5 \in Nat /\ 5 >= 4
      OBVIOUS
    <3>. QED  BY <2>1, <3>1, EventLayout
  <2>2. CASE ~(arrived.port = "cpu" /\ arrived.event # "packet")
    <3>1. BodySize(arrived) \in Nat
      BY <1>1, BodyLayout
    <3>2. 60 + BodySize(arrived) \in Nat /\ 60 + BodySize(arrived) >= 4
      BY <3>1
    <3>. QED  BY <1>1, <2>2, <3>2, FrameLayout
  <2>. QED  BY <2>1, <2>2
<1>4. 0 \in Nat /\ 4 \in Nat /\ 0 + 0 = 0 /\ 0 + 0 + 4 <= m /\ 0 + 4 <= Len(window)
  BY <1>2, <1>3
<1>5. Holds(Layout(arrived), 0 + 0, RxInfo, 4) /\ RxInfo \in Bytes(4)
  BY <1>3, <1>4, Headers, Zenon
<1>6. RightLook(Look(window, 0, RxInfo))
  BY <1>1, <1>2, <1>3, <1>4, <1>5, LooksAt, Zenon
<1>. QED  BY <1>6 DEF InfoSeen

LEMMA WcidIsRight ==
  ASSUME PlaceInv, pc = "bulk", HasPacket(window), arrived.port = "cpu", arrived.event = "lost"
  PROVE  \A look \in WcidSeen : RightLook(look)
<1>1. arrived \in Transfers /\ window = arrived.bytes /\ window \in Data
  BY Arrived DEF PlaceInv
<1>2. Len(window) \in Nat /\ Len(window) > 8
  BY <1>1, Lengths DEF HasPacket, Data
<1> DEFINE packet == Skip(window, 4, 4)
<1>3. Follows(packet, arrived.bytes, 4)
  BY <1>1, <1>2, PacketFollows
<1> HIDE DEF packet
<1>4. Len(packet) >= 1
  BY <1>1, <1>2, <1>3 DEF Follows, Data
<1>5. Layout(arrived) \in Bytes(5) /\ Holds(Layout(arrived), 4, Object("lost", 1), 1)
  BY EventLayout
<1>6. 0 \in Nat /\ 1 \in Nat /\ 4 \in Nat /\ 5 \in Nat /\ 4 + 0 = 4 /\ 4 + 0 + 1 <= 5 /\ 0 + 1 <= Len(packet)
  BY <1>3, <1>4 DEF Follows, Data
<1>7. Holds(Layout(arrived), 4 + 0, Object("lost", 1), 1)
  BY <1>5, <1>6, Zenon
<1>8. Object("lost", 1) \in Bytes(1)
  <2>1. "lost" \in Name
    BY DEF Name
  <2>. QED  BY <1>6, <2>1, ObjectBytes
<1>9. Lies(packet, arrived.bytes, 4)
  BY <1>3, <1>6, FollowsLies
<1>10. RightLook(Look(packet, 0, Object("lost", 1)))
  BY <1>1, <1>5, <1>6, <1>7, <1>8, <1>9, LooksAt, Zenon
<1>. QED  BY <1>10 DEF WcidSeen, packet

\* What lies in the frame of a gamepad
LEMMA FrameIsRight ==
  ASSUME NEW t \in Transfers, HasFrame(t), NEW part, NEW k \in Nat, Follows(part, t.bytes, k),
         NEW j \in Nat, NEW n \in Nat, NEW x \in Bytes(n), j + n <= Len(part),
         Holds(Layout(t), k + j, x, n), k + j + n <= 60 + BodySize(t)
  PROVE  RightLook(Look(part, j, x))
<1>1. t.length \in Nat /\ ~(t.port = "cpu" /\ t.event # "packet")
  BY Arrived DEF HasFrame
<1>2. 60 + BodySize(t) \in Nat /\ Layout(t) \in Bytes(60 + BodySize(t))
  BY <1>1, FrameLayout
<1>3. Lies(part, t.bytes, k)
  BY FollowsLies
<1>. QED  BY <1>2, <1>3, LooksAt, Zenon

LEMMA HeadersAreRight ==
  ASSUME PlaceInv, pc = "wlan", Longer
  PROVE  \A look \in HeadersSeen : RightLook(look)
<1>1. arrived \in Transfers /\ HasFrame(arrived) /\ Follows(window, arrived.bytes, 4)
  BY DEF PlaceInv, At
<1>2. /\ arrived.length \in Nat /\ ~(arrived.port = "cpu" /\ arrived.event # "packet")
      /\ BodySize(arrived) \in Nat
  BY <1>1, Arrived, BodyLayout DEF HasFrame
<1>3. /\ Holds(Layout(arrived), 4, RxWi, 32) /\ Holds(Layout(arrived), 36, WlanFrame, 24)
      /\ RxWi \in Bytes(32) /\ WlanFrame \in Bytes(24)
  BY <1>2, FrameLayout, Headers
<1>4. Len(window) \in Nat /\ Len(window) > 56
  BY <1>1 DEF Follows, Data, Longer
<1>5. /\ 0 \in Nat /\ 4 \in Nat /\ 24 \in Nat /\ 32 \in Nat /\ 4 + 0 = 4 /\ 4 + 32 = 36
      /\ 0 + 32 <= Len(window) /\ 32 + 24 <= Len(window)
  BY <1>4
<1>6. 4 + 0 + 32 <= 60 + BodySize(arrived) /\ 4 + 32 + 24 <= 60 + BodySize(arrived)
  BY <1>2
<1>7. Holds(Layout(arrived), 4 + 0, RxWi, 32) /\ Holds(Layout(arrived), 4 + 32, WlanFrame, 24)
  BY <1>3, <1>5, Zenon
<1>8. RightLook(Look(window, 0, RxWi))
  BY <1>1, <1>3, <1>5, <1>6, <1>7, FrameIsRight, Zenon
<1>9. RightLook(Look(window, 32, WlanFrame))
  BY <1>1, <1>3, <1>5, <1>6, <1>7, FrameIsRight, Zenon
<1>. QED  BY <1>8, <1>9 DEF HeadersSeen

LEMMA PairIsRight ==
  ASSUME PlaceInv, pc = "wlan", Longer, arrived.type = "reserved", Len(Inner) >= 2
  PROVE  \A look \in PairSeen : RightLook(look)
<1>1. arrived \in Transfers /\ HasFrame(arrived) /\ Follows(window, arrived.bytes, 4)
  BY DEF PlaceInv, At
<1>2. /\ arrived.length \in Nat /\ ~(arrived.port = "cpu" /\ arrived.event # "packet")
      /\ BodySize(arrived) = 2 /\ Holds(FrameBody(arrived), 0, ReservedFrame, 2)
      /\ ReservedFrame \in Bytes(2)
  BY <1>1, Arrived, BodyLayout, Headers DEF HasFrame
<1>3. /\ 0 \in Nat /\ 2 \in Nat /\ 4 \in Nat /\ 56 \in Nat /\ 56 <= Len(window) /\ 4 + 56 = 60
      /\ 60 + 0 = 60 /\ 60 \in Nat
  BY <1>1 DEF Follows, Data, Longer
<1>4. Follows(Inner, arrived.bytes, 4 + 56) /\ Len(Inner) = Len(window) - 56
  BY <1>1, <1>3, RestFollows DEF Inner
<1>5. Follows(Inner, arrived.bytes, 60)
  BY <1>3, <1>4
<1>6. 0 + 2 <= BodySize(arrived) /\ 0 + 2 <= Len(Inner) /\ 60 + 0 + 2 <= 60 + BodySize(arrived)
  BY <1>2, <1>5 DEF Follows, Data
<1>7. Holds(Layout(arrived), 60 + 0, ReservedFrame, 2)
  BY <1>2, <1>3, <1>6, FrameLayout
<1>8. RightLook(Look(Inner, 0, ReservedFrame))
  BY <1>1, <1>2, <1>3, <1>5, <1>6, <1>7, FrameIsRight, Zenon
<1>. QED  BY <1>8 DEF PairSeen

LEMMA PacketIsRight ==
  ASSUME PlaceInv, pc = "gip", ~(Len(window) < 4)
  PROVE  RightLook(Look(window, 0, Frame))
<1>1. arrived \in Transfers /\ HasFrame(arrived) /\ arrived.type = "data" /\ Follows(window, arrived.bytes, 64)
  BY DEF PlaceInv, At, DataToUs, ToUs
<1>2. /\ arrived.length \in Nat /\ ~(arrived.port = "cpu" /\ arrived.event # "packet")
      /\ BodySize(arrived) = 8 + arrived.length /\ Holds(FrameBody(arrived), 4, Frame, 4)
      /\ Frame \in Bytes(4)
  BY <1>1, Arrived, BodyLayout, Headers DEF HasFrame
<1>3. 0 \in Nat /\ 4 \in Nat /\ 64 \in Nat /\ 60 + 4 = 64 + 0 /\ 0 + 4 <= Len(window)
  BY <1>1 DEF Follows, Data
<1>4. 4 + 4 <= BodySize(arrived) /\ 64 + 0 + 4 <= 60 + BodySize(arrived)
  BY <1>2
<1>5. Holds(Layout(arrived), 60 + 4, Frame, 4)
  BY <1>2, <1>3, <1>4, FrameLayout
<1>6. Holds(Layout(arrived), 64 + 0, Frame, 4)
  BY <1>3, <1>5, Zenon
<1>. QED  BY <1>1, <1>2, <1>3, <1>4, <1>6, FrameIsRight, Zenon

LEMMA DataIsRight ==
  ASSUME PlaceInv, pc = "dispatch", Understood,
         Len(Skip(window, 4, 0)) >= DataSize[arrived.command]
  PROVE  RightLook(Look(Skip(window, 4, 0), 0, Object("data", DataSize[arrived.command])))
<1> DEFINE data == Skip(window, 4, 0)
           size == DataSize[arrived.command]
<1>1. /\ arrived \in Transfers /\ HasFrame(arrived) /\ arrived.type = "data"
      /\ Follows(window, arrived.bytes, 64) /\ Len(window) >= 4
  BY DEF PlaceInv, At, DataToUs, ToUs
<1>2. /\ arrived.length \in Nat /\ ~(arrived.port = "cpu" /\ arrived.event # "packet")
      /\ BodySize(arrived) = 8 + arrived.length
      /\ Holds(FrameBody(arrived), 8, Object("data", arrived.length), arrived.length)
  BY <1>1, Arrived, BodyLayout DEF HasFrame
<1>3. size \in Nat
  BY DEF Understood, DataSize
<1>4. size <= arrived.length
  BY <1>2, <1>3 DEF Understood, LengthFits
<1>5. 0 \in Nat /\ 4 \in Nat /\ 8 \in Nat /\ 64 \in Nat /\ 68 \in Nat /\ 4 <= Len(window) /\ 64 + 4 = 68
  BY <1>1
<1>6. Follows(data, arrived.bytes, 64 + 4)
  BY <1>1, <1>5, RestFollows
<1>7. Follows(data, arrived.bytes, 68) /\ Len(data) >= size
  BY <1>5, <1>6
<1> HIDE DEF size, data
<1>8. "data" \in Name
  BY DEF Name
<1>9. Object("data", size) \in Bytes(size)
  BY <1>3, <1>8, ObjectBytes
<1>10. Holds(FrameBody(arrived), 8, Object("data", size), size)
  <2>1. \A i \in 1 .. size : Object("data", size)[i] = <<"data", i>>
    BY <1>3, <1>8, ObjectBytes
  <2>2. \A i \in 1 .. arrived.length : Object("data", arrived.length)[i] = <<"data", i>>
    BY <1>2, <1>8, ObjectBytes
  <2>3. \A i \in 1 .. size : i \in 1 .. arrived.length
    BY <1>2, <1>3, <1>4
  <2>. QED  BY <1>2, <2>1, <2>2, <2>3 DEF Holds
<1>11. /\ 8 + size <= BodySize(arrived) /\ 68 + 0 + size <= 60 + BodySize(arrived)
       /\ 0 + size <= Len(data) /\ 60 + 8 = 68 + 0
  BY <1>2, <1>3, <1>4, <1>7 DEF Follows, Data
<1>12. Holds(Layout(arrived), 60 + 8, Object("data", size), size)
  BY <1>2, <1>3, <1>5, <1>10, <1>11, FrameLayout
<1>13. Holds(Layout(arrived), 68 + 0, Object("data", size), size)
  BY <1>11, <1>12, Zenon
<1>14. RightLook(Look(data, 0, Object("data", size)))
  BY <1>1, <1>3, <1>5, <1>7, <1>9, <1>11, <1>13, FrameIsRight, Zenon
<1>. QED  BY <1>14 DEF data, size

LEMMA LooksStep ==
  ASSUME LooksInv, [Next]_vars
  PROVE  LooksInv'
<1>1. PlaceInv' /\ PlaceInv /\ \A look \in looked : RightLook(look)
  BY PlaceStep DEF LooksInv, LooksRight, RightLook
<1> SUFFICES \A look \in looked' : RightLook(look)
  BY <1>1 DEF LooksInv, LooksRight, RightLook
<1>2. CASE UNCHANGED looked \/ looked' = {}
  BY <1>1, <1>2
<1>3. CASE Receive \/ Loop \/ ControllerPacket \/ WriteUnasked \/ WriteNext \/ Written \/ UNCHANGED vars
  BY <1>2, <1>3 DEF Receive, Loop, ControllerPacket, WriteUnasked, WriteNext, Written, Call, Return, vars
<1>4. CASE Bulk
  <2>1. CASE ~HasPacket(window)
    BY <1>2, <1>4, <2>1, BulkCases DEF Return
  <2>2. CASE HasPacket(window)
    <3>1. \A look \in InfoSeen : RightLook(look)
      BY <1>1, <1>4, <2>2, BulkCases, InfoIsRight
    <3>2. CASE looked' \in {looked, looked \cup InfoSeen}
      BY <1>1, <3>1, <3>2
    <3>3. CASE arrived.port = "cpu" /\ arrived.event = "lost" /\ Valid(arrived.wcid)
      <4>1. looked' = looked \cup (InfoSeen \cup WcidSeen)
        BY <1>4, <2>2, <3>3, BulkCases DEF Take
      <4>2. \A look \in WcidSeen : RightLook(look)
        BY <1>1, <1>4, <2>2, <3>3, BulkCases, WcidIsRight
      <4>. QED  BY <1>1, <3>1, <4>1, <4>2
    <3>4. CASE ~(arrived.port = "cpu" /\ arrived.event = "lost" /\ Valid(arrived.wcid))
      BY <1>4, <2>2, <3>2, <3>4, BulkCases DEF Take, Call, Return
    <3>. QED  BY <3>3, <3>4
  <2>. QED  BY <2>1, <2>2
<1>5. CASE Wlan
  <2>1. CASE ~Longer
    BY <1>2, <1>5, <2>1, WlanCases DEF Return
  <2>2. CASE Longer
    <3>1. \A look \in HeadersSeen : RightLook(look)
      BY <1>1, <1>5, <2>2, WlanCases, HeadersAreRight
    <3>2. CASE looked' \in {looked, looked \cup HeadersSeen}
      BY <1>1, <3>1, <3>2
    <3>3. CASE arrived.type = "reserved" /\ arrived.pairs /\ Len(Inner) >= 2
      <4>1. looked' = looked \cup (HeadersSeen \cup PairSeen)
        BY <1>5, <2>2, <3>3, WlanCases DEF Take
      <4>2. \A look \in PairSeen : RightLook(look)
        BY <1>1, <1>5, <2>2, <3>3, WlanCases, PairIsRight
      <4>. QED  BY <1>1, <3>1, <4>1, <4>2
    <3>4. CASE ~(arrived.type = "reserved" /\ arrived.pairs /\ Len(Inner) >= 2)
      BY <1>5, <2>2, <3>2, <3>4, WlanCases DEF Take, Call, Return
    <3>. QED  BY <3>3, <3>4
  <2>. QED  BY <2>1, <2>2
<1>6. CASE HandlePacket
  <2>1. CASE UNCHANGED looked
    BY <1>2, <2>1
  <2>2. CASE ~UNCHANGED looked
    <3>1. pc = "gip" /\ ~(Len(window) < 4) /\ looked' = looked \cup {Look(window, 0, Frame)}
      BY <1>6, <2>2, Lengths DEF HandlePacket, Call, Return
    <3>. QED  BY <1>1, <3>1, PacketIsRight
  <2>. QED  BY <2>1, <2>2
<1>7. CASE Dispatch
  <2>1. CASE UNCHANGED looked
    BY <1>2, <2>1
  <2>2. CASE ~UNCHANGED looked
    <3>1. /\ pc = "dispatch" /\ Understood /\ Len(Skip(window, 4, 0)) >= DataSize[arrived.command]
          /\ looked' = looked \cup {Look(Skip(window, 4, 0), 0, Object("data", DataSize[arrived.command]))}
      BY <1>7, <2>2, DispatchCases DEF Take, Return
    <3>. QED  BY <1>1, <3>1, DataIsRight
  <2>. QED  BY <2>1, <2>2
<1>. QED  BY <1>3, <1>4, <1>5, <1>6, <1>7 DEF Next

\* Whatever arrives that begins as the handlers assume, be it cut anywhere: each structure
\* that a handler looks at lies within the transfer, and is the one that was put there.
THEOREM LooksAreRight == Spec => []LooksRight
<1>1. Init => LooksInv
  BY PlaceInit DEF LooksInv, LooksRight, Init
<1>2. LooksInv /\ [Next]_vars => LooksInv'
  BY LooksStep
<1>3. LooksInv => LooksRight
  BY DEF LooksInv
<1>. QED  BY <1>1, <1>2, <1>3, PTL DEF Spec

-----------------------------------------------------------------------------
(* What the input device is given                                          *)

\* EventsPassed, and that the device is given events last, and at most once
PlayedInv ==
  /\ PlaceInv
  /\ pc \notin {"write", "returned"} => emitted = <<>>
  /\ pc \in {"read", "bulk", "wlan", "client", "gip"} => heard = <<>>
  /\ pc = "dispatch" => heard \in {<<>>, <<<<"acknowledge">>>>}
  /\ emitted \in {<<>>, InputEvents(arrived.input), GuideEvents(arrived.pressed)}
  /\ heard # <<>> /\ heard[Len(heard)] = <<"input">> => emitted = InputEvents(arrived.input)

RightEvents(events) ==
  \A i \in 1 .. Len(events) : Passed(events[i]) /\ (events[i] = Report <=> i = Len(events))

LEMMA AxisRanges ==
  /\ DOMAIN Axis = {"x", "rx", "y", "ry", "z", "rz", "hat0x", "hat0y"}
  /\ Axis["x"] = Stick /\ Axis["rx"] = Stick /\ Axis["y"] = Stick /\ Axis["ry"] = Stick
  /\ Axis["z"] = Trigger /\ Axis["rz"] = Trigger /\ Axis["hat0x"] = Dpad /\ Axis["hat0y"] = Dpad
BY DEF Axis

\* ~stickLeftY stays in the range of the axis, at both of its ends.
LEMMA InvertedStick ==
  ASSUME NEW y \in Stick
  PROVE  Inverted(y) \in Stick
<1>1. StickMaximum \in Int /\ StickMinimum = -StickMaximum - 1
  BY DEF StickMinimum, StickMaximum
<1>. QED  BY <1>1 DEF Inverted, Stick

LEMMA DirectionDpad ==
  ASSUME NEW input, NEW plus, NEW minus
  PROVE  Direction(input, plus, minus) \in Dpad
BY DEF Direction, Dpad

LEMMA KeyPassed ==
  ASSUME NEW code \in Key, NEW pressed
  PROVE  Passed(KeyEvent(code, pressed)) /\ KeyEvent(code, pressed) # Report
BY DEF Passed, KeyEvent, Report

LEMMA AxisPassed ==
  ASSUME NEW code \in DOMAIN Axis, NEW value \in Axis[code]
  PROVE  Passed(AxisEvent(code, value)) /\ AxisEvent(code, value) # Report
BY DEF Passed, AxisEvent, Report

LEMMA ReportPassed == Passed(Report)
BY DEF Passed, Report

Keys(input)  == [i \in 1 .. Len(InputKeys) |-> KeyEvent(InputKeys[i], InputKeys[i] \in input.pressed)]
Axes(input) ==
  <<AxisEvent("x", input.x), AxisEvent("rx", input.rx),
    AxisEvent("y", Inverted(input.y)), AxisEvent("ry", Inverted(input.ry)),
    AxisEvent("z", input.z), AxisEvent("rz", input.rz),
    AxisEvent("hat0x", Direction(input, "right", "left")),
    AxisEvent("hat0y", Direction(input, "down", "up")), Report>>

LEMMA KeysAre ==
  /\ Len(InputKeys) = 10
  /\ \A i \in 1 .. 10 : InputKeys[i] \in Key \ {"mode"}
  /\ \A code \in Key \ {"mode"} : \E i \in 1 .. 10 : InputKeys[i] = code
<1>1. /\ InputKeys[1] = "start" /\ InputKeys[2] = "select" /\ InputKeys[3] = "a" /\ InputKeys[4] = "b"
      /\ InputKeys[5] = "x" /\ InputKeys[6] = "y" /\ InputKeys[7] = "tl" /\ InputKeys[8] = "tr"
      /\ InputKeys[9] = "thumbl" /\ InputKeys[10] = "thumbr" /\ Len(InputKeys) = 10
  BY DEF InputKeys
<1>2. \A i \in 1 .. 10 : i \in {1, 2, 3, 4, 5, 6, 7, 8, 9, 10}
  OBVIOUS
<1>3. 1 .. 10 = {1, 2, 3, 4, 5, 6, 7, 8, 9, 10}
  OBVIOUS
<1>4. ASSUME NEW i \in 1 .. 10 PROVE InputKeys[i] \in Key \ {"mode"}
  BY <1>1, <1>2 DEF Key
<1>5. ASSUME NEW code \in Key \ {"mode"} PROVE \E i \in 1 .. 10 : InputKeys[i] = code
  BY <1>1, <1>3 DEF Key
<1>. QED  BY <1>1, <1>4, <1>5

LEMMA AxesAre ==
  ASSUME NEW input \in Input
  PROVE  /\ Len(Axes(input)) = 9 /\ Axes(input)[9] = Report
         /\ \A i \in 1 .. 8 : Passed(Axes(input)[i]) /\ Axes(input)[i] # Report
         /\ {Axes(input)[i][2] : i \in 1 .. 9} = DOMAIN Axis \cup {"syn"}
<1> DEFINE a == Axes(input)
<1>1. /\ a[1] = AxisEvent("x", input.x) /\ a[2] = AxisEvent("rx", input.rx)
      /\ a[3] = AxisEvent("y", Inverted(input.y)) /\ a[4] = AxisEvent("ry", Inverted(input.ry))
      /\ a[5] = AxisEvent("z", input.z) /\ a[6] = AxisEvent("rz", input.rz)
      /\ a[7] = AxisEvent("hat0x", Direction(input, "right", "left"))
      /\ a[8] = AxisEvent("hat0y", Direction(input, "down", "up"))
      /\ a[9] = Report /\ Len(a) = 9
  BY DEF Axes
<1>2. /\ input.x \in Stick /\ input.rx \in Stick /\ input.y \in Stick /\ input.ry \in Stick
      /\ input.z \in Trigger /\ input.rz \in Trigger
  BY DEF Input
<1> HIDE DEF a
<1>3. Inverted(input.y) \in Stick /\ Inverted(input.ry) \in Stick
  BY <1>2, InvertedStick
<1>4. /\ "x" \in DOMAIN Axis /\ "rx" \in DOMAIN Axis /\ "y" \in DOMAIN Axis /\ "ry" \in DOMAIN Axis
      /\ "z" \in DOMAIN Axis /\ "rz" \in DOMAIN Axis /\ "hat0x" \in DOMAIN Axis
      /\ "hat0y" \in DOMAIN Axis
  BY AxisRanges
<1>5. Passed(a[1]) /\ a[1] # Report /\ Passed(a[2]) /\ a[2] # Report
  BY <1>1, <1>2, <1>4, AxisRanges, AxisPassed
<1>6. Passed(a[3]) /\ a[3] # Report /\ Passed(a[4]) /\ a[4] # Report
  BY <1>1, <1>3, <1>4, AxisRanges, AxisPassed
<1>7. Passed(a[5]) /\ a[5] # Report /\ Passed(a[6]) /\ a[6] # Report
  BY <1>1, <1>2, <1>4, AxisRanges, AxisPassed
<1>8. Passed(a[7]) /\ a[7] # Report /\ Passed(a[8]) /\ a[8] # Report
  BY <1>1, <1>4, DirectionDpad, AxisRanges, AxisPassed
<1>9. 1 .. 8 = {1, 2, 3, 4, 5, 6, 7, 8} /\ 1 .. 9 = {1, 2, 3, 4, 5, 6, 7, 8, 9}
  OBVIOUS
<1>10. \A i \in 1 .. 8 : Passed(a[i]) /\ a[i] # Report
  BY <1>5, <1>6, <1>7, <1>8, <1>9
<1>11. /\ a[1][2] = "x" /\ a[2][2] = "rx" /\ a[3][2] = "y" /\ a[4][2] = "ry" /\ a[5][2] = "z"
       /\ a[6][2] = "rz" /\ a[7][2] = "hat0x" /\ a[8][2] = "hat0y" /\ a[9][2] = "syn"
  BY <1>1 DEF AxisEvent, Report
<1>12. {a[i][2] : i \in 1 .. 9} = {"x", "rx", "y", "ry", "z", "rz", "hat0x", "hat0y", "syn"}
  BY <1>9, <1>11
<1>. QED  BY <1>1, <1>10, <1>12, AxisRanges DEF a

LEMMA InputEventsAre ==
  ASSUME NEW input \in Input
  PROVE  /\ RightEvents(InputEvents(input))
         /\ {InputEvents(input)[i][2] : i \in 1 .. Len(InputEvents(input))}
               = (Key \ {"mode"}) \cup DOMAIN Axis \cup {"syn"}
<1> DEFINE k == Keys(input)
           a == Axes(input)
           e == InputEvents(input)
           S == {k[i] : i \in 1 .. 10} \cup {a[i] : i \in 1 .. 9}
<1>1. Len(a) = 9 /\ a[9] = Report /\ \A i \in 1 .. 8 : Passed(a[i]) /\ a[i] # Report
  BY AxesAre
<1>2. {a[i][2] : i \in 1 .. 9} = DOMAIN Axis \cup {"syn"}
  BY AxesAre
<1>3. \A i \in 1 .. 10 : k[i] = KeyEvent(InputKeys[i], InputKeys[i] \in input.pressed)
  BY KeysAre DEF Keys
<1>4. k = [i \in 1 .. 10 |-> k[i]]
  BY KeysAre DEF Keys
<1>5. a \in Seq({a[i] : i \in 1 .. 9})
  BY DEF Axes
<1>6. e = k \o a
  BY DEF InputEvents, Keys, Axes
<1> HIDE DEF k, a, e
<1>7. k \in Seq(S) /\ Len(k) = 10
  <2>1. \A i \in 1 .. 10 : k[i] \in S
    OBVIOUS
  <2> HIDE DEF S
  <2>2. k \in [1 .. 10 -> S]
    BY <1>4, <2>1
  <2>3. k \in Seq(S)
    BY <2>2, SeqDef
  <2>. QED  BY <2>2, <2>3, LenProperties
<1>8. a \in Seq(S)
  <2>1. Len(a) = 9 /\ \A i \in 1 .. 9 : a[i] \in S
    BY <1>1
  <2>2. DOMAIN a = 1 .. 9 /\ a = [i \in 1 .. 9 |-> a[i]]
    BY <1>1, <1>5, LenProperties
  <2> HIDE DEF S
  <2>3. a \in [1 .. 9 -> S]
    BY <2>1, <2>2
  <2>. QED  BY <2>3, SeqDef
<1> HIDE DEF S
<1>9. /\ Len(e) = 19 /\ \A i \in 1 .. 19 : e[i] = IF i <= 10 THEN k[i] ELSE a[i - 10]
  <2>1. Len(e) = Len(k) + Len(a)
        /\ \A i \in 1 .. Len(k) + Len(a) : e[i] = IF i <= Len(k) THEN k[i] ELSE a[i - Len(k)]
    BY <1>6, <1>7, <1>8, ConcatProperties, Zenon
  <2>. QED  BY <1>1, <1>7, <2>1
<1>10. \A i \in 1 .. 10 : Passed(k[i]) /\ k[i] # Report /\ k[i][2] = InputKeys[i]
  <2>1. ASSUME NEW i \in 1 .. 10 PROVE Passed(k[i]) /\ k[i] # Report /\ k[i][2] = InputKeys[i]
    <3>1. InputKeys[i] \in Key
      BY KeysAre
    <3>2. KeyEvent(InputKeys[i], InputKeys[i] \in input.pressed)[2] = InputKeys[i]
      BY DEF KeyEvent
    <3>. QED  BY <1>3, <3>1, <3>2, KeyPassed
  <2>. QED  BY <2>1
<1>11. RightEvents(e)
  <2>1. ASSUME NEW i \in 1 .. 19 PROVE Passed(e[i]) /\ (e[i] = Report <=> i = 19)
    <3>1. CASE i <= 10
      BY <1>9, <1>10, <3>1
    <3>2. CASE i = 19
      BY <1>1, <1>9, <3>2, ReportPassed
    <3>3. CASE i > 10 /\ i # 19
      <4>1. i - 10 \in 1 .. 8 /\ e[i] = a[i - 10]
        BY <1>9, <3>3
      <4>. QED  BY <1>1, <3>3, <4>1
    <3>. QED  BY <3>1, <3>2, <3>3
  <2>. QED  BY <1>9, <2>1 DEF RightEvents
<1>12. {e[i][2] : i \in 1 .. 19} = (Key \ {"mode"}) \cup {a[i][2] : i \in 1 .. 9}
  <2>1. ASSUME NEW i \in 1 .. 19
        PROVE  e[i][2] \in (Key \ {"mode"}) \cup {a[j][2] : j \in 1 .. 9}
    <3>1. CASE i <= 10
      BY <1>9, <1>10, <3>1, KeysAre
    <3>2. CASE i > 10
      <4>1. i - 10 \in 1 .. 9 /\ e[i] = a[i - 10]
        BY <1>9, <3>2
      <4>. QED  BY <4>1
    <3>. QED  BY <3>1, <3>2
  <2>2. ASSUME NEW code \in Key \ {"mode"} PROVE \E i \in 1 .. 19 : e[i][2] = code
    <3>1. PICK i \in 1 .. 10 : InputKeys[i] = code
      BY KeysAre
    <3>2. i \in 1 .. 19 /\ e[i] = k[i]
      BY <1>9
    <3>. QED  BY <1>10, <3>1, <3>2
  <2>3. ASSUME NEW j \in 1 .. 9 PROVE \E i \in 1 .. 19 : e[i][2] = a[j][2]
    <3>1. 10 + j \in 1 .. 19 /\ e[10 + j] = a[j]
      BY <1>9
    <3>. QED  BY <3>1
  <2> DEFINE codes  == {e[i][2] : i \in 1 .. 19}
             others == {a[i][2] : i \in 1 .. 9}
  <2>4. \A code \in codes : code \in (Key \ {"mode"}) \cup others
    BY <2>1
  <2>5. \A code \in Key \ {"mode"} : code \in codes
    BY <2>2
  <2>6. \A code \in others : code \in codes
    BY <2>3
  <2> HIDE DEF codes, others
  <2>7. codes = (Key \ {"mode"}) \cup others
    BY <2>4, <2>5, <2>6
  <2>. QED  BY <2>7 DEF codes, others
<1>13. (Key \ {"mode"}) \cup (DOMAIN Axis \cup {"syn"}) = (Key \ {"mode"}) \cup DOMAIN Axis \cup {"syn"}
  OBVIOUS
<1>. QED  BY <1>2, <1>9, <1>11, <1>12, <1>13 DEF e

LEMMA GuideEventsAre == \A pressed \in BOOLEAN : RightEvents(GuideEvents(pressed))
<1> SUFFICES ASSUME NEW pressed \in BOOLEAN PROVE RightEvents(GuideEvents(pressed))
  OBVIOUS
<1> DEFINE g == GuideEvents(pressed)
<1>1. Len(g) = 2 /\ g[1] = KeyEvent("mode", pressed) /\ g[2] = Report
  BY DEF GuideEvents
<1>2. "mode" \in Key
  BY DEF Key
<1>3. Passed(g[1]) /\ g[1] # Report /\ Passed(g[2])
  BY <1>1, <1>2, KeyPassed, ReportPassed
<1> HIDE DEF g
<1>4. \A i \in 1 .. 2 : i = 1 \/ i = 2
  OBVIOUS
<1>. QED  BY <1>1, <1>3, <1>4 DEF RightEvents, g

LEMMA ArrivedInput ==
  ASSUME PlaceInv
  PROVE  arrived.input \in Input /\ arrived.pressed \in BOOLEAN
<1>1. CASE arrived \in Transfers
  BY <1>1, Arrived
<1>2. CASE arrived = Nothing
  <2>1. Nothing.input = Released /\ Nothing.pressed = FALSE
    BY DEF Nothing
  <2>2. Released \in Input
    <3>1. 0 \in Stick /\ 0 \in Trigger
      BY DEF Stick, Trigger, StickMinimum, StickMaximum
    <3>. QED  BY <3>1 DEF Released, Input
  <2>. QED  BY <1>2, <2>1, <2>2
<1>. QED  BY <1>1, <1>2 DEF PlaceInv

\* A transfer that is taken for anything but an input packet gives no inputs.
LEMMA PlayedOnce ==
  ASSUME PlayedInv, PlaceInv', UNCHANGED <<arrived, emitted>>, heard = <<>>, emitted = <<>>,
         NEW as, NEW messages, NEW seen, Take(as, messages, seen), as # <<"input">>
  PROVE  PlayedInv'
<1>1. pc' = "write" /\ heard' = <<as>>
  BY DEF Take
<1>2. heard'[Len(heard')] # <<"input">>
  BY <1>1
<1>. QED  BY <1>1, <1>2 DEF PlayedInv

LEMMA PlayedNothing ==
  ASSUME PlayedInv, PlaceInv', UNCHANGED <<arrived, emitted, heard>>,
         pc \notin {"write", "returned"}, pc # "dispatch", pc' # "dispatch"
  PROVE  PlayedInv'
BY DEF PlayedInv, PlaceInv

LEMMA PlayedStep ==
  ASSUME PlayedInv, [Next]_vars
  PROVE  PlayedInv'
<1>1. PlaceInv' /\ PlaceInv
  BY PlaceStep DEF PlayedInv
<1>2. CASE Receive
  BY <1>1, <1>2 DEF Receive, PlayedInv
<1>3. CASE Loop
  BY <1>1, <1>3 DEF Loop, PlayedInv
<1>4. CASE WriteUnasked \/ WriteNext \/ Written
  BY <1>1, <1>4 DEF WriteUnasked, WriteNext, Written, PlayedInv
<1>5. CASE Bulk
  <2>1. pc = "bulk" /\ heard = <<>> /\ emitted = <<>> /\ UNCHANGED <<arrived, emitted>>
    BY <1>5, BulkCases DEF PlayedInv
  <2>2. CASE UNCHANGED heard /\ pc' # "dispatch"
    BY <1>1, <2>1, <2>2, PlayedNothing
  <2>3. <<"button">> # <<"input">> /\ <<"disconnect", arrived.wcid>> # <<"input">>
    OBVIOUS
  <2>4. CASE HasPacket(window) /\ arrived.port = "cpu" /\ arrived.event = "button"
    BY <1>1, <1>5, <2>1, <2>3, <2>4, BulkCases, PlayedOnce
  <2>5. CASE HasPacket(window) /\ arrived.port = "cpu" /\ arrived.event = "lost" /\ Valid(arrived.wcid)
    BY <1>1, <1>5, <2>1, <2>3, <2>5, BulkCases, PlayedOnce
  <2>. QED  BY <1>5, <2>2, <2>4, <2>5, BulkCases DEF Return, Call
<1>6. CASE Wlan
  <2>1. pc = "wlan" /\ heard = <<>> /\ emitted = <<>> /\ UNCHANGED <<arrived, emitted>>
    BY <1>6, WlanCases DEF PlayedInv
  <2>2. CASE UNCHANGED heard /\ pc' # "dispatch"
    BY <1>1, <2>1, <2>2, PlayedNothing
  <2>3. /\ <<"connect">> # <<"input">> /\ <<"disconnect", arrived.wcid>> # <<"input">>
        /\ <<"pair">> # <<"input">>
    OBVIOUS
  <2>4. CASE Longer /\ arrived.type = "associate"
    BY <1>1, <1>6, <2>1, <2>3, <2>4, WlanCases, PlayedOnce
  <2>5. CASE Longer /\ arrived.type = "disassociate" /\ Valid(arrived.wcid)
    BY <1>1, <1>6, <2>1, <2>3, <2>5, WlanCases, PlayedOnce
  <2>6. CASE Longer /\ arrived.type = "reserved" /\ arrived.pairs /\ Len(Inner) >= 2
    BY <1>1, <1>6, <2>1, <2>3, <2>6, WlanCases, PlayedOnce
  <2>. QED  BY <1>6, <2>2, <2>4, <2>5, <2>6, WlanCases DEF Return, Call
<1>7. CASE ControllerPacket
  BY <1>1, <1>7, PlayedNothing DEF ControllerPacket, Call, Return
<1>8. CASE HandlePacket
  <2>1. pc = "gip" /\ heard = <<>> /\ emitted = <<>> /\ UNCHANGED <<arrived, emitted>>
    BY <1>8 DEF HandlePacket, PlayedInv
  <2>2. heard' \in {<<>>, <<<<"acknowledge">>>>} /\ pc' \in {"dispatch", "returned"}
    BY <1>8, <2>1 DEF HandlePacket, Call, Return
  <2>3. heard' # <<>> => heard'[Len(heard')] = <<"acknowledge">>
    BY <2>2
  <2>4. <<"acknowledge">> # <<"input">>
    OBVIOUS
  <2>. QED  BY <1>1, <2>1, <2>2, <2>3, <2>4 DEF PlayedInv
<1>9. CASE Dispatch
  <2>1. /\ pc = "dispatch" /\ heard \in {<<>>, <<<<"acknowledge">>>>} /\ emitted = <<>>
        /\ UNCHANGED arrived
    BY <1>9, DispatchCases DEF PlayedInv
  <2>2. CASE emitted' = DeviceEvents(arrived.command) /\ heard' = Append(heard, <<arrived.command>>)
             /\ pc' = "write"
    <3>1. heard'[Len(heard')] = <<arrived.command>>
      BY <2>1, <2>2
    <3>2. <<arrived.command>> = <<"input">> => arrived.command = "input"
      OBVIOUS
    <3>3. /\ emitted' \in {<<>>, InputEvents(arrived.input), GuideEvents(arrived.pressed)}
          /\ arrived.command = "input" => emitted' = InputEvents(arrived.input)
      BY <2>2 DEF DeviceEvents
    <3>. QED  BY <1>1, <2>1, <2>2, <3>1, <3>2, <3>3 DEF PlayedInv
  <2>3. CASE Return /\ UNCHANGED emitted
    <3>1. heard' # <<>> => heard'[Len(heard')] = <<"acknowledge">>
      BY <2>1, <2>3 DEF Return
    <3>2. <<"acknowledge">> # <<"input">> /\ pc' = "returned"
      BY <2>3 DEF Return
    <3>. QED  BY <1>1, <2>1, <2>3, <3>1, <3>2 DEF PlayedInv
  <2>. QED  BY <1>9, <2>2, <2>3, DispatchCases DEF Take
<1>10. CASE UNCHANGED vars
  BY <1>1, <1>10 DEF PlayedInv, vars
<1>. QED  BY <1>2, <1>3, <1>4, <1>5, <1>6, <1>7, <1>8, <1>9, <1>10 DEF Next

\* For every state of a gamepad that a packet can tell of: the input device is given events
\* of its keys and axes only, within their ranges, each key and axis once it is told of any,
\* and the report last.
THEOREM EventsArePassed == Spec => []EventsPassed
<1>1. Init => PlayedInv
  BY PlaceInit DEF PlayedInv, Init
<1>2. PlayedInv /\ [Next]_vars => PlayedInv'
  BY PlayedStep
<1>3. PlayedInv => EventsPassed
  <2> SUFFICES ASSUME PlayedInv PROVE EventsPassed
    OBVIOUS
  <2>1. arrived.input \in Input /\ arrived.pressed \in BOOLEAN
    BY ArrivedInput DEF PlayedInv
  <2>2. RightEvents(emitted)
    <3>1. RightEvents(<<>>)
      BY DEF RightEvents
    <3>. QED  BY <2>1, <3>1, InputEventsAre, GuideEventsAre DEF PlayedInv
  <2>3. ASSUME heard # <<>>, heard[Len(heard)] = <<"input">>
        PROVE  {emitted[i][2] : i \in 1 .. Len(emitted)} = (Key \ {"mode"}) \cup DOMAIN Axis \cup {"syn"}
    <3>1. emitted = InputEvents(arrived.input)
      BY <2>3 DEF PlayedInv
    <3>. QED  BY <2>1, <3>1, InputEventsAre, Zenon
  <2>. QED  BY <2>2, <2>3 DEF EventsPassed, RightEvents
<1>. QED  BY <1>1, <1>2, <1>3, PTL DEF Spec
====
