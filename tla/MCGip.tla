------------------------------- MODULE MCGip -------------------------------
(* Gip for TLC: what arrives. *)
EXTENDS Gip

Acknowledged(asks) == IF asks THEN <<<<"acknowledge">>>> ELSE <<>>

\* What gamepads send; Elite controllers send larger inputs.
Genuine == UNION {Packet(p[1], 0, asks, p[2], Append(Acknowledged(asks), <<p[1]>>)) :
  asks \in BOOLEAN,
  p \in {<<"announce", 28>>, <<"status", 4>>, <<"guide", 2>>, <<"serial", 16>>,
         <<"input", 14>>, <<"input", 17>>, <<"input", 26>>}}

\* The positions at the ends of their ranges and next to the middle
SomeInputs ==
  {[Released EXCEPT !.pressed = p, !.x = s, !.y = s, !.rx = s, !.ry = -s - 1, !.z = t, !.rz = 1023 - t] :
     p \in {{}, {"a", "left"}, {"up", "down", "right"}, {"start", "tl", "thumbr", "down"}},
     s \in {-32768, -1, 0, 32767}, t \in {0, 1023}}

Playing ==
  {[packet EXCEPT !.input = i] : packet \in Packet("input", 0, FALSE, 14, <<<<"input">>>>), i \in SomeInputs}
  \cup {[packet EXCEPT !.pressed = TRUE] : packet \in Packet("guide", 0, TRUE, 2, <<<<"acknowledge">>, <<"guide">>>>)}

\* Packets of every other size, of an accessory or of an unknown command are at
\* most acknowledged.
OtherSizes == {<<command, 0, size>> : command \in {"announce", "status", "guide", "serial"}, size \in 0 .. 30}
              \ {<<"announce", 0, 28>>, <<"status", 0, 4>>, <<"guide", 0, 2>>, <<"serial", 0, 16>>}
ShortInputs == {<<"input", 0, size>> : size \in 0 .. 13}
Ignored == UNION {Packet(p[1], p[2], asks, p[3], Acknowledged(asks)) :
  asks \in BOOLEAN,
  p \in OtherSizes \cup ShortInputs
       \cup {<<"announce", 1, 28>>, <<"input", 2, 14>>, <<"other", 0, 0>>, <<"other", 0, 6>>}}

Body == Object("body", 10)

Frames ==
  Management("associate", FALSE, 255, Body, <<<<"connect">>>>)
  \cup UNION {Management("disassociate", FALSE, w, Body, <<<<"disconnect", w>>>>) : w \in {1, WcidCount}}
  \cup UNION {Management("disassociate", FALSE, w, Body, <<>>) : w \in {0, WcidCount + 1}}
  \cup Management("reserved", TRUE, 255, ReservedFrame \o Body, <<<<"pair">>>>)
  \cup Management("reserved", FALSE, 255, ReservedFrame \o Body, <<>>)

Events ==
  {Event("button", 0, <<<<"button">>>>), Event("other", 0, <<>>),
   Event("lost", 2, <<<<"disconnect", 2>>>>), Event("lost", WcidCount + 1, <<>>)}

\* Frames that are for somebody else, or no 802.11 frames
Strange == UNION {{[t EXCEPT !.destination = "other", !.means = <<>>],
                   [t EXCEPT !.port = "wlan", !.is80211 = FALSE, !.means = <<>>]} :
                  t \in Frames \cup Genuine}

Whole == Genuine \cup Playing \cup Ignored \cup Frames \cup Events \cup Strange

\* Transfers of every size.
Parts == {Cut(t, size) : t \in Events, size \in 0 .. 11} \cup
         UNION {{Cut(t, size) : size \in 0 .. Len(t.bytes) - 1} :
                t \in {p \in Genuine : p.command \in {"announce", "guide"} /\ p.asks}
                     \cup {p \in Frames : p.pairs}}

Arriving == Whole \cup Parts
=============================================================================
