----------------------------- MODULE MCChannels -----------------------------
(* Channels for TLC.  The contents of the EFUSE differ from one that is       *)
(* plausible in the power tables, which then all have the same target and     *)
(* the same offsets, or in the trim values, or in the address.                *)
EXTENDS Channels

Tables  == {86} \cup {98 + 5 * group : group \in 0 .. 5}
TargetBytes == {start + 2 : start \in Tables}
OffsetBytes == {start + 2 + k : start \in Tables, k \in 1 .. 3} \ TargetBytes

Content(target, shift, trim2, sign, trim1, address) ==
  [a \in Address |-> CASE a \in TargetBytes -> target
                     [] a \in OffsetBytes -> shift
                     [] a = 158 -> sign
                     [] a = 159 -> trim2
                     [] a = 58  -> trim1
                     [] a \in 4 .. 9 -> address[a - 3]
                     [] OTHER -> 255]

Genuine == <<98, 69, 180, 17, 34, 51>>
Foreign == <<108, 93, 58, 17, 34, 51>>

\* Shifts are off, or on with either sign and the sizes 1 and 63.
SomeShifts == {0, 127, 129, 191, 193, 255}
Powers(targets) == {Content(t, o, 30, 0, 40, Genuine) : t \in targets, o \in SomeShifts}

\* Trim values that are there, empty, or have their eighth bit set.
Trims(signs) ==
  {Content(20, 0, second, sign, first, Foreign) :
     second \in {0, 30, 160, 255}, sign \in signs, first \in {0, 40, 255}}

\* Targets within the limits, and the one from which the sum would overflow.
ValidContents == Powers({0, 20, 47, 64}) \cup Trims({7, 135, 170, 255})

AnyContents == Powers({47, 48, 255}) \cup Trims({127, 254})
=============================================================================
