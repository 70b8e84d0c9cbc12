------------------------------- MODULE Inputs -------------------------------
(***************************************************************************)
(* What a Controller tells the input device about the state of a gamepad   *)
(* (src/controller/controller.cpp), and what the device was set up for.    *)
(* Fuzz and flatness of the axes are left out.                             *)
(***************************************************************************)
EXTENDS Integers, Sequences

\* The keys and axes of initInput(), each axis with its range
Key == {"mode", "start", "select", "a", "b", "x", "y", "tl", "tr", "thumbl", "thumbr"}

StickMinimum == -32768
StickMaximum == 32767

Stick   == StickMinimum .. StickMaximum
Trigger == 0 .. 1023
Dpad    == -1 .. 1

Axis == [x |-> Stick, rx |-> Stick, y |-> Stick, ry |-> Stick,
         z |-> Trigger, rz |-> Trigger, hat0x |-> Dpad, hat0y |-> Dpad]

\* An input packet: the buttons that are pressed, and the positions.
Input == [pressed : SUBSET ((Key \ {"mode"}) \cup {"up", "down", "left", "right"}),
          x : Stick, y : Stick, rx : Stick, ry : Stick, z : Trigger, rz : Trigger]

Released == [pressed |-> {}, x |-> 0, y |-> 0, rx |-> 0, ry |-> 0, z |-> 0, rz |-> 0]

\* setKey() and setAxis()
KeyEvent(code, pressed) == <<"key", code, IF pressed THEN 1 ELSE 0>>
AxisEvent(code, value)  == <<"axis", code, value>>
Report == <<"report", "syn", 0>>

\* Mutated form: -y, which an int16_t of -32768 does not have
InvertedNegated(y) == -y

\* ~stickLeftY: gamepads and input devices disagree about up and down.
Inverted(y) == -y - 1

\* Of two opposite directions of the pad neither is reported.
Direction(input, plus, minus) ==
  (IF plus \in input.pressed THEN 1 ELSE 0) - (IF minus \in input.pressed THEN 1 ELSE 0)

\* The keys of inputReceived(), in order
InputKeys == <<"start", "select", "a", "b", "x", "y", "tl", "tr", "thumbl", "thumbr">>

\* inputReceived()
InputEvents(input) ==
  [i \in 1 .. Len(InputKeys) |-> KeyEvent(InputKeys[i], InputKeys[i] \in input.pressed)]
  \o <<AxisEvent("x", input.x), AxisEvent("rx", input.rx),
       AxisEvent("y", Inverted(input.y)), AxisEvent("ry", Inverted(input.ry)),
       AxisEvent("z", input.z), AxisEvent("rz", input.rz),
       AxisEvent("hat0x", Direction(input, "right", "left")),
       AxisEvent("hat0y", Direction(input, "down", "up")), Report>>

\* guideButtonPressed()
GuideEvents(pressed) == <<KeyEvent("mode", pressed), Report>>

\* An event that the kernel passes on: it is of a key or an axis that the device
\* was set up with, and in its range.
Passed(event) ==
  CASE event[1] = "key"    -> event[2] \in Key /\ event[3] \in {0, 1}
    [] event[1] = "axis"   -> event[2] \in DOMAIN Axis /\ event[3] \in Axis[event[2]]
    [] event[1] = "report" -> event = Report
=============================================================================
