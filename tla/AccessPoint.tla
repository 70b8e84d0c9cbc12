---------------------------- MODULE AccessPoint ----------------------------
(***************************************************************************)
(* What the dongle promises of its slots, one for each gamepad: a slot is  *)
(* free, reserved while a gamepad comes or goes, or holds a gamepad.       *)
(* Gamepads come and go one at a time, the first free slot is taken, and   *)
(* when the driver ends no gamepad is left in a slot.  Only a failure can  *)
(* leave a slot reserved for nobody.  Dongle is shown to implement this.   *)
(***************************************************************************)
EXTENDS Naturals

CONSTANTS
  SlotCount,  \* how many slots there are
  Gamepad,    \* the gamepads
  Free,       \* no gamepad, and none is coming
  Reserved    \* a gamepad is coming or going

VARIABLES
  slots,   \* what is in each slot
  faulty,  \* something has failed
  phase    \* "up", "closing" or "closed"

vars == <<slots, faulty, phase>>

Slot == 1 .. SlotCount

Init ==
  /\ slots = [w \in Slot |-> Free]
  /\ faulty = FALSE
  /\ phase = "up"

\* Nobody else comes or goes, unless a failure has left a slot behind.
Undisturbed == faulty \/ \A w \in Slot : slots[w] # Reserved

FirstFree(w) == slots[w] = Free /\ \A v \in Slot : v < w => slots[v] # Free

Becomes(w, content) == slots' = [slots EXCEPT ![w] = content]

\* A failure may come with a step.
MayFail == faulty' \in {faulty, TRUE}

\* A gamepad is about to come.
Reserve(w) ==
  /\ phase = "up"
  /\ Undisturbed
  /\ FirstFree(w)
  /\ Becomes(w, Reserved)
  /\ UNCHANGED <<faulty, phase>>

Admit(w) ==
  /\ phase = "up"
  /\ slots[w] = Reserved
  /\ \E a \in Gamepad : Becomes(w, a)
  /\ UNCHANGED <<faulty, phase>>

\* A gamepad is powered off; it is told so, or that fails.
Dismiss(w) ==
  /\ \/ phase = "up" /\ Undisturbed
     \/ phase = "closing"
  /\ slots[w] \in Gamepad
  /\ Becomes(w, Reserved)
  /\ MayFail
  /\ UNCHANGED phase

Release(w) ==
  /\ phase = "up"
  /\ slots[w] = Reserved
  /\ Becomes(w, Free)
  /\ MayFail
  /\ UNCHANGED phase

\* The driver ends: nobody comes or goes any more but who it powers off.
Close ==
  /\ phase = "up"
  /\ Undisturbed
  /\ phase' = "closing"
  /\ UNCHANGED <<slots, faulty>>

End ==
  /\ phase = "closing"
  /\ \A w \in Slot : slots[w] \notin Gamepad
  /\ phase' = "closed"
  /\ UNCHANGED <<slots, faulty>>

\* Something fails, or the process dies.
Fail  == faulty' = TRUE /\ UNCHANGED <<slots, phase>>
Crash == phase = "up" /\ phase' = "closed" /\ faulty' = TRUE /\ UNCHANGED slots

Next ==
  \/ \E w \in Slot : Reserve(w) \/ Admit(w) \/ Dismiss(w) \/ Release(w)
  \/ Close \/ End \/ Fail \/ Crash

Spec == Init /\ [][Next]_vars

\* A slot does not stay reserved: the gamepad is admitted or the slot is free
\* again, unless something fails or the driver ends.
Settled ==
  \A w \in Slot :
    slots[w] = Reserved ~> slots[w] # Reserved \/ faulty \/ phase # "up"
=============================================================================
