------------------------------- MODULE Rumble -------------------------------
(***************************************************************************)
(* How an effect that a game plays becomes a rumble request: the events    *)
(* that InputDevice::handleEvent() reads from /dev/uinput, one after the   *)
(* other, and the arithmetic of Controller::inputFeedbackReceived().       *)
(* What becomes of the request is in Controller.tla.                       *)
(***************************************************************************)
EXTENDS Naturals, Sequences

CONSTANTS
  WordMax,    \* the largest 16-bit value: gains and magnitudes
  ByteMax,    \* the largest 8-bit value
  MaxPower,   \* RUMBLE_MAX_POWER
  ShareMax,   \* the sine and the cosine are given in ShareMax-ths
  Magnitudes, \* the magnitudes of the effects that games upload
  Gains,      \* the gains they set
  Times,      \* the lengths and delays of effects, in ms
  Counts,     \* how often they play an effect; 0 stops it
  Faults,     \* which requests to the kernel fail: "begin", "end"
  MaxEvents   \* bound: how many events the games cause

ASSUME RumbleAssumption ==
  /\ WordMax \in Nat \ {0}
  /\ ByteMax \in Nat \ {0}
  /\ MaxPower \in 0 .. ByteMax
  /\ ShareMax \in Nat \ {0}
  /\ Magnitudes \subseteq 0 .. WordMax
  /\ Gains \subseteq 0 .. WordMax
  /\ Times \subseteq Nat
  /\ Counts \subseteq Nat
  /\ MaxEvents \in Nat

\* ff_effect: what is left of it once another type than FF_RUMBLE is ignored.
\* "upper" says that its direction is in the upper half.
Effect == [type : {"rumble"}, strong : Magnitudes, weak : Magnitudes,
           length : Times, delay : Times, upper : BOOLEAN]

\* InputDevice::effect = {}
NoEffect == [type |-> "none", strong |-> 0, weak |-> 0, length |-> 0, delay |-> 0,
             upper |-> FALSE]

VARIABLES
  events,   \* what /dev/uinput has to deliver, in order
  effect,   \* InputDevice::effect
  gain,     \* InputDevice::effectGain
  game,     \* the effect that the kernel has accepted from the games
  gameGain, \* the gain they have set
  asked,    \* what they asked for with the last play that was handled
  request,  \* the RumbleData that was put into the buffer last
  endFailed,\* history: the end of an upload or an erasure has failed
  count     \* how many events there were

vars == <<events, effect, gain, game, gameGain, asked, request, endFailed, count>>

-----------------------------------------------------------------------------
(* Mutated forms of the definitions that follow                            *)

\* The limit of the motors is that of a byte.
PowerOfByte(magnitude, g) == (((magnitude * g) \div WordMax) * ByteMax) \div WordMax

\* A duration that is out of range is cut off to a byte.
DurationTruncated(length) == (length \div 10) % (ByteMax + 1)

\* A play with the value zero does not stop the effect.
StopsForGainOnly(replayCount) == gain = 0

\* FF_GAIN is not handled.
TakeGainNever == UNCHANGED gain

-----------------------------------------------------------------------------
(* inputFeedbackReceived()                                                 *)

\* static_cast<uint32_t>(magnitude) * gain / 0xffff
Scaled(magnitude, g) == (magnitude * g) \div WordMax

\* weak * RUMBLE_MAX_POWER / 0xffff
Power(magnitude, g) == (Scaled(magnitude, g) * MaxPower) \div WordMax

\* Multiples of 10 ms in a byte; "not specified" and "out of range" are the
\* maximum.
Duration(length) ==
  LET tens == length \div 10 IN IF tens = 0 \/ tens > ByteMax THEN ByteMax ELSE tens

Delay(delay) == LET tens == delay \div 10 IN IF tens > ByteMax THEN ByteMax ELSE tens

\* left * maxPower / 2, with the sine or cosine as share / ShareMax
Trigger(share, maxPower) == (share * maxPower) \div (2 * ShareMax)

Larger(x, y) == IF x > y THEN x ELSE y

\* RumbleData rumble = {}, with all motors set
Quiet == [left |-> 0, right |-> 0, leftTrigger |-> 0, rightTrigger |-> 0,
          duration |-> 0, delay |-> 0, repeat |-> 0]

\* The request for effect e; the trigger motors run for directions in the upper
\* half only.
Loud(e, g, replayCount, leftShare, rightShare) ==
  LET left  == Power(e.strong, g)
      right == Power(e.weak, g)
      trigger(share) == IF e.upper THEN Trigger(share, Larger(left, right)) ELSE 0
  IN  [left |-> left, right |-> right,
       leftTrigger |-> trigger(leftShare), rightTrigger |-> trigger(rightShare),
       duration |-> Duration(e.length), delay |-> Delay(e.delay),
       repeat |-> replayCount - 1]

\* replayCount == 0 || gain == 0
Stops(replayCount) == replayCount = 0 \/ gain = 0

\* replayCount is a byte of the value of the event.
Feedback(value) ==
  LET replayCount == value % (ByteMax + 1)
  IN  IF effect.type # "rumble"
      THEN UNCHANGED request
      ELSE IF Stops(replayCount)
      THEN request' = Quiet
      ELSE \E leftShare, rightShare \in 0 .. ShareMax :
             request' = Loud(effect, gain, replayCount, leftShare, rightShare)

-----------------------------------------------------------------------------
(* handleEvent()                                                           *)

Init ==
  /\ events = <<>>
  /\ effect = NoEffect
  /\ gain = WordMax
  /\ game = NoEffect
  /\ gameGain = WordMax
  /\ asked = [value |-> 0, effect |-> NoEffect, gain |-> 0]
  /\ request = Quiet
  /\ endFailed = FALSE
  /\ count = 0

\* UI_END_FF_UPLOAD or UI_END_FF_ERASE fails: the game is told of an error.
EndFails == "end" \in Faults /\ endFailed' = TRUE /\ UNCHANGED game

\* The event that is read next.
Reads(kind) ==
  /\ events # <<>>
  /\ Head(events).kind = kind
  /\ events' = Tail(events)

\* EV_UINPUT, UI_FF_UPLOAD: handleFeedbackUpload().  The kernel keeps the effect
\* when the request ends well; a failure is only logged.
Upload ==
  /\ Reads("upload")
  /\ \/ /\ effect' = Head(events).effect
        /\ game' = Head(events).effect
        /\ UNCHANGED endFailed
     \/ "begin" \in Faults /\ UNCHANGED <<effect, game, endFailed>>
     \/ EndFails /\ effect' = Head(events).effect
  /\ UNCHANGED <<gain, gameGain, asked, request, count>>

Erased == effect' = NoEffect /\ game' = NoEffect /\ UNCHANGED endFailed

\* EV_UINPUT, UI_FF_ERASE: handleFeedbackErase()
Erase ==
  /\ Reads("erase")
  /\ \/ Erased
     \/ "begin" \in Faults /\ UNCHANGED <<effect, game, endFailed>>
     \/ EndFails /\ effect' = NoEffect
  /\ UNCHANGED <<gain, gameGain, asked, request, count>>

\* effectGain = event.value
TakeGain == gain' = Head(events).gain

\* EV_FF, FF_GAIN
Gain ==
  /\ Reads("gain")
  /\ TakeGain
  /\ UNCHANGED <<effect, game, gameGain, asked, request, endFailed, count>>

\* EV_FF with the id of the one effect there is
Play ==
  /\ Reads("play")
  /\ asked' = [value |-> Head(events).value, effect |-> Head(events).effect,
               gain |-> Head(events).gain]
  /\ Feedback(Head(events).value)
  /\ UNCHANGED <<effect, gain, game, gameGain, endFailed, count>>

-----------------------------------------------------------------------------
(* The games and the kernel: external                                      *)

\* A request of a game waits until it has been handled; meanwhile the kernel
\* lets nobody upload, erase or play.
Free == \A i \in DOMAIN events : events[i].kind \notin {"upload", "erase"}

Event(more) == events' = events \o more /\ count' = count + 1

UploadEffect ==
  /\ Free
  /\ \E e \in Effect : Event(<<[kind |-> "upload", effect |-> e]>>)
  /\ UNCHANGED gameGain

\* An effect is stopped before it is erased.
Playing(value) ==
  [kind |-> "play", value |-> value, effect |-> game, gain |-> gameGain]

EraseEffect ==
  /\ Free
  /\ game # NoEffect
  /\ Event(<<Playing(0), [kind |-> "erase"]>>)
  /\ UNCHANGED gameGain

SetGain ==
  /\ \E g \in Gains : gameGain' = g /\ Event(<<[kind |-> "gain", gain |-> g]>>)

PlayEffect ==
  /\ Free
  /\ game # NoEffect
  /\ \E value \in Counts : Event(<<Playing(value)>>)
  /\ UNCHANGED gameGain

Games ==
  /\ count < MaxEvents
  /\ UploadEffect \/ EraseEffect \/ SetGain \/ PlayEffect
  /\ UNCHANGED <<effect, gain, game, asked, request, endFailed>>

Next == Upload \/ Erase \/ Gain \/ Play \/ Games

Spec == Init /\ [][Next]_vars

-----------------------------------------------------------------------------
(* Properties                                                              *)

\* No request drives a motor beyond its limit, the trigger motors at most half
\* of that, for every gain and magnitude.
PowerInRange ==
  /\ request.left <= MaxPower /\ request.right <= MaxPower
  /\ 2 * request.leftTrigger <= MaxPower /\ 2 * request.rightTrigger <= MaxPower

\* The effect and the gain that a request is made of are those that were in
\* force when the game played it, whatever it uploads, erases or sets while the
\* event is on its way: an uploaded effect never overtakes a play.  (An upload
\* whose end fails leaves the device with an effect the game was refused.)
PassesEffect ==
  asked.effect.type = "rumble" /\ ~endFailed =>
    \/ request = Quiet /\ (asked.value % (ByteMax + 1) = 0 \/ asked.gain = 0)
    \/ /\ request.left = Power(asked.effect.strong, asked.gain)
       /\ request.right = Power(asked.effect.weak, asked.gain)
       /\ request.duration = Duration(asked.effect.length)

\* A duration that can be told in multiples of 10 ms is rounded down to one, one
\* that is too long becomes the longest there is; no delay gets longer.
TimesKept ==
  request # Quiet /\ ~endFailed =>
    LET length == asked.effect.length
    IN  /\ length \in 10 .. 10 * ByteMax + 9 =>
             length - request.duration * 10 \in 0 .. 9
        /\ length > 10 * ByteMax + 9 => request.duration = ByteMax
        /\ request.delay * 10 <= asked.effect.delay

\* A duration that is specified and in range is not exceeded.  The code does not
\* have this property: one to nine milliseconds become the maximum.
DurationKept ==
  /\ asked.effect.length \in 1 .. 10 * ByteMax
  /\ request # Quiet
  => request.duration * 10 <= asked.effect.length

\* What is played is not a stop.  The code does not have this property: only a
\* byte of the number of repetitions is looked at.
PlayedIsNotStopped ==
  asked.value > 0 /\ asked.gain > 0 /\ asked.effect.type = "rumble" => request # Quiet

\* A gamepad rumbles no more when its effect was erased: a stop came first.
ErasedIsQuiet == game = NoEffect /\ events = <<>> => request = Quiet
=============================================================================
