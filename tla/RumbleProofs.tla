---------------------------- MODULE RumbleProofs ----------------------------
(***************************************************************************)
(* For queues of any length, any magnitudes and any gains: requests are in *)
(* range and made of what was in force when the game played, and an effect *)
(* that is erased is silent.                                               *)
(***************************************************************************)
EXTENDS Rumble, TLAPS

-----------------------------------------------------------------------------
(* Arithmetic                                                              *)

LEMMA Quotient ==
  ASSUME NEW a \in Nat, NEW b \in Nat \ {0}
  PROVE  a \div b \in Nat /\ (a \div b) * b <= a
BY Z3

LEMMA Monotone ==
  ASSUME NEW x \in Nat, NEW y \in Nat, NEW b \in Nat, x <= y
  PROVE  x * b <= y * b /\ x * b \in Nat /\ y * b \in Nat
BY Z3

LEMMA Cancel ==
  ASSUME NEW x \in Nat, NEW y \in Nat, NEW b \in Nat \ {0}, x * b <= y * b
  PROVE  x <= y
<1>1. CASE x > y
  <2>1. (y + 1) * b <= x * b
    BY <1>1, Monotone
  <2>2. (y + 1) * b = y * b + b
    OBVIOUS
  <2>. QED  BY <2>1, <2>2
<1>. QED  BY <1>1

\* A product that is divided by a bound of one factor is within the other one.
LEMMA Share ==
  ASSUME NEW x \in Nat, NEW y \in Nat, NEW b \in Nat \ {0}, x <= b
  PROVE  (x * y) \div b \in 0 .. y
<1>1. x * y <= b * y /\ x * y \in Nat
  BY Monotone
<1>2. (x * y) \div b \in Nat /\ ((x * y) \div b) * b <= x * y
  BY <1>1, Quotient
<1>3. ((x * y) \div b) * b <= y * b
  <2>1. b * y = y * b
    OBVIOUS
  <2>. QED  BY <1>1, <1>2, <2>1
<1>4. (x * y) \div b <= y
  BY <1>2, <1>3, Cancel
<1>. QED  BY <1>2, <1>4

LEMMA ScaledInRange ==
  ASSUME NEW m \in 0 .. WordMax, NEW g \in 0 .. WordMax
  PROVE  Scaled(m, g) \in 0 .. WordMax
<1>1. (m * g) \div WordMax \in 0 .. g
  BY Share, RumbleAssumption
<1>. QED  BY <1>1, RumbleAssumption DEF Scaled

LEMMA PowerIsInRange ==
  ASSUME NEW m \in 0 .. WordMax, NEW g \in 0 .. WordMax
  PROVE  Power(m, g) \in 0 .. MaxPower
<1>1. Scaled(m, g) \in 0 .. WordMax
  BY ScaledInRange
<1>2. MaxPower \in Nat /\ WordMax \in Nat \ {0}
  BY RumbleAssumption
<1>. QED  BY <1>1, <1>2, Share DEF Power

LEMMA TriggerInRange ==
  ASSUME NEW s \in 0 .. ShareMax, NEW p \in 0 .. MaxPower
  PROVE  Trigger(s, p) \in Nat /\ 2 * Trigger(s, p) <= MaxPower
<1>1. ShareMax \in Nat \ {0} /\ MaxPower \in Nat /\ s \in Nat /\ p \in Nat /\ p <= MaxPower
  BY RumbleAssumption
<1>2. s * p <= ShareMax * p /\ s * p \in Nat
  BY <1>1, Monotone
<1>3. p * ShareMax <= MaxPower * ShareMax
  BY <1>1, Monotone
<1>4. 2 * ShareMax \in Nat \ {0}
  BY <1>1
<1>5. Trigger(s, p) \in Nat /\ Trigger(s, p) * (2 * ShareMax) <= s * p
  BY <1>2, <1>4, Quotient DEF Trigger
<1>6. ShareMax * p = p * ShareMax
  BY <1>1
<1>7. (2 * Trigger(s, p)) * ShareMax = Trigger(s, p) * (2 * ShareMax)
  BY <1>1, <1>5
<1>8. (2 * Trigger(s, p)) * ShareMax <= MaxPower * ShareMax
  <2>1. \A u, v, w, x \in Nat : u <= v /\ v <= w /\ w <= x => u <= x
    OBVIOUS
  <2>2. /\ MaxPower * ShareMax \in Nat /\ p * ShareMax \in Nat
        /\ Trigger(s, p) * (2 * ShareMax) \in Nat
    BY <1>1, <1>4, <1>5, Monotone
  <2>. HIDE DEF Trigger
  <2>. QED  BY <1>2, <1>3, <1>5, <1>6, <1>7, <2>1, <2>2
<1>9. 2 * Trigger(s, p) \in Nat
  BY <1>5
<1>. QED  BY <1>1, <1>5, <1>8, <1>9, Cancel

-----------------------------------------------------------------------------
(* The queue                                                               *)

AnyEffect == Effect \cup {NoEffect}

QueuedEvent ==
  [kind : {"upload"}, effect : Effect] \cup [kind : {"erase"}]
  \cup [kind : {"gain"}, gain : 0 .. WordMax]
  \cup [kind : {"play"}, value : Nat, effect : Effect, gain : 0 .. WordMax]

TypeOK ==
  /\ events \in Seq(QueuedEvent)
  /\ effect \in AnyEffect /\ game \in AnyEffect
  /\ gain \in 0 .. WordMax /\ gameGain \in 0 .. WordMax

\* The gain in force when event i of queue q is handled is g, if it is now when the
\* first one is: that of the last change before i, or the present one.
GainAt(q, now, i, g) ==
  \/ now = g /\ \A k \in 1 .. i - 1 : q[k].kind # "gain"
  \/ \E j \in 1 .. i - 1 :
       /\ q[j].kind = "gain" /\ q[j].gain = g
       /\ \A k \in j + 1 .. i - 1 : q[k].kind # "gain"

GainInv ==
  /\ \A i \in 1 .. Len(events) :
       events[i].kind = "play" => GainAt(events, gain, i, events[i].gain)
  /\ GainAt(events, gain, Len(events) + 1, gameGain)

Requests == {i \in 1 .. Len(events) : events[i].kind \in {"upload", "erase"}}
Plays    == {i \in 1 .. Len(events) : events[i].kind = "play"}

\* Nothing is played behind an upload or an erasure that waits, so what is played
\* is the effect the device has; and an erasure waits right behind a stop.
EffectInv ==
  /\ \A i \in Plays : events[i].effect = game
  /\ \A i \in Requests, j \in Plays : j < i
  /\ \A i, j \in Requests : i = j
  /\ game = NoEffect => Plays = {} /\ request = Quiet
  /\ \A i \in 1 .. Len(events) : events[i].kind = "erase" =>
       \/ i = 1 /\ request = Quiet
       \/ i > 1 /\ events[i - 1].kind = "play" /\ events[i - 1].value = 0
  /\ ~endFailed => effect = game
  /\ effect = NoEffect => request = Quiet

\* The request is that of the last play.
RequestInv ==
  /\ PowerInRange
  /\ PassesEffect
  /\ request # Quiet /\ ~endFailed =>
       /\ asked.effect \in Effect
       /\ request.duration = Duration(asked.effect.length)
       /\ request.delay = Delay(asked.effect.delay)

IInv == TypeOK /\ GainInv /\ EffectInv /\ RequestInv

LEMMA TailIs ==
  ASSUME TypeOK, events # <<>>, events' = Tail(events)
  PROVE  /\ events' \in Seq(QueuedEvent)
         /\ Len(events) \in Nat \ {0}
         /\ Len(events') = Len(events) - 1
         /\ \A i \in 1 .. Len(events') : i + 1 \in 1 .. Len(events) /\ events'[i] = events[i + 1]
         /\ Head(events) = events[1] /\ events[1] \in QueuedEvent
BY DEF TypeOK

LEMMA QuietIs ==
  /\ Quiet.left = 0 /\ Quiet.right = 0 /\ Quiet.leftTrigger = 0 /\ Quiet.rightTrigger = 0
BY DEF Quiet

LEMMA InvInit == Init => IInv
<1> SUFFICES ASSUME Init PROVE IInv
  OBVIOUS
<1>1. events = <<>> /\ Len(events) = 0
  BY DEF Init
<1>2. TypeOK
  BY RumbleAssumption DEF Init, TypeOK, AnyEffect
<1>3. GainInv
  BY <1>1 DEF Init, GainInv, GainAt
<1>4. EffectInv
  BY <1>1 DEF Init, EffectInv, Plays, Requests
<1>5. RequestInv
  <2>1. NoEffect.type # "rumble"
    BY DEF NoEffect
  <2>. QED  BY <2>1, QuietIs, RumbleAssumption DEF Init, RequestInv, PowerInRange, PassesEffect
<1>. QED  BY <1>2, <1>3, <1>4, <1>5 DEF IInv

-----------------------------------------------------------------------------
(* The device takes an event                                               *)

\* What the gain will be does not change while the events before are handled.
LEMMA ShiftedGain ==
  ASSUME TypeOK, events # <<>>, events' = Tail(events),
         gain' = IF events[1].kind = "gain" THEN events[1].gain ELSE gain,
         NEW i \in 1 .. Len(events), NEW g, GainAt(events, gain, i + 1, g)
  PROVE  GainAt(events', gain', i, g)
<1>1. /\ Len(events) \in Nat \ {0}
      /\ \A k \in 1 .. Len(events) - 1 : k + 1 \in 1 .. Len(events) /\ events'[k] = events[k + 1]
  BY TailIs
<1>2. CASE gain = g /\ \A k \in 1 .. i : events[k].kind # "gain"
  <2>1. gain' = g
    BY <1>1, <1>2
  <2>2. \A k \in 1 .. i - 1 : events'[k].kind # "gain"
    BY <1>1, <1>2
  <2>. QED  BY <2>1, <2>2 DEF GainAt
<1>3. ASSUME NEW j \in 1 .. i, events[j].kind = "gain", events[j].gain = g,
             \A k \in j + 1 .. i : events[k].kind # "gain"
      PROVE  GainAt(events', gain', i, g)
  <2>1. \A k \in j .. i - 1 : k \in Nat /\ k # 0 => events'[k].kind # "gain"
    BY <1>1, <1>3
  <2>2. CASE j = 1
    <3>1. gain' = g
      BY <1>3, <2>2
    <3>. QED  BY <2>1, <2>2, <3>1 DEF GainAt
  <2>3. CASE j > 1
    <3>1. j - 1 \in 1 .. i - 1 /\ events'[j - 1] = events[j]
      BY <1>1, <2>3
    <3>2. \A k \in (j - 1) + 1 .. i - 1 : events'[k].kind # "gain"
      BY <2>1, <2>3
    <3>. QED  BY <1>3, <3>1, <3>2 DEF GainAt
  <2>. QED  BY <2>2, <2>3
<1>. QED
  <2>1. (i + 1) - 1 = i
    OBVIOUS
  <2>. QED  BY <1>2, <1>3, <2>1 DEF GainAt

LEMMA TakenGain ==
  ASSUME TypeOK, GainInv, events # <<>>, events' = Tail(events), gameGain' = gameGain,
         gain' = IF events[1].kind = "gain" THEN events[1].gain ELSE gain
  PROVE  GainInv'
<1>1. /\ Len(events) \in Nat \ {0}
      /\ Len(events') = Len(events) - 1
      /\ \A i \in 1 .. Len(events') : i + 1 \in 1 .. Len(events) /\ events'[i] = events[i + 1]
  BY TailIs
<1>2. ASSUME NEW i \in 1 .. Len(events'), events'[i].kind = "play"
      PROVE  GainAt(events', gain', i, events'[i].gain)
  <2>1. i \in 1 .. Len(events) /\ GainAt(events, gain, i + 1, events'[i].gain)
    BY <1>1, <1>2 DEF GainInv
  <2>. QED  BY <2>1, ShiftedGain
<1>3. GainAt(events', gain', Len(events') + 1, gameGain')
  <2>1. GainAt(events, gain, Len(events) + 1, gameGain) /\ Len(events) \in 1 .. Len(events)
    BY <1>1 DEF GainInv
  <2>2. GainAt(events', gain', Len(events), gameGain)
    BY <2>1, ShiftedGain
  <2>3. Len(events') + 1 = Len(events)
    BY <1>1
  <2>. QED  BY <2>2, <2>3
<1>. QED  BY <1>2, <1>3 DEF GainInv

\* What is left in the queue behind the event that was read.
LEMMA TakenQueue ==
  ASSUME TypeOK, EffectInv, events # <<>>, events' = Tail(events)
  PROVE  /\ \A i \in Plays' : i + 1 \in Plays /\ events'[i] = events[i + 1]
         /\ \A i \in Requests', j \in Plays' : j < i
         /\ \A i, j \in Requests' : i = j
         /\ \A i \in 1 .. Len(events') : events'[i].kind = "erase" =>
              \/ i = 1 /\ events[1].kind = "play" /\ events[1].value = 0
              \/ i > 1 /\ events'[i - 1].kind = "play" /\ events'[i - 1].value = 0
         /\ events[1].kind \in {"upload", "erase"} => Plays' = {} /\ Requests' = {}
<1>1. /\ Len(events) \in Nat \ {0}
      /\ Len(events') = Len(events) - 1
      /\ \A i \in 1 .. Len(events') : i + 1 \in 1 .. Len(events) /\ events'[i] = events[i + 1]
  BY TailIs
<1>2. \A i \in Plays' : i \in Nat /\ i + 1 \in Plays /\ events'[i] = events[i + 1]
  BY <1>1 DEF Plays
<1>3. \A i \in Requests' : i \in Nat /\ i + 1 \in Requests
  BY <1>1 DEF Requests
<1>4. \A i \in Requests', j \in Plays' : j < i
  <2> TAKE i \in Requests', j \in Plays'
  <2>1. j + 1 < i + 1
    BY <1>2, <1>3 DEF EffectInv
  <2>. QED  BY <1>2, <1>3, <2>1
<1>5. \A i, j \in Requests' : i = j
  <2> TAKE i, j \in Requests'
  <2>1. i + 1 = j + 1
    BY <1>3 DEF EffectInv
  <2>. QED  BY <1>3, <2>1
<1>6. ASSUME NEW i \in 1 .. Len(events'), events'[i].kind = "erase"
      PROVE  \/ i = 1 /\ events[1].kind = "play" /\ events[1].value = 0
             \/ i > 1 /\ events'[i - 1].kind = "play" /\ events'[i - 1].value = 0
  <2>1. events[i].kind = "play" /\ events[i].value = 0
    <3>1. i + 1 \in 1 .. Len(events) /\ events[i + 1].kind = "erase" /\ i + 1 # 1
      BY <1>1, <1>6
    <3>2. events[(i + 1) - 1].kind = "play" /\ events[(i + 1) - 1].value = 0
      BY <3>1 DEF EffectInv
    <3>3. (i + 1) - 1 = i
      OBVIOUS
    <3>. QED  BY <3>2, <3>3
  <2>2. CASE i > 1
    <3>1. events'[i - 1] = events[i]
      BY <1>1, <2>2
    <3>. QED  BY <2>1, <2>2, <3>1
  <2>. QED  BY <2>1, <2>2
<1>7. ASSUME events[1].kind \in {"upload", "erase"}
      PROVE  Plays' = {} /\ Requests' = {}
  <2>1. 1 \in Requests
    BY <1>1, <1>7 DEF Requests
  <2>2. ASSUME NEW j \in Plays' PROVE FALSE
    <3>1. j + 1 < 1 /\ j \in Nat
      BY <1>2, <2>1 DEF EffectInv
    <3>2. j # 0
      BY DEF Plays
    <3>. QED  BY <3>1
  <2>3. ASSUME NEW i \in Requests' PROVE FALSE
    <3>1. i + 1 = 1
      BY <1>3, <2>1 DEF EffectInv
    <3>2. i \in 1 .. Len(events')
      BY DEF Requests
    <3>. QED  BY <3>1, <3>2
  <2>. QED  BY <2>2, <2>3
<1>. QED  BY <1>2, <1>4, <1>5, <1>6, <1>7

\* Handling an event that is not a play leaves the request as it was.
LEMMA RequestKept ==
  ASSUME RequestInv, request' = request, asked' = asked, ~endFailed' => ~endFailed
  PROVE  RequestInv'
BY DEF RequestInv, PowerInRange, PassesEffect

LEMMA InvUpload == IInv /\ Upload => IInv'
<1> SUFFICES ASSUME IInv, Upload PROVE IInv'
  OBVIOUS
<1>1. /\ events # <<>> /\ events' = Tail(events)
      /\ Head(events) = events[1] /\ events[1].kind = "upload" /\ events[1] \in QueuedEvent
      /\ events' \in Seq(QueuedEvent)
  BY TailIs DEF IInv, Upload, Reads
<1>2. events[1].effect \in Effect
  BY <1>1 DEF QueuedEvent
<1>3. TypeOK'
  BY <1>1, <1>2 DEF IInv, TypeOK, Upload, EndFails, AnyEffect
<1>4. GainInv'
  BY <1>1, TakenGain DEF IInv, Upload
<1>5. EffectInv'
  <2>1. Plays' = {} /\ Requests' = {}
    BY <1>1, TakenQueue DEF IInv
  <2>2. \A i \in 1 .. Len(events') : events'[i].kind # "erase"
    BY <2>1 DEF Requests
  <2>3. events[1].effect # NoEffect
    <3>1. NoEffect.type # "rumble"
      BY DEF NoEffect
    <3>. QED  BY <1>2, <3>1 DEF Effect
  <2>4. game' = NoEffect => request' = Quiet
    BY <1>1, <2>3 DEF IInv, EffectInv, Upload, EndFails
  <2>5. ~endFailed' => effect' = game'
    BY <1>1 DEF IInv, EffectInv, Upload, EndFails
  <2>6. effect' = NoEffect => request' = Quiet
    BY <1>1, <2>3 DEF IInv, EffectInv, Upload, EndFails
  <2>. QED  BY <2>1, <2>2, <2>4, <2>5, <2>6 DEF EffectInv
<1>6. RequestInv'
  BY RequestKept DEF IInv, Upload, EndFails
<1>. QED  BY <1>3, <1>4, <1>5, <1>6 DEF IInv

LEMMA InvErase == IInv /\ Erase => IInv'
<1> SUFFICES ASSUME IInv, Erase PROVE IInv'
  OBVIOUS
<1>1. /\ events # <<>> /\ events' = Tail(events)
      /\ Head(events) = events[1] /\ events[1].kind = "erase" /\ events[1] \in QueuedEvent
      /\ events' \in Seq(QueuedEvent) /\ 1 \in 1 .. Len(events)
  BY TailIs DEF IInv, Erase, Reads
<1>3. TypeOK'
  BY <1>1 DEF IInv, TypeOK, Erase, Erased, EndFails, AnyEffect
<1>4. GainInv'
  BY <1>1, TakenGain DEF IInv, Erase
<1>5. EffectInv'
  <2>1. Plays' = {} /\ Requests' = {}
    BY <1>1, TakenQueue DEF IInv
  <2>2. \A i \in 1 .. Len(events') : events'[i].kind # "erase"
    BY <2>1 DEF Requests
  <2>3. request' = Quiet
    BY <1>1 DEF IInv, EffectInv, Erase
  <2>4. ~endFailed' => effect' = game'
    BY <1>1 DEF IInv, EffectInv, Erase, Erased, EndFails
  <2>. QED  BY <2>1, <2>2, <2>3, <2>4 DEF EffectInv
<1>6. RequestInv'
  BY RequestKept DEF IInv, Erase, Erased, EndFails
<1>. QED  BY <1>3, <1>4, <1>5, <1>6 DEF IInv

LEMMA InvGain == IInv /\ Gain => IInv'
<1> SUFFICES ASSUME IInv, Gain PROVE IInv'
  OBVIOUS
<1>1. /\ events # <<>> /\ events' = Tail(events)
      /\ Head(events) = events[1] /\ events[1].kind = "gain" /\ events[1] \in QueuedEvent
      /\ events' \in Seq(QueuedEvent)
  BY TailIs DEF IInv, Gain, Reads
<1>2. events[1].gain \in 0 .. WordMax /\ gain' = events[1].gain
  BY <1>1 DEF QueuedEvent, Gain, TakeGain
<1>3. TypeOK'
  BY <1>1, <1>2 DEF IInv, TypeOK, Gain
<1>4. GainInv'
  BY <1>1, <1>2, TakenGain DEF IInv, Gain
<1>5. EffectInv'
  BY <1>1, TakenQueue DEF IInv, EffectInv, Gain
<1>6. RequestInv'
  BY RequestKept DEF IInv, Gain
<1>. QED  BY <1>3, <1>4, <1>5, <1>6 DEF IInv

LEMMA LoudInRange ==
  ASSUME NEW e \in Effect, NEW g \in 0 .. WordMax, NEW n,
         NEW leftShare \in 0 .. ShareMax, NEW rightShare \in 0 .. ShareMax,
         request' = Loud(e, g, n, leftShare, rightShare)
  PROVE  PowerInRange'
<1> DEFINE left == Power(e.strong, g)
           right == Power(e.weak, g)
           most == Larger(left, right)
<1>1. left \in 0 .. MaxPower /\ right \in 0 .. MaxPower
  BY PowerIsInRange, RumbleAssumption DEF Effect
<1>2. most \in 0 .. MaxPower
  BY <1>1 DEF Larger
<1>3. /\ 2 * Trigger(leftShare, most) <= MaxPower
      /\ 2 * Trigger(rightShare, most) <= MaxPower
  BY <1>2, TriggerInRange
<1>4. /\ request'.left = left /\ request'.right = right
      /\ request'.leftTrigger = IF e.upper THEN Trigger(leftShare, most) ELSE 0
      /\ request'.rightTrigger = IF e.upper THEN Trigger(rightShare, most) ELSE 0
  BY DEF Loud
<1>5. MaxPower \in Nat
  BY RumbleAssumption
<1>6. left <= MaxPower /\ right <= MaxPower
  BY <1>1, <1>5
<1>7. /\ 2 * request'.leftTrigger <= MaxPower
      /\ 2 * request'.rightTrigger <= MaxPower
  <2> HIDE DEF most
  <2>. QED  BY <1>3, <1>4, <1>5
<1>. QED  BY <1>4, <1>6, <1>7 DEF PowerInRange

LEMMA InvPlay == IInv /\ Play => IInv'
<1> SUFFICES ASSUME IInv, Play PROVE IInv'
  OBVIOUS
<1>1. /\ events # <<>> /\ events' = Tail(events)
      /\ Head(events) = events[1] /\ events[1].kind = "play" /\ events[1] \in QueuedEvent
      /\ events' \in Seq(QueuedEvent) /\ 1 \in 1 .. Len(events)
  BY TailIs DEF IInv, Play, Reads
<1> DEFINE value == events[1].value
           replayCount == value % (ByteMax + 1)
<1>2. /\ asked' = [value |-> value, effect |-> events[1].effect, gain |-> events[1].gain]
      /\ Feedback(value)
      /\ UNCHANGED <<effect, gain, game, gameGain, endFailed, count>>
  BY <1>1 DEF Play
<1>3. events[1].effect = game /\ value \in Nat
  BY <1>1 DEF IInv, EffectInv, Plays, QueuedEvent
<1>4. events[1].gain = gain
  BY <1>1 DEF IInv, GainInv, GainAt
<1>5. effect.type = "rumble" => effect \in Effect
  BY DEF IInv, TypeOK, AnyEffect, NoEffect
<1>6. effect.type # "rumble" => effect = NoEffect
  BY DEF IInv, TypeOK, AnyEffect, Effect
<1>7. ASSUME effect.type # "rumble"
      PROVE  request' = Quiet /\ PowerInRange' /\ PassesEffect'
  <2>1. request' = request
    BY <1>2, <1>7 DEF Feedback
  <2>2. request' = Quiet
    BY <1>6, <1>7, <2>1 DEF IInv, EffectInv
  <2>3. PowerInRange'
    BY <2>1 DEF IInv, RequestInv, PowerInRange
  <2>4. PassesEffect'
    BY <1>2, <1>3, <1>7 DEF IInv, EffectInv, PassesEffect
  <2>. QED  BY <2>2, <2>3, <2>4
<1>8. ASSUME effect.type = "rumble", Stops(replayCount)
      PROVE  request' = Quiet /\ PowerInRange' /\ PassesEffect'
  <2>1. request' = Quiet
    BY <1>2, <1>8 DEF Feedback
  <2>2. PowerInRange'
    BY <2>1, QuietIs, RumbleAssumption DEF PowerInRange
  <2>3. replayCount = 0 \/ gain = 0
    BY <1>8 DEF Stops
  <2>4. asked'.value % (ByteMax + 1) = 0 \/ asked'.gain = 0
    BY <1>2, <1>4, <2>3
  <2>5. PassesEffect'
    BY <2>1, <2>4 DEF PassesEffect
  <2>. QED  BY <2>1, <2>2, <2>5
<1>9. ASSUME effect.type = "rumble", ~Stops(replayCount)
      PROVE  RequestInv'
  <2>1. PICK leftShare, rightShare \in 0 .. ShareMax :
          request' = Loud(effect, gain, replayCount, leftShare, rightShare)
    BY <1>2, <1>9 DEF Feedback
  <2>2. PowerInRange'
    BY <1>5, <1>9, <2>1, LoudInRange DEF IInv, TypeOK
  <2>3. /\ request'.left = Power(effect.strong, gain)
        /\ request'.right = Power(effect.weak, gain)
        /\ request'.duration = Duration(effect.length)
        /\ request'.delay = Delay(effect.delay)
    BY <2>1 DEF Loud
  <2>4. ~endFailed' => asked'.effect = effect /\ asked'.gain = gain
    BY <1>2, <1>3, <1>4 DEF IInv, EffectInv
  <2>5. PassesEffect'
    BY <2>3, <2>4 DEF PassesEffect
  <2>. QED  BY <1>5, <1>9, <2>2, <2>3, <2>4, <2>5 DEF RequestInv
<1>10. RequestInv'
  BY <1>7, <1>8, <1>9 DEF RequestInv
<1>11. TypeOK'
  BY <1>1, <1>2 DEF IInv, TypeOK
<1>12. GainInv'
  BY <1>1, <1>2, TakenGain DEF IInv
<1>13. EffectInv'
  <2>1. \A i \in Plays' : i + 1 \in Plays /\ events'[i] = events[i + 1]
    BY <1>1, TakenQueue DEF IInv
  <2>2. \A i \in Plays' : events'[i].effect = game'
    BY <1>2, <2>1 DEF IInv, EffectInv
  <2>3. 1 \in Plays
    BY <1>1 DEF Plays
  <2>4. game # NoEffect
    BY <2>3 DEF IInv, EffectInv
  <2>5. events[1].value = 0 => request' = Quiet
    <3>1. ByteMax \in Nat \ {0}
      BY RumbleAssumption
    <3>2. 0 % (ByteMax + 1) = 0
      BY <3>1
    <3>. QED  BY <1>7, <1>8, <1>9, <3>2 DEF Stops
  <2>6. effect = NoEffect => request' = Quiet
    BY <1>7 DEF NoEffect
  <2>7. /\ \A i \in Requests', j \in Plays' : j < i
        /\ \A i, j \in Requests' : i = j
        /\ \A i \in 1 .. Len(events') : events'[i].kind = "erase" =>
             \/ i = 1 /\ events[1].kind = "play" /\ events[1].value = 0
             \/ i > 1 /\ events'[i - 1].kind = "play" /\ events'[i - 1].value = 0
    BY <1>1, TakenQueue DEF IInv
  <2>8. ~endFailed' => effect' = game'
    BY <1>2 DEF IInv, EffectInv
  <2>. QED  BY <1>2, <2>2, <2>4, <2>5, <2>6, <2>7, <2>8 DEF EffectInv
<1>. QED  BY <1>10, <1>11, <1>12, <1>13 DEF IInv

-----------------------------------------------------------------------------
(* The games cause events                                                  *)

LEMMA AppendIs ==
  ASSUME TypeOK, NEW more \in Seq(QueuedEvent), events' = events \o more
  PROVE  /\ events' \in Seq(QueuedEvent)
         /\ Len(events) \in Nat /\ Len(more) \in Nat
         /\ Len(events') = Len(events) + Len(more)
         /\ \A i \in 1 .. Len(events) : events'[i] = events[i]
         /\ \A i \in 1 .. Len(more) : events'[Len(events) + i] = more[i]
BY DEF TypeOK

\* The events before position i decide what the gain will be there.
LEMMA SameGain ==
  ASSUME NEW q, NEW r, NEW now, NEW i \in Nat, NEW g, GainAt(q, now, i, g),
         \A k \in 1 .. i - 1 : r[k] = q[k]
  PROVE  GainAt(r, now, i, g)
BY DEF GainAt

LEMMA LaterGain ==
  ASSUME NEW q, NEW now, NEW i \in Nat \ {0}, NEW g, GainAt(q, now, i, g), q[i].kind # "gain"
  PROVE  GainAt(q, now, i + 1, g)
<1>1. (i + 1) - 1 = i
  OBVIOUS
<1>2. \A j \in 0 .. i - 1 : \A k \in j + 1 .. i : k \in j + 1 .. i - 1 \/ k = i
  OBVIOUS
<1>3. CASE now = g /\ \A k \in 1 .. i - 1 : q[k].kind # "gain"
  <2>1. \A k \in 1 .. i : q[k].kind # "gain"
    BY <1>2, <1>3
  <2>. QED  BY <1>1, <1>3, <2>1 DEF GainAt
<1>4. ASSUME NEW j \in 1 .. i - 1, q[j].kind = "gain", q[j].gain = g,
             \A k \in j + 1 .. i - 1 : q[k].kind # "gain"
      PROVE  GainAt(q, now, i + 1, g)
  <2>1. \A k \in j + 1 .. i : q[k].kind # "gain"
    BY <1>2, <1>4
  <2>2. j \in 1 .. i
    OBVIOUS
  <2>. QED  BY <1>1, <1>4, <2>1, <2>2 DEF GainAt
<1>. QED  BY <1>3, <1>4 DEF GainAt

\* The games' gain stays what the device will have, whatever is queued but gains.
LEMMA QueuedGain ==
  ASSUME TypeOK, GainInv, NEW more \in Seq(QueuedEvent), events' = events \o more,
         gain' = gain, gameGain' = gameGain,
         Len(more) \in {1, 2},
         \A i \in 1 .. Len(more) :
           more[i].kind # "gain" /\ (more[i].kind = "play" => more[i].gain = gameGain)
  PROVE  GainInv'
<1> DEFINE n == Len(events)
<1>1. /\ n \in Nat /\ Len(events') = n + Len(more)
      /\ \A i \in 1 .. n : events'[i] = events[i]
      /\ \A i \in 1 .. Len(more) : events'[n + i] = more[i]
      /\ events'[n + 1] = more[1] /\ 1 \in 1 .. Len(more)
      /\ Len(more) = 2 => events'[n + 2] = more[2] /\ 2 \in 1 .. Len(more)
  <2>1. \A m \in {1, 2} : 1 \in 1 .. m /\ (m = 2 => 2 \in 1 .. m)
    OBVIOUS
  <2>. QED  BY <2>1, AppendIs
<1> HIDE DEF n
<1>2. \A i \in 1 .. n : events'[i].kind = "play" => GainAt(events', gain, i, events'[i].gain)
  <2> SUFFICES ASSUME NEW i \in 1 .. n, events[i].kind = "play"
               PROVE  GainAt(events', gain, i, events[i].gain)
    BY <1>1
  <2>1. i \in Nat /\ \A k \in 1 .. i - 1 : events'[k] = events[k]
    BY <1>1
  <2>2. GainAt(events, gain, i, events[i].gain)
    BY DEF GainInv, n
  <2>. QED  BY <2>1, <2>2, SameGain
<1>3. GainAt(events', gain, n + 1, gameGain)
  <2>1. \A k \in 1 .. (n + 1) - 1 : events'[k] = events[k]
    BY <1>1
  <2>2. n + 1 \in Nat
    BY <1>1
  <2>3. GainAt(events, gain, n + 1, gameGain)
    BY DEF GainInv, n
  <2>. QED  BY <2>1, <2>2, <2>3, SameGain
<1>4. GainAt(events', gain, (n + 1) + 1, gameGain)
  <2>1. events'[n + 1] = more[1] /\ 1 \in 1 .. Len(more)
    BY <1>1
  <2>2. n + 1 \in Nat \ {0} /\ events'[n + 1].kind # "gain"
    BY <1>1, <2>1
  <2>. QED  BY <1>3, <2>2, LaterGain
<1>5. Len(more) = 2 => GainAt(events', gain, ((n + 1) + 1) + 1, gameGain)
  <2> HAVE Len(more) = 2
  <2>1. events'[n + 2] = more[2] /\ 2 \in 1 .. Len(more) /\ n + 2 = (n + 1) + 1
    BY <1>1
  <2>2. (n + 1) + 1 \in Nat \ {0} /\ events'[(n + 1) + 1].kind # "gain"
    BY <1>1, <2>1
  <2>. QED  BY <1>4, <2>2, LaterGain
<1>6. ASSUME NEW i \in 1 .. Len(events'), events'[i].kind = "play"
      PROVE  GainAt(events', gain, i, events'[i].gain)
  <2>1. CASE i \in 1 .. n
    BY <1>2, <1>6, <2>1
  <2>2. CASE i = n + 1
    <3>1. events'[n + 1] = more[1] /\ 1 \in 1 .. Len(more)
      BY <1>1
    <3>2. events'[i].gain = gameGain
      BY <1>6, <2>2, <3>1
    <3>. QED  BY <1>3, <2>2, <3>2
  <2>3. CASE Len(more) = 2 /\ i = (n + 1) + 1
    <3>1. events'[n + 2] = more[2] /\ 2 \in 1 .. Len(more) /\ n + 2 = (n + 1) + 1
      BY <1>1, <2>3
    <3>2. events'[i].gain = gameGain
      BY <1>6, <2>3, <3>1
    <3>. QED  BY <1>4, <2>3, <3>2
  <2>4. i \in 1 .. n \/ i = n + 1 \/ (Len(more) = 2 /\ i = (n + 1) + 1)
    <3>1. \A m \in Nat : \A j \in 1 .. m + 1 : j \in 1 .. m \/ j = m + 1
      OBVIOUS
    <3>2. \A m \in Nat : \A j \in 1 .. m + 2 : j \in 1 .. m \/ j = m + 1 \/ j = (m + 1) + 1
      OBVIOUS
    <3>3. Len(events') = n + 1 \/ (Len(more) = 2 /\ Len(events') = n + 2)
      BY <1>1
    <3>. QED  BY <1>1, <3>1, <3>2, <3>3
  <2>. QED  BY <2>1, <2>2, <2>3, <2>4
<1>7. GainAt(events', gain, Len(events') + 1, gameGain)
  <2>1. CASE Len(more) = 1
    <3>1. Len(events') + 1 = (n + 1) + 1
      BY <1>1, <2>1
    <3>. QED  BY <1>4, <3>1
  <2>2. CASE Len(more) = 2
    <3>1. Len(events') + 1 = ((n + 1) + 1) + 1
      BY <1>1, <2>2
    <3>. QED  BY <1>5, <2>2, <3>1
  <2>. QED  BY <2>1, <2>2
<1>. QED  BY <1>6, <1>7 DEF GainInv, n

\* Where uploads, erasures and plays are in the longer queue.
LEMMA QueuedRequests ==
  ASSUME TypeOK, NEW more \in Seq(QueuedEvent), events' = events \o more
  PROVE  /\ \A i \in Requests' :
              \/ i \in Requests /\ events'[i] = events[i]
              \/ \E k \in 1 .. Len(more) :
                   /\ i = Len(events) + k /\ events'[i] = more[k]
                   /\ more[k].kind \in {"upload", "erase"}
         /\ \A i \in Plays' :
              \/ i \in Plays /\ events'[i] = events[i]
              \/ \E k \in 1 .. Len(more) :
                   i = Len(events) + k /\ events'[i] = more[k] /\ more[k].kind = "play"
         /\ \A i \in Requests \cup Plays : i \in 1 .. Len(events)
<1>1. /\ Len(events) \in Nat /\ Len(more) \in Nat
      /\ Len(events') = Len(events) + Len(more)
      /\ \A i \in 1 .. Len(events) : events'[i] = events[i]
      /\ \A i \in 1 .. Len(more) : events'[Len(events) + i] = more[i]
  BY AppendIs
<1>2. \A i \in 1 .. Len(events') :
        i \in 1 .. Len(events) \/ \E k \in 1 .. Len(more) : i = Len(events) + k
  <2> TAKE i \in 1 .. Len(events')
  <2>1. CASE i > Len(events)
    <3>1. i - Len(events) \in 1 .. Len(more) /\ i = Len(events) + (i - Len(events))
      BY <1>1, <2>1
    <3>. QED  BY <3>1
  <2>. QED  BY <1>1, <2>1
<1>. QED  BY <1>1, <1>2 DEF Requests, Plays

\* What the four kinds of events of a game have in common.
LEMMA Queued ==
  ASSUME IInv, NEW more \in Seq(QueuedEvent), events' = events \o more,
         UNCHANGED <<effect, gain, game, asked, request, endFailed>>,
         gameGain' \in 0 .. WordMax, GainInv',
         \A i \in Plays' : events'[i].effect = game,
         \A i \in Requests', j \in Plays' : j < i,
         \A i, j \in Requests' : i = j,
         game = NoEffect => Plays' = {},
         \A i \in 1 .. Len(events') : events'[i].kind = "erase" =>
           \/ i = 1 /\ request = Quiet
           \/ i > 1 /\ events'[i - 1].kind = "play" /\ events'[i - 1].value = 0
  PROVE  IInv'
<1>1. TypeOK'
  BY AppendIs DEF IInv, TypeOK
<1>2. EffectInv'
  BY DEF IInv, EffectInv
<1>3. RequestInv'
  BY RequestKept DEF IInv
<1>. QED  BY <1>1, <1>2, <1>3 DEF IInv

\* An erasure that waits keeps its stop in front.
LEMMA StopStays ==
  ASSUME TypeOK, EffectInv, NEW more \in Seq(QueuedEvent), events' = events \o more,
         NEW i \in 1 .. Len(events), events[i].kind = "erase"
  PROVE  \/ i = 1 /\ request = Quiet
         \/ i > 1 /\ events'[i - 1].kind = "play" /\ events'[i - 1].value = 0
<1>1. CASE i > 1
  <2>1. i - 1 \in 1 .. Len(events)
    BY <1>1 DEF TypeOK
  <2>2. events'[i - 1] = events[i - 1]
    BY <2>1, AppendIs
  <2>. QED  BY <1>1, <2>2 DEF EffectInv
<1>2. CASE i = 1
  BY <1>2 DEF EffectInv
<1>. QED  BY <1>1, <1>2 DEF TypeOK

LEMMA FreeIs ==
  ASSUME TypeOK, Free
  PROVE  Requests = {} /\ \A i \in 1 .. Len(events) : events[i].kind # "erase"
BY DEF Free, Requests, TypeOK

LEMMA PlayingIs ==
  ASSUME TypeOK, game # NoEffect, NEW value \in Nat
  PROVE  Playing(value) \in QueuedEvent
BY DEF TypeOK, AnyEffect, Playing, QueuedEvent

LEMMA InvUploadEffect ==
  ASSUME IInv, UploadEffect, UNCHANGED <<effect, gain, game, asked, request, endFailed>>
  PROVE  IInv'
<1>1. PICK e \in Effect : events' = events \o <<[kind |-> "upload", effect |-> e]>>
  BY DEF UploadEffect, Event
<1> DEFINE more == <<[kind |-> "upload", effect |-> e]>>
<1>2. /\ more \in Seq(QueuedEvent) /\ Len(more) = 1
      /\ \A k \in 1 .. Len(more) : k = 1 /\ more[k].kind = "upload"
  BY DEF QueuedEvent
<1> HIDE DEF more
<1>3. TypeOK /\ EffectInv /\ events' = events \o more
  BY <1>1 DEF IInv, more
<1>4. Requests = {} /\ \A i \in 1 .. Len(events) : events[i].kind # "erase"
  BY FreeIs DEF IInv, UploadEffect
<1>5. /\ \A i \in Requests' : i = Len(events) + 1
      /\ \A i \in Plays' : i \in Plays /\ events'[i] = events[i]
      /\ \A i \in Plays : i \in 1 .. Len(events)
  <2>1. ASSUME NEW i \in Requests' PROVE i = Len(events) + 1
    <3>1. \/ i \in Requests
          \/ \E k \in 1 .. Len(more) : i = Len(events) + k
      <4>1. more \in Seq(QueuedEvent)
        BY <1>2
      <4>. QED  BY <1>3, <2>1, <4>1, QueuedRequests
    <3>2. \E k \in 1 .. Len(more) : i = Len(events) + k
      BY <1>4, <3>1, Zenon
    <3>. QED  BY <1>2, <3>2, Zenon
  <2>2. ASSUME NEW i \in Plays' PROVE i \in Plays /\ events'[i] = events[i]
    <3>1. ~ \E k \in 1 .. Len(more) : more[k].kind = "play"
      BY <1>2
    <3>. QED  BY <1>2, <1>3, <3>1, QueuedRequests
  <2>3. \A i \in Plays : i \in 1 .. Len(events)
    BY DEF Plays
  <2>. QED  BY <2>1, <2>2, <2>3
<1>6. GainInv'
  <2>1. Len(more) \in {1, 2}
    BY <1>2
  <2>. QED  BY <1>2, <1>3, <2>1, QueuedGain DEF IInv, UploadEffect
<1>7. \A i \in 1 .. Len(events') : events'[i].kind # "erase"
  <2>1. SUFFICES ASSUME NEW i \in 1 .. Len(events'), events'[i].kind = "erase" PROVE FALSE
    OBVIOUS
  <2>2. i \in Requests'
    BY <2>1 DEF Requests
  <2>. QED  BY <1>2, <1>3, <1>4, <2>1, <2>2, QueuedRequests
<1>8. \A i \in Requests', j \in Plays' : j < i
  <2>1. Len(events) \in Nat
    BY <1>3 DEF TypeOK
  <2>. QED  BY <1>5, <2>1
<1>9. gameGain' \in 0 .. WordMax
  BY <1>3 DEF TypeOK, UploadEffect
<1>10. /\ \A i \in Plays' : events'[i].effect = game
       /\ game = NoEffect => Plays' = {}
  BY <1>3, <1>5 DEF EffectInv
<1>11. \A i, j \in Requests' : i = j
  BY <1>5
<1>. QED  BY <1>2, <1>3, <1>6, <1>7, <1>8, <1>9, <1>10, <1>11, Queued

LEMMA InvEraseEffect ==
  ASSUME IInv, EraseEffect, UNCHANGED <<effect, gain, game, asked, request, endFailed>>
  PROVE  IInv'
<1> DEFINE more == <<Playing(0), [kind |-> "erase"]>>
<1>1. Playing(0) \in QueuedEvent
  BY PlayingIs DEF IInv, EraseEffect
<1>2. /\ more \in Seq(QueuedEvent) /\ Len(more) = 2
      /\ more[1].kind = "play" /\ more[1].value = 0
      /\ more[1].effect = game /\ more[1].gain = gameGain
      /\ more[2].kind = "erase"
      /\ \A k \in 1 .. Len(more) : k \in {1, 2}
  BY <1>1 DEF QueuedEvent, Playing
<1>3. TypeOK /\ EffectInv /\ events' = events \o more
  BY DEF IInv, EraseEffect, Event
<1> HIDE DEF more
<1>4. Requests = {} /\ \A i \in 1 .. Len(events) : events[i].kind # "erase"
  BY FreeIs DEF IInv, EraseEffect
<1>5. /\ \A i \in Requests' : i = Len(events) + 2
      /\ \A i \in Plays' : \/ i \in Plays /\ events'[i] = events[i]
                           \/ i = Len(events) + 1 /\ events'[i] = more[1]
      /\ \A i \in Plays : i \in 1 .. Len(events)
  <2>1. /\ more[1].kind \notin {"upload", "erase"} /\ more[2].kind # "play"
        /\ \A k \in 1 .. Len(more) : k = 1 \/ k = 2
    BY <1>2
  <2>2. ASSUME NEW i \in Requests' PROVE i = Len(events) + 2
    <3>1. PICK k \in 1 .. Len(more) :
            i = Len(events) + k /\ more[k].kind \in {"upload", "erase"}
      BY <1>2, <1>3, <1>4, QueuedRequests
    <3>2. k = 2
      BY <2>1, <3>1
    <3>. QED  BY <3>1, <3>2
  <2>3. ASSUME NEW i \in Plays', ~(i \in Plays /\ events'[i] = events[i])
        PROVE  i = Len(events) + 1 /\ events'[i] = more[1]
    <3>1. PICK k \in 1 .. Len(more) :
            i = Len(events) + k /\ events'[i] = more[k] /\ more[k].kind = "play"
      BY <1>2, <1>3, <2>3, QueuedRequests
    <3>2. k = 1
      BY <2>1, <3>1
    <3>. QED  BY <3>1, <3>2
  <2>4. \A i \in Plays : i \in 1 .. Len(events)
    BY DEF Plays
  <2>. QED  BY <2>2, <2>3, <2>4
<1>6. GainInv'
  <2>1. \A k \in 1 .. Len(more) :
          more[k].kind # "gain" /\ (more[k].kind = "play" => more[k].gain = gameGain)
    BY <1>2
  <2>2. Len(more) \in {1, 2}
    BY <1>2
  <2>. QED  BY <1>2, <1>3, <2>1, <2>2, QueuedGain DEF IInv, EraseEffect
<1>7. ASSUME NEW i \in 1 .. Len(events'), events'[i].kind = "erase"
      PROVE  i > 1 /\ events'[i - 1].kind = "play" /\ events'[i - 1].value = 0
  <2>1. i \in Requests'
    BY <1>7 DEF Requests
  <2>2. /\ i = Len(events) + 2 /\ Len(events) \in Nat
        /\ 1 \in 1 .. Len(more)
    BY <1>2, <1>3, <1>5, <2>1 DEF TypeOK
  <2>3. i > 1 /\ i - 1 = Len(events) + 1
    BY <2>2
  <2>4. events'[Len(events) + 1] = more[1]
    BY <1>2, <1>3, <2>2, AppendIs
  <2>. QED  BY <1>2, <2>3, <2>4
<1>8. \A i \in Requests', j \in Plays' : j < i
  <2>1. Len(events) \in Nat
    BY <1>3 DEF TypeOK
  <2>. QED  BY <1>5, <2>1
<1>9. gameGain' \in 0 .. WordMax
  BY <1>3 DEF TypeOK, EraseEffect
<1>10. /\ \A i \in Plays' : events'[i].effect = game
       /\ game # NoEffect
  BY <1>2, <1>3, <1>5 DEF EffectInv, EraseEffect
<1>11. \A i, j \in Requests' : i = j
  BY <1>5
<1>. QED  BY <1>2, <1>3, <1>6, <1>7, <1>8, <1>9, <1>10, <1>11, Queued

LEMMA InvPlayEffect ==
  ASSUME IInv, PlayEffect, UNCHANGED <<effect, gain, game, asked, request, endFailed>>
  PROVE  IInv'
<1>1. PICK value \in Counts : events' = events \o <<Playing(value)>>
  BY DEF PlayEffect, Event
<1> DEFINE more == <<Playing(value)>>
<1>2. Playing(value) \in QueuedEvent
  BY PlayingIs, RumbleAssumption DEF IInv, PlayEffect
<1>3. /\ more \in Seq(QueuedEvent) /\ Len(more) = 1
      /\ more[1].kind = "play" /\ more[1].effect = game /\ more[1].gain = gameGain
      /\ \A k \in 1 .. Len(more) : k = 1
  BY <1>2 DEF Playing
<1> HIDE DEF more
<1>4. TypeOK /\ EffectInv /\ events' = events \o more
  BY <1>1 DEF IInv, more
<1>5. Requests = {} /\ \A i \in 1 .. Len(events) : events[i].kind # "erase"
  BY FreeIs DEF IInv, PlayEffect
<1>6. /\ Requests' = {}
      /\ \A i \in Plays' : \/ i \in Plays /\ events'[i] = events[i]
                           \/ events'[i] = more[1]
  BY <1>3, <1>4, <1>5, QueuedRequests
<1>7. GainInv'
  <2>1. \A k \in 1 .. Len(more) :
          more[k].kind # "gain" /\ (more[k].kind = "play" => more[k].gain = gameGain)
    BY <1>3
  <2>2. Len(more) \in {1, 2}
    BY <1>3
  <2>. QED  BY <1>3, <1>4, <2>1, <2>2, QueuedGain DEF IInv, PlayEffect
<1>8. \A i \in 1 .. Len(events') : events'[i].kind # "erase"
  BY <1>6 DEF Requests
<1>9. gameGain' \in 0 .. WordMax
  BY <1>4 DEF TypeOK, PlayEffect
<1>10. /\ \A i \in Plays' : events'[i].effect = game
       /\ game # NoEffect
  BY <1>3, <1>4, <1>6 DEF EffectInv, PlayEffect
<1>. QED  BY <1>3, <1>4, <1>6, <1>7, <1>8, <1>9, <1>10, Queued

LEMMA InvSetGain ==
  ASSUME IInv, SetGain, UNCHANGED <<effect, gain, game, asked, request, endFailed>>
  PROVE  IInv'
<1>1. PICK g \in Gains : gameGain' = g /\ events' = events \o <<[kind |-> "gain", gain |-> g]>>
  BY DEF SetGain, Event
<1> DEFINE more == <<[kind |-> "gain", gain |-> g]>>
<1>2. g \in 0 .. WordMax
  BY RumbleAssumption
<1>3. /\ more \in Seq(QueuedEvent) /\ Len(more) = 1
      /\ more[1].kind = "gain" /\ more[1].gain = g
      /\ \A k \in 1 .. Len(more) : k = 1
  BY <1>2 DEF QueuedEvent
<1> HIDE DEF more
<1>4. TypeOK /\ EffectInv /\ events' = events \o more
  BY <1>1 DEF IInv, more
<1>5. /\ \A i \in Requests' : i \in Requests /\ events'[i] = events[i]
      /\ \A i \in Plays' : i \in Plays /\ events'[i] = events[i]
      /\ \A i \in Requests \cup Plays : i \in 1 .. Len(events)
  BY <1>3, <1>4, QueuedRequests
<1>6. /\ Len(events) \in Nat /\ Len(events') = Len(events) + 1
      /\ \A i \in 1 .. Len(events) : events'[i] = events[i]
      /\ events'[Len(events) + 1] = more[1]
  <2>1. \A m : m = 1 => 1 \in 1 .. m
    OBVIOUS
  <2>. QED  BY <1>3, <1>4, <2>1, AppendIs
<1>7. GainInv'
  <2>1. ASSUME NEW i \in 1 .. Len(events'), events'[i].kind = "play"
        PROVE  GainAt(events', gain', i, events'[i].gain)
    <3>1. i \in Plays /\ events'[i] = events[i] /\ i \in 1 .. Len(events)
      BY <1>5, <2>1 DEF Plays
    <3>2. GainAt(events, gain, i, events[i].gain)
      BY <2>1, <3>1 DEF IInv, GainInv
    <3>3. i \in Nat /\ \A k \in 1 .. i - 1 : events'[k] = events[k]
      BY <1>6, <3>1
    <3>. QED  BY <3>1, <3>2, <3>3, SameGain
  <2>2. GainAt(events', gain', Len(events') + 1, gameGain')
    <3>1. Len(events) + 1 \in 1 .. (Len(events') + 1) - 1
      BY <1>6
    <3>2. \A k \in (Len(events) + 1) + 1 .. (Len(events') + 1) - 1 : FALSE
      BY <1>6
    <3>. QED  BY <1>1, <1>3, <1>6, <3>1, <3>2 DEF GainAt
  <2>. QED  BY <2>1, <2>2 DEF GainInv
<1>8. ASSUME NEW i \in 1 .. Len(events'), events'[i].kind = "erase"
      PROVE  \/ i = 1 /\ request = Quiet
             \/ i > 1 /\ events'[i - 1].kind = "play" /\ events'[i - 1].value = 0
  <2>1. i \in Requests'
    BY <1>8 DEF Requests
  <2>2. i \in 1 .. Len(events) /\ events[i].kind = "erase"
    BY <1>5, <1>8, <2>1
  <2>. QED  BY <1>3, <1>4, <2>2, StopStays
<1>9. gameGain' \in 0 .. WordMax
  BY <1>1, <1>2
<1>10. /\ \A i \in Plays' : events'[i].effect = game
       /\ game = NoEffect => Plays' = {}
  BY <1>4, <1>5 DEF EffectInv
<1>11. \A i \in Requests', j \in Plays' : j < i
  BY <1>4, <1>5 DEF EffectInv
<1>12. \A i, j \in Requests' : i = j
  BY <1>4, <1>5 DEF EffectInv
<1>. QED  BY <1>3, <1>4, <1>7, <1>8, <1>9, <1>10, <1>11, <1>12, Queued

LEMMA InvNext == IInv /\ [Next]_vars => IInv'
<1> SUFFICES ASSUME IInv, [Next]_vars PROVE IInv'
  OBVIOUS
<1>1. CASE Upload
  BY <1>1, InvUpload
<1>2. CASE Erase
  BY <1>2, InvErase
<1>3. CASE Gain
  BY <1>3, InvGain
<1>4. CASE Play
  BY <1>4, InvPlay
<1>5. CASE Games
  BY <1>5, InvUploadEffect, InvEraseEffect, InvSetGain, InvPlayEffect DEF Games
<1>6. CASE UNCHANGED vars
  BY <1>6 DEF vars, IInv, TypeOK, GainInv, EffectInv, Requests, Plays,
              RequestInv, PowerInRange, PassesEffect
<1>. QED  BY <1>1, <1>2, <1>3, <1>4, <1>5, <1>6 DEF Next

-----------------------------------------------------------------------------
(* Theorems                                                                *)

LEMMA DurationIs ==
  ASSUME NEW length \in Nat
  PROVE  /\ length \in 10 .. 10 * ByteMax + 9 => length - Duration(length) * 10 \in 0 .. 9
         /\ length > 10 * ByteMax + 9 => Duration(length) = ByteMax
BY RumbleAssumption DEF Duration

LEMMA DelayIs ==
  ASSUME NEW delay \in Nat
  PROVE  Delay(delay) * 10 <= delay
BY RumbleAssumption DEF Delay

\* The queue, the effects and the gains fit together at every moment: what waits
\* is what was in force, and nothing overtakes a play.
THEOREM Invariant == Spec => []IInv
BY InvInit, InvNext, PTL DEF Spec

\* inputFeedbackReceived() drives no motor beyond its limit, whatever the
\* magnitudes and the gains.
THEOREM PowerStaysInRange == Spec => []PowerInRange
<1>1. IInv => PowerInRange
  BY DEF IInv, RequestInv
<1>. QED  BY Invariant, <1>1, PTL

\* A request is made of the effect and the gain that were in force when the game
\* played it.
THEOREM EffectIsPassed == Spec => []PassesEffect
<1>1. IInv => PassesEffect
  BY DEF IInv, RequestInv
<1>. QED  BY Invariant, <1>1, PTL

\* Durations and delays lose at most what ten milliseconds cannot tell.
THEOREM TimesAreKept == Spec => []TimesKept
<1>1. IInv => TimesKept
  <2> SUFFICES ASSUME IInv, request # Quiet, ~endFailed PROVE TimesKept
    BY DEF TimesKept
  <2>1. /\ asked.effect \in Effect
        /\ request.duration = Duration(asked.effect.length)
        /\ request.delay = Delay(asked.effect.delay)
    BY DEF IInv, RequestInv
  <2>2. asked.effect.length \in Nat /\ asked.effect.delay \in Nat
    BY <2>1, RumbleAssumption DEF Effect
  <2>. QED  BY <2>1, <2>2, DurationIs, DelayIs DEF TimesKept
<1>. QED  BY Invariant, <1>1, PTL

\* When the kernel has erased the effect, the gamepad has been told to stop: the
\* stop is read first.
THEOREM ErasedStaysQuiet == Spec => []ErasedIsQuiet
<1>1. IInv => ErasedIsQuiet
  BY DEF IInv, EffectInv, ErasedIsQuiet
<1>. QED  BY Invariant, <1>1, PTL
=============================================================================
