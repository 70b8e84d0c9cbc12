-------------------------- MODULE ControllerProofs --------------------------
(***************************************************************************)
(* What holds of Controller for any number of effects and announcements:   *)
(* the threads have ended when the Controller is gone, and the gamepad     *)
(* hears nothing after POWER_OFF, and no packet has the number zero unless *)
(* the threads raced for it, which they do only after a second             *)
(* announcement.                                                           *)
(***************************************************************************)
EXTENDS Controller, TLAPS

Ended == {"none", "exited"}

\* Where the owner sends, and where it has sent its last.
Sending   == {"powerOn", "ledMode", "serial", "powerOff"}
PoweredOff == {"destroyBuffer", "destroyCondition", "interrupt", "joinEvents", "close",
               "gone"}

\* The rumble thread has been joined before the owner sends POWER_OFF, the event
\* thread before the device is closed; a crash ends them all.
Joins ==
  /\ owner \in {"powerOff"} \cup PoweredOff => rumble \in Ended
  /\ owner \in {"close", "gone"} => event \in Ended
  /\ crashed => owner = "gone"
  /\ sent = "powerOff" => owner \in PoweredOff

-----------------------------------------------------------------------------
(* Types                                                                   *)

\* What the threads count and number stays in its range.
LEMMA SequenceInRange ==
  ASSUME sequence \in 0 .. SequenceCount - 1
  PROVE  /\ NextValid \in 0 .. SequenceCount - 1
         /\ Incremented \in 0 .. SequenceCount - 1
BY ControllerAssumption DEF NextValid, Incremented

LEMMA TypeInit == Init => TypeOK
<1> SUFFICES ASSUME Init PROVE TypeOK
  OBVIOUS
<1>1. sequence \in 0 .. SequenceCount - 1 /\ used \in 0 .. SequenceCount - 1
  BY ControllerAssumption DEF Init
<1>2. plays \in 0 .. MaxPlays /\ announces \in 0 .. MaxAnnounces
      /\ mid \in Request /\ held \in Request /\ effect \in Request
  BY ControllerAssumption DEF Init, Box!Init, Request
<1>3. events \in Seq(Request)
  BY DEF Init
<1>. QED  BY <1>1, <1>2, <1>3
     DEF Init, TypeOK, Box!Init, OwnerLabel, EventLabel, RumbleLabel

\* The part of TypeOK about the GIP device, and its steps.
GipTyped ==
  /\ sequence \in 0 .. SequenceCount - 1 /\ used \in 0 .. SequenceCount - 1
  /\ checked \subseteq {"owner", "rumble"} /\ overtaken \subseteq checked
  /\ raced \in BOOLEAN
  /\ sent \in {"nothing", "powerOn", "ledMode", "serial", "rumble", "powerOff"}

LEMMA GipTypes ==
  ASSUME TypeOK, NEW thread \in {"owner", "rumble"},
         NEW command \in {"powerOn", "ledMode", "serial", "rumble", "powerOff"},
         \/ CheckSequence(thread)
         \/ Send(thread, command)
         \/ SendFails(thread)
  PROVE  GipTyped'
<1>1. sequence' \in 0 .. SequenceCount - 1 /\ used' \in 0 .. SequenceCount - 1
  BY SequenceInRange DEF TypeOK, CheckSequence, TakeSequence, Send, SendFails
<1>2. checked' \subseteq {"owner", "rumble"} /\ overtaken' \subseteq checked'
  BY DEF TypeOK, CheckSequence, TakeSequence, Send, SendFails
<1>3. raced' \in BOOLEAN
  <2>1. raced \in BOOLEAN
    BY DEF TypeOK
  <2>2. (thread \in overtaken) \in BOOLEAN
    OBVIOUS
  <2>. QED  BY <2>1, <2>2, Zenon DEF CheckSequence, Send, SendFails
<1>4. sent' \in {"nothing", "powerOn", "ledMode", "serial", "rumble", "powerOff"}
  BY DEF TypeOK, CheckSequence, Send, SendFails
<1>. QED  BY <1>1, <1>2, <1>3, <1>4 DEF GipTyped

LEMMA OwnerTypes ==
  ASSUME TypeOK, OwnerStep \/ Announce \/ Destroy
  PROVE  TypeOK'
<1>1. CASE OwnerSequence
  BY <1>1, GipTypes
  DEF TypeOK, GipTyped, OwnerSequence, boxVars, memberVars, readerVars, gameVars
<1>2. CASE Handshake
  <2>1. GipTyped'
    BY <1>2, GipTypes DEF Handshake
  <2>. QED  BY <1>2, <2>1
       DEF TypeOK, GipTyped, Handshake, OwnerLabel, boxVars, memberVars, readerVars, gameVars
<1>3. CASE PowerOff
  <2>1. GipTyped'
    BY <1>3, GipTypes DEF PowerOff
  <2>. QED  BY <1>3, <2>1
       DEF TypeOK, GipTyped, PowerOff, OwnerLabel, boxVars, memberVars, readerVars, gameVars
<1>4. CASE Announce
  BY <1>4, ControllerAssumption
  DEF TypeOK, Announce, OwnerLabel, boxVars, memberVars, readerVars, gipVars, gameVars
<1>5. CASE Create \/ StartRumble
  BY <1>5
  DEF TypeOK, Create, StartRumble, Crash, OwnerLabel, EventLabel, RumbleLabel,
      boxVars, memberVars, readerVars, gipVars, gameVars
<1>6. CASE Stop \/ OwnerNotify \/ JoinRumble \/ DestroyBuffer \/ DestroyCondition
  BY <1>6
  DEF TypeOK, Stop, OwnerNotify, Notify, JoinRumble, DestroyBuffer, DestroyCondition,
      OwnerLabel, RumbleLabel, boxVars, memberVars, readerVars, gipVars, gameVars
<1>7. CASE InterruptEvents \/ JoinEvents \/ Close \/ Destroy
  BY <1>7
  DEF TypeOK, InterruptEvents, Interrupt, JoinEvents, Close, Destroy, OwnerLabel,
      boxVars, memberVars, readerVars, gipVars, gameVars
<1>. QED  BY <1>1, <1>2, <1>3, <1>4, <1>5, <1>6, <1>7 DEF OwnerStep

LEMMA EventTypes ==
  ASSUME TypeOK, EventStep \/ ReadFails \/ Play
  PROVE  TypeOK'
<1>1. CASE ReadEvent
  <2>1. Head(events) \in Request /\ Tail(events) \in Seq(Request)
    BY <1>1 DEF ReadEvent, TypeOK
  <2>. QED  BY <1>1, <2>1
       DEF TypeOK, ReadEvent, EventLabel, boxVars, memberVars, readerVars, gipVars
<1>2. CASE Play
  <2>1. plays + 1 \in 0 .. MaxPlays
    BY <1>2, ControllerAssumption DEF Play, TypeOK
  <2>2. Append(events, plays + 1) \in Seq(Request)
    BY <2>1 DEF Request, TypeOK
  <2>. QED  BY <1>2, <2>1, <2>2 DEF TypeOK, Play, boxVars, memberVars, readerVars, gipVars
<1>3. CASE ReadStopped \/ ReadFails \/ EventNotify
  BY <1>3
  DEF TypeOK, ReadStopped, ReadFails, EventNotify, Notify, EventLabel, RumbleLabel,
      boxVars, memberVars, readerVars, gipVars, gameVars
<1>4. CASE Publish
  BY <1>4
  DEF TypeOK, Publish, Box!Publish, EventLabel, memberVars, readerVars, gipVars, gameVars
<1>5. CASE Flag
  BY <1>5
  DEF TypeOK, Flag, Box!Flag, EventLabel, memberVars, readerVars, gipVars, gameVars
<1>6. CASE UseDestroyed
  <2>0. event \in {"publish", "flag", "notify"}
    BY <1>6 DEF UseDestroyed, Needs
  <2>1. event' \in {"exited", "flag", "notify", "read"}
    BY <1>6, <2>0 DEF UseDestroyed, Crash
  <2>2. /\ owner' \in OwnerLabel /\ rumble' \in RumbleLabel /\ event' \in EventLabel
        /\ crashed' \in BOOLEAN
    BY <1>6, <2>1 DEF TypeOK, UseDestroyed, Crash, OwnerLabel, EventLabel, RumbleLabel
  <2>. QED  BY <1>6, <2>2
       DEF TypeOK, UseDestroyed, boxVars, memberVars, readerVars, gipVars, gameVars
<1>. QED  BY <1>1, <1>2, <1>3, <1>4, <1>5, <1>6 DEF EventStep

LEMMA RumbleTypes ==
  ASSUME TypeOK, RumbleStep \/ SpuriousWakeup
  PROVE  TypeOK'
<1>1. CASE RumbleSequence
  BY <1>1, GipTypes
  DEF TypeOK, GipTyped, RumbleSequence, boxVars, memberVars, readerVars, gameVars
<1>2. CASE RumbleSend
  <2>1. GipTyped'
    BY <1>2, GipTypes DEF RumbleSend
  <2>. QED  BY <1>2, <2>1
       DEF TypeOK, GipTyped, RumbleSend, RumbleLabel, boxVars, memberVars, readerVars, gameVars
<1>3. CASE RumbleCheck \/ RumbleWait \/ SpuriousWakeup
  BY <1>3
  DEF TypeOK, RumbleCheck, RumbleWait, SpuriousWakeup, RumbleLabel,
      boxVars, memberVars, readerVars, gipVars, gameVars
<1>4. CASE RumbleGet
  BY <1>4
  DEF TypeOK, RumbleGet, Box!TakeFlag, RumbleLabel, boxVars, memberVars, readerVars,
      gipVars, gameVars
<1>5. CASE RumbleSwap
  BY <1>5
  DEF TypeOK, RumbleSwap, Box!Swap, RumbleLabel, memberVars, readerVars, gipVars, gameVars
<1>. QED  BY <1>1, <1>2, <1>3, <1>4, <1>5 DEF RumbleStep

LEMMA TypeNext == TypeOK /\ [Next]_vars => TypeOK'
<1> SUFFICES ASSUME TypeOK, [Next]_vars PROVE TypeOK'
  OBVIOUS
<1>1. CASE UNCHANGED vars
  BY <1>1 DEF TypeOK, vars, boxVars, memberVars, readerVars, gipVars, gameVars
<1>. QED  BY <1>1, OwnerTypes, EventTypes, RumbleTypes DEF Next
-----------------------------------------------------------------------------
(* The joins                                                               *)

LEMMA JoinsInit == Init => Joins
BY DEF Init, Joins, Ended, PoweredOff

LEMMA JoinsOwner ==
  ASSUME TypeOK, Joins, OwnerStep \/ Announce \/ Destroy
  PROVE  Joins'
<1>1. CASE OwnerSequence \/ Handshake
  BY <1>1
  DEF Joins, OwnerSequence, CheckSequence, Handshake, TakeSequence, Send, SendFails, PoweredOff
<1>2. CASE Create
  BY <1>2 DEF Joins, Create, Crash, PoweredOff, Ended, gipVars
<1>3. CASE StartRumble \/ Announce \/ Destroy \/ Stop \/ OwnerNotify
  BY <1>3
  DEF Joins, StartRumble, Announce, Destroy, Stop, OwnerNotify, PoweredOff, gipVars
<1>4. CASE JoinRumble
  BY <1>4 DEF Joins, JoinRumble, RumbleJoined, PoweredOff, Ended, gipVars
<1>5. CASE PowerOff
  BY <1>5 DEF Joins, PowerOff, TakeSequence, Send, SendFails, PoweredOff
<1>6. CASE DestroyBuffer \/ DestroyCondition \/ InterruptEvents
  BY <1>6
  DEF Joins, DestroyBuffer, DestroyCondition, InterruptEvents, PoweredOff, Ended, gipVars
<1>7. CASE JoinEvents \/ Close
  BY <1>7 DEF Joins, JoinEvents, EventJoined, Close, PoweredOff, Ended, gipVars
<1>. QED  BY <1>1, <1>2, <1>3, <1>4, <1>5, <1>6, <1>7 DEF OwnerStep

LEMMA JoinsOthers ==
  ASSUME TypeOK, Joins, EventStep \/ RumbleStep \/ ReadFails \/ SpuriousWakeup \/ Play
  PROVE  Joins'
<1>1. CASE ReadStopped \/ ReadEvent \/ ReadFails \/ Publish \/ Flag \/ Play
  BY <1>1
  DEF Joins, ReadStopped, ReadEvent, ReadFails, Publish, Flag, Play, Ended, gipVars
<1>2. CASE EventNotify
  BY <1>2 DEF Joins, EventNotify, Notify, Ended, gipVars
<1>3. CASE UseDestroyed
  <2>1. event \in {"publish", "flag", "notify"}
    BY <1>3 DEF UseDestroyed, Needs
  <2>. QED  BY <1>3, <2>1 DEF Joins, UseDestroyed, Crash, Ended, PoweredOff, gipVars
<1>4. CASE RumbleCheck \/ RumbleWait \/ RumbleGet \/ RumbleSwap \/ SpuriousWakeup
  BY <1>4
  DEF Joins, RumbleCheck, RumbleWait, RumbleGet, RumbleSwap, SpuriousWakeup, Ended, gipVars
<1>5. CASE RumbleSequence \/ RumbleSend
  BY <1>5
  DEF Joins, RumbleSequence, RumbleSend, CheckSequence, TakeSequence, Send, SendFails, Ended, PoweredOff
<1>. QED  BY <1>1, <1>2, <1>3, <1>4, <1>5 DEF EventStep, RumbleStep

LEMMA JoinsNext == TypeOK /\ Joins /\ [Next]_vars => Joins'
<1> SUFFICES ASSUME TypeOK, Joins, [Next]_vars PROVE Joins'
  OBVIOUS
<1>1. CASE UNCHANGED vars
  BY <1>1 DEF Joins, vars, gipVars
<1>. QED  BY <1>1, JoinsOwner, JoinsOthers DEF Next

-----------------------------------------------------------------------------
(* The sequence number                                                     *)

\* A number that was looked at is not zero until another thread takes it, and a
\* packet with the number zero was sent by a thread that had been overtaken.
Checked ==
  /\ \A thread \in checked \ overtaken : sequence # 0
  /\ used = 0 => raced

\* Up to the first announcement the owner and the rumble thread send at different
\* times: the handshake comes before the rumble thread starts, which has ended before
\* POWER_OFF.
Alone ==
  /\ "owner" \in checked => owner \in Sending \/ crashed
  /\ "rumble" \in checked => rumble = "send" \/ crashed

Shaking == {"powerOn", "ledMode", "serial", "create", "startRumble"}

Once ==
  /\ owner \in Shaking \/ (rumble # "none" /\ ~crashed) => announces >= 1
  /\ announces <= 1 /\ owner \in Shaking => rumble = "none"
  /\ announces <= 1 => overtaken = {} /\ ~raced

\* The rumble thread is started after the event thread, and once.
Started ==
  /\ rumble # "none" => event # "none"
  /\ owner = "startRumble" => event # "none" /\ rumble = "none"

SequenceInv == TypeOK /\ Joins /\ Started /\ Checked /\ Alone /\ Once

LEMMA SequenceInit == Init => Started /\ Checked /\ Alone /\ Once
BY DEF Init, Started, Checked, Alone, Once, Shaking

LEMMA StartedNext ==
  ASSUME Started, [Next]_vars
  PROVE  Started'
<1>1. CASE OwnerSequence \/ Handshake \/ Announce \/ StartRumble
  BY <1>1 DEF Started, OwnerSequence, Handshake, Announce, StartRumble
<1>2. CASE Create
  BY <1>2 DEF Started, Create, Crash
<1>3. CASE \/ Stop \/ OwnerNotify \/ JoinRumble \/ PowerOff \/ DestroyBuffer
           \/ DestroyCondition \/ InterruptEvents \/ JoinEvents \/ Close \/ Destroy
  BY <1>3
  DEF Started, Stop, OwnerNotify, Notify, JoinRumble, PowerOff, DestroyBuffer,
      DestroyCondition, InterruptEvents, JoinEvents, Close, Destroy
<1>4. CASE ReadStopped \/ ReadEvent \/ ReadFails \/ Publish \/ Flag \/ Play
  BY <1>4 DEF Started, ReadStopped, ReadEvent, ReadFails, Publish, Flag, Play
<1>5. CASE EventNotify
  BY <1>5 DEF Started, EventNotify, Notify
<1>6. CASE UseDestroyed
  <2>1. event \in {"publish", "flag", "notify"}
    BY <1>6 DEF UseDestroyed, Needs
  <2>. QED  BY <1>6, <2>1 DEF Started, UseDestroyed, Crash
<1>7. CASE \/ RumbleCheck \/ RumbleWait \/ RumbleGet \/ RumbleSwap
           \/ RumbleSequence \/ RumbleSend \/ SpuriousWakeup
  BY <1>7
  DEF Started, RumbleCheck, RumbleWait, RumbleGet, RumbleSwap, RumbleSequence, RumbleSend,
      SpuriousWakeup
<1>8. CASE UNCHANGED vars
  BY <1>8 DEF Started, vars
<1>. QED  BY <1>1, <1>2, <1>3, <1>4, <1>5, <1>6, <1>7, <1>8
     DEF Next, OwnerStep, EventStep, RumbleStep

\* What the steps do to the numbers: nothing, or they check, or they take.
CheckStep == \E thread \in {"owner", "rumble"} : CheckSequence(thread)
TakeStep  == \E thread \in {"owner", "rumble"} :
               /\ TakeSequence(thread)
               /\ \/ used' = sequence /\ raced' = (thread \in overtaken)
                  \/ UNCHANGED <<used, raced>>

LEMMA OtherUnchanged ==
  ASSUME [Next]_vars,
         ~(OwnerSequence \/ RumbleSequence \/ Handshake \/ PowerOff \/ RumbleSend)
  PROVE  UNCHANGED <<sequence, checked, overtaken, used, raced>>
BY DEF Next, OwnerStep, EventStep, RumbleStep, Create, StartRumble, Stop, OwnerNotify,
       JoinRumble, DestroyBuffer, DestroyCondition, InterruptEvents, JoinEvents, Close,
       ReadStopped, ReadEvent, Publish, Flag, EventNotify, UseDestroyed, RumbleCheck,
       RumbleWait, RumbleGet, RumbleSwap, ReadFails, SpuriousWakeup, Announce, Destroy, Play,
       gipVars, vars

LEMMA OtherSteps ==
  ASSUME [Next]_vars
  PROVE  \/ UNCHANGED <<sequence, checked, overtaken, used, raced>>
         \/ CheckStep
         \/ Handshake \/ PowerOff \/ RumbleSend
<1>1. CASE OwnerSequence \/ RumbleSequence
  BY <1>1 DEF OwnerSequence, RumbleSequence, CheckStep
<1>. QED  BY <1>1, OtherUnchanged

LEMMA NumberStep ==
  ASSUME [Next]_vars
  PROVE  UNCHANGED <<sequence, checked, overtaken, used, raced>> \/ CheckStep \/ TakeStep
<1>1. CASE Handshake \/ PowerOff \/ RumbleSend
  BY <1>1 DEF Handshake, PowerOff, RumbleSend, Send, SendFails, TakeStep
<1>. QED  BY <1>1, OtherSteps

LEMMA CheckedNext ==
  ASSUME SequenceInv, [Next]_vars
  PROVE  Checked'
<1>0. Checked
  BY DEF SequenceInv
<1>1. CASE UNCHANGED <<sequence, checked, overtaken, used, raced>>
  BY <1>0, <1>1 DEF Checked
<1>2. CASE CheckStep
  <2>1. sequence' # 0 /\ UNCHANGED <<used, raced>>
    BY <1>2 DEF CheckStep, CheckSequence, NextValid
  <2>. QED  BY <1>0, <2>1 DEF Checked
<1>3. ASSUME NEW thread \in {"owner", "rumble"}, TakeSequence(thread),
             \/ used' = sequence /\ raced' = (thread \in overtaken)
             \/ UNCHANGED <<used, raced>>
      PROVE  Checked'
  <2>1. checked' \ overtaken' = {}
    BY <1>3 DEF TakeSequence
  <2>2. CASE used' = sequence /\ raced' = (thread \in overtaken)
    <3>1. sequence = 0 => thread \in overtaken
      BY <1>0, <1>3 DEF Checked, TakeSequence
    <3>2. used' = 0 => raced'
      BY <2>2, <3>1, Zenon
    <3>. QED  BY <2>1, <3>2 DEF Checked
  <2>3. CASE UNCHANGED <<used, raced>>
    BY <1>0, <2>1, <2>3 DEF Checked
  <2>. QED  BY <1>3, <2>2, <2>3
<1>. QED  BY <1>1, <1>2, <1>3, NumberStep DEF TakeStep

\* When one of the two is about to send, the other does not.
LEMMA OneSends ==
  ASSUME SequenceInv, ~crashed, announces <= 1
  PROVE  /\ owner \in Sending => "rumble" \notin checked
         /\ rumble = "send" => "owner" \notin checked
BY DEF SequenceInv, Alone, Once, Joins, Sending, Shaking, PoweredOff, Ended

LEMMA AloneNext ==
  ASSUME SequenceInv, [Next]_vars
  PROVE  Alone'
<1>0. TypeOK /\ Joins /\ Alone
  BY DEF SequenceInv
<1>1. CASE OwnerSequence \/ RumbleSequence
  BY <1>0, <1>1 DEF Alone, OwnerSequence, RumbleSequence, CheckSequence, Sending
<1>2. CASE Handshake \/ PowerOff \/ RumbleSend
  BY <1>0, <1>2
  DEF Alone, Handshake, PowerOff, RumbleSend, Send, SendFails, TakeSequence
<1>3. CASE ~(OwnerSequence \/ RumbleSequence \/ Handshake \/ PowerOff \/ RumbleSend)
  <2>1. UNCHANGED checked
    BY <1>3, OtherUnchanged
  <2>2. CASE Create \/ UseDestroyed
    <3>1. crashed' \/ (crashed' = crashed /\ owner \notin Sending /\ rumble' = rumble)
          \/ UNCHANGED <<owner, rumble, crashed>>
      BY <2>2 DEF Create, UseDestroyed, Crash, Sending
    <3>. QED  BY <1>0, <2>1, <3>1 DEF Alone
  <2>3. CASE StartRumble
    <3>1. rumble = "none" /\ owner = "startRumble" /\ UNCHANGED crashed
      BY <2>3 DEF StartRumble, Started, SequenceInv
    <3>. QED  BY <1>0, <2>1, <3>1 DEF Alone, Sending
  <2>4. CASE \/ Stop \/ OwnerNotify \/ JoinRumble \/ DestroyBuffer \/ DestroyCondition
             \/ InterruptEvents \/ JoinEvents \/ Close \/ Destroy \/ Announce
    <3>1. owner \notin Sending /\ UNCHANGED crashed /\ (rumble = "send" => rumble' = "send")
      BY <2>4
      DEF Stop, OwnerNotify, Notify, JoinRumble, DestroyBuffer, DestroyCondition,
          InterruptEvents, JoinEvents, Close, Destroy, Announce, Sending
    <3>. QED  BY <1>0, <2>1, <3>1 DEF Alone
  <2>5. CASE \/ ReadStopped \/ ReadEvent \/ ReadFails \/ Publish \/ Flag \/ EventNotify \/ Play
             \/ RumbleCheck \/ RumbleWait \/ RumbleGet \/ RumbleSwap \/ SpuriousWakeup
             \/ UNCHANGED vars
    <3>1. UNCHANGED <<owner, crashed>> /\ (rumble = "send" => rumble' = "send")
      BY <2>5
      DEF ReadStopped, ReadEvent, ReadFails, Publish, Flag, EventNotify, Notify, Play,
          RumbleCheck, RumbleWait, RumbleGet, RumbleSwap, SpuriousWakeup, vars
    <3>. QED  BY <1>0, <2>1, <3>1 DEF Alone
  <2>. QED  BY <1>3, <2>2, <2>3, <2>4, <2>5 DEF Next, OwnerStep, EventStep, RumbleStep
<1>. QED  BY <1>1, <1>2, <1>3

\* How a step changes what Once is about.
LEMMA ThreadStep ==
  ASSUME SequenceInv, [Next]_vars
  PROVE  \/ UNCHANGED <<owner, rumble, announces, crashed>>
         \/ /\ announces' = announces + 1 /\ owner = "idle" /\ owner' = "powerOn"
            /\ UNCHANGED <<rumble, crashed>>
         \/ /\ UNCHANGED announces
            /\ owner' \in Shaking => owner \in Shaking /\ (rumble = "none" => rumble' = "none")
            /\ \/ rumble = "none" /\ rumble' \in {"none", "check"} /\ owner \in Shaking
               \/ rumble # "none" /\ rumble' # "none" /\ crashed' = crashed
               \/ crashed' /\ owner' = "gone"
               \/ UNCHANGED <<rumble, crashed>>
<1>1. CASE Announce
  BY <1>1 DEF Announce
<1>2. CASE OwnerSequence \/ Handshake
  BY <1>2 DEF OwnerSequence, Handshake, Shaking
<1>3. CASE Create
  BY <1>3 DEF Create, Crash, Shaking
<1>4. CASE StartRumble
  BY <1>4 DEF StartRumble, Shaking, SequenceInv, Started
<1>5. CASE \/ Stop \/ OwnerNotify \/ JoinRumble \/ PowerOff \/ DestroyBuffer
           \/ DestroyCondition \/ InterruptEvents \/ JoinEvents \/ Close \/ Destroy
  BY <1>5
  DEF Stop, OwnerNotify, Notify, JoinRumble, PowerOff, DestroyBuffer, DestroyCondition,
      InterruptEvents, JoinEvents, Close, Destroy, Shaking
<1>6. CASE ReadStopped \/ ReadEvent \/ ReadFails \/ Publish \/ Flag \/ Play
  BY <1>6 DEF ReadStopped, ReadEvent, ReadFails, Publish, Flag, Play
<1>7. CASE EventNotify
  BY <1>7 DEF EventNotify, Notify
<1>8. CASE UseDestroyed
  BY <1>8 DEF UseDestroyed, Crash, Shaking
<1>9. CASE \/ RumbleCheck \/ RumbleWait \/ RumbleGet \/ RumbleSwap
           \/ RumbleSequence \/ RumbleSend \/ SpuriousWakeup
  BY <1>9
  DEF RumbleCheck, RumbleWait, RumbleGet, RumbleSwap, RumbleSequence, RumbleSend,
      SpuriousWakeup
<1>10. CASE UNCHANGED vars
  BY <1>10 DEF vars
<1>. QED  BY <1>1, <1>2, <1>3, <1>4, <1>5, <1>6, <1>7, <1>8, <1>9, <1>10
     DEF Next, OwnerStep, EventStep, RumbleStep

\* A step of a handshake up to the first announcement, or a step of the destructor,
\* overtakes nobody.
LEMMA OnceNext ==
  ASSUME SequenceInv, [Next]_vars
  PROVE  Once'
<1>0. TypeOK /\ Joins /\ Once /\ announces \in Nat
  BY ControllerAssumption DEF SequenceInv, TypeOK
<1>1. /\ owner \in Shaking \/ (rumble # "none" /\ ~crashed) => announces >= 1
      /\ announces <= 1 /\ owner \in Shaking => rumble = "none"
  BY <1>0 DEF Once
<1>2. announces' \in Nat /\ announces' >= announces
  BY <1>0, ThreadStep
<1>3. (owner \in Shaking \/ (rumble # "none" /\ ~crashed) => announces >= 1)'
  BY <1>0, <1>1, <1>2, ThreadStep DEF Shaking
<1>4. (announces <= 1 /\ owner \in Shaking => rumble = "none")'
  BY <1>0, <1>1, ThreadStep DEF Shaking, Joins
<1>5. ASSUME announces' <= 1 PROVE overtaken' = {} /\ ~raced'
  <2>0. announces <= 1 /\ overtaken = {} /\ ~raced
    BY <1>0, <1>2, <1>5 DEF Once
  <2>1. CASE CheckStep \/ UNCHANGED <<sequence, checked, overtaken, used, raced>>
    BY <2>0, <2>1 DEF CheckStep, CheckSequence
  <2>2. CASE Handshake \/ PowerOff
    <3>1. ~crashed /\ owner \in Sending
      BY <1>0, <2>2 DEF Joins, Handshake, PowerOff, Sending
    <3>2. checked \subseteq {"owner"}
      BY <1>0, <2>0, <3>1, OneSends DEF TypeOK
    <3>3. overtaken' = {}
      BY <2>2, <3>2 DEF Handshake, PowerOff, Send, SendFails, TakeSequence
    <3>4. raced' => "owner" \in overtaken \/ raced
      BY <2>2 DEF Handshake, PowerOff, Send, SendFails
    <3>5. "owner" \notin overtaken
      BY <2>0
    <3>. QED  BY <2>0, <3>3, <3>4, <3>5
  <2>3. CASE RumbleSend
    <3>1. ~crashed /\ rumble = "send"
      BY <1>0, <2>3 DEF Joins, RumbleSend, PoweredOff, Ended
    <3>2. checked \subseteq {"rumble"}
      BY <1>0, <2>0, <3>1, OneSends DEF TypeOK
    <3>3. overtaken' = {}
      BY <2>3, <3>2 DEF RumbleSend, Send, SendFails, TakeSequence
    <3>4. raced' => "rumble" \in overtaken \/ raced
      BY <2>3 DEF RumbleSend, Send, SendFails
    <3>5. "rumble" \notin overtaken
      BY <2>0
    <3>. QED  BY <2>0, <3>3, <3>4, <3>5
  <2>. QED  BY <2>1, <2>2, <2>3, OtherSteps
<1>. QED  BY <1>3, <1>4, <1>5 DEF Once

-----------------------------------------------------------------------------
(* Theorems                                                                *)

\* Every variable keeps its type; numbers of packets and of requests stay in their
\* ranges.
THEOREM TypeCorrect == Spec => []TypeOK
BY TypeInit, TypeNext, PTL DEF Spec

LEMMA JoinsInvariant == Spec => [](TypeOK /\ Joins)
BY TypeInit, TypeNext, JoinsInit, JoinsNext, PTL DEF Spec

\* ~Controller() and ~InputDevice() leave no thread behind.
THEOREM ThreadsAreGone == Spec => []ThreadsGone
<1>1. Joins => ThreadsGone
  BY DEF Joins, ThreadsGone, PoweredOff, Ended
<1>. QED  BY <1>1, JoinsInvariant, PTL

\* Nothing follows POWER_OFF, however often the gamepad announces itself: the rumble
\* thread was joined before.
THEOREM NothingFollowsPowerOff == Spec => PowerOffIsLast
<1>1. Joins /\ [Next]_vars => [sent # "powerOff"]_sent
  <2> SUFFICES ASSUME Joins, [Next]_vars, sent = "powerOff" PROVE sent' = sent
    OBVIOUS
  <2>1. owner \in PoweredOff /\ rumble \in Ended
    BY DEF Joins
  <2>. QED  BY <2>1
       DEF Next, OwnerStep, EventStep, RumbleStep, OwnerSequence, CheckSequence, Handshake,
           Create, StartRumble, Stop, OwnerNotify, JoinRumble, PowerOff, DestroyBuffer,
           DestroyCondition, InterruptEvents, JoinEvents, Close, ReadStopped, ReadEvent,
           Publish, Flag, EventNotify, UseDestroyed, RumbleCheck, RumbleWait, RumbleGet,
           RumbleSwap, RumbleSequence, RumbleSend, ReadFails, SpuriousWakeup, Announce,
           Destroy, Play, PoweredOff, Ended, gipVars, vars
<1>. QED  BY <1>1, JoinsInvariant, PTL DEF Spec, PowerOffIsLast

\* However often the gamepad announces itself, a packet has the number zero only if its
\* thread was overtaken within getSequence(), and up to the first announcement none is,
\* though the threads share the sequence number without a lock.
THEOREM NumbersAreValid == Spec => []SequenceValid
<1>1. Init => SequenceInv
  BY TypeInit, JoinsInit, SequenceInit DEF SequenceInv
<1>2. SequenceInv /\ [Next]_vars => SequenceInv'
  BY TypeNext, JoinsNext, StartedNext, CheckedNext, AloneNext, OnceNext DEF SequenceInv
<1>3. SequenceInv => SequenceValid
  BY DEF SequenceInv, Checked, Once, SequenceValid
<1>. QED  BY <1>1, <1>2, <1>3, PTL DEF Spec
=============================================================================
