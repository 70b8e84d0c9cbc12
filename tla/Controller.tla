----------------------------- MODULE Controller -----------------------------
(***************************************************************************)
(* The inside of a Controller (src/controller/controller.cpp) and of the   *)
(* InputDevice it owns (src/controller/input.cpp, src/utils/reader.cpp).   *)
(* Three threads meet here:                                                *)
(*   owner  - the thread of the dongle that handles announcements and, in  *)
(*            the end, destroys the Controller (one at a time: Dongle.tla  *)
(*            shows that);                                                 *)
(*   event  - InputDevice::readEvents(), which turns what games play into  *)
(*            rumble requests;                                             *)
(*   rumble - Controller::processRumble(), which sends them.               *)
(* The requests go through a Buffer, here its abstraction Mailbox, which   *)
(* Buffer.tla is shown to implement.  Every GIP packet takes a sequence    *)
(* number that all threads share (src/controller/gip.cpp).                 *)
(***************************************************************************)
EXTENDS Naturals, Sequences

CONSTANTS
  SequenceCount,  \* how many values a sequence number has: 2^8
  Faults,         \* what may fail or occur: "send", "uinput", "pipe", "write", "poll",
                  \* "spurious"
  MaxAnnounces,   \* bound: how many announcements the gamepad sends
  MaxPlays        \* bound: how many effects the games play

ASSUME ControllerAssumption ==
  /\ SequenceCount \in Nat \ {0, 1}
  /\ MaxAnnounces \in Nat
  /\ MaxPlays \in Nat

\* The requests are numbered; 0 is what a block holds that nobody has written.
Request == 0 .. MaxPlays

VARIABLES
  owner, event, rumble,  \* where each thread is
  stopRumbleThread,
  mid, held, queued, putting, taking,  \* rumbleBuffer
  effect,      \* the request the event thread passes on
  alive,       \* the members that have not been destroyed
  prepared,    \* InterruptibleReader::prepared
  stopSignal,  \* the pipe holds the stop signal
  stopLost,    \* the stop signal could not be written
  sequence,    \* GipDevice::sequence
  checked,     \* the threads between the two halves of getSequence()
  overtaken,   \* history: those of them that another thread has overtaken
  used,        \* the sequence number of the last packet
  raced,       \* history: the thread that took that number had been overtaken
  sent,        \* the command that the gamepad received last
  events,      \* what /dev/uinput has to deliver
  plays,       \* how many effects were played
  announces,   \* how many announcements were handled
  crashed      \* the process has ended abnormally

boxVars     == <<mid, held, queued, putting, taking>>
memberVars  == <<stopRumbleThread, alive>>
readerVars  == <<prepared, stopSignal, stopLost>>
gipVars     == <<sequence, checked, overtaken, used, raced, sent>>
gameVars    == <<events, plays>>
vars == <<owner, event, rumble, boxVars, memberVars, readerVars, gipVars, gameVars,
          effect, announces, crashed>>

Box == INSTANCE Mailbox WITH Value <- Request, Junk <- 0

Init ==
  /\ owner = "idle"
  /\ event = "none"
  /\ rumble = "none"
  /\ stopRumbleThread = FALSE
  /\ Box!Init
  /\ effect = 0
  /\ alive = {"rumbleBuffer", "rumbleCondition"}
  /\ prepared = FALSE
  /\ stopSignal = FALSE
  /\ stopLost = FALSE
  /\ sequence = 1
  /\ checked = {}
  /\ overtaken = {}
  /\ used = 1
  /\ raced = FALSE
  /\ sent = "nothing"
  /\ events = <<>>
  /\ plays = 0
  /\ announces = 0
  /\ crashed = FALSE

-----------------------------------------------------------------------------
(* Mutated forms of the definitions that follow                            *)

\* The destructor does not wait for the rumble thread.
RumbleJoinedAlways == TRUE

\* ~InputDevice() does not wait for the event thread.
EventJoinedAlways == TRUE

\* interrupt() forgets to write to the pipe.
InterruptSilent == prepared' = FALSE /\ UNCHANGED <<stopSignal, stopLost>>

\* getSequence() returns its number without looking for zero.
NextValidUnchecked == sequence

\* The sequence number is wider than a byte.
IncrementedUnbounded == sequence + 1

-----------------------------------------------------------------------------
(* Sending: getSequence() and sendPacket()                                 *)

\* An exception that nobody catches, or a use of destroyed memory that is fatal.
Crash ==
  /\ crashed' = TRUE
  /\ owner' = "gone"
  /\ event' = "exited"
  /\ rumble' = "exited"

\* getSequence(): zero is replaced by one ...
NextValid == IF sequence = 0 THEN 1 ELSE sequence

CheckSequence(thread) ==
  /\ thread \notin checked
  /\ sequence' = NextValid
  /\ checked' = checked \cup {thread}
  /\ UNCHANGED <<overtaken, used, raced, sent>>

\* sequence++ of a byte
Incremented == (sequence + 1) % SequenceCount

\* ... and, in a step of its own, the number is taken and counted up.
TakeSequence(thread) ==
  /\ thread \in checked
  /\ checked' = checked \ {thread}
  /\ overtaken' = checked \ {thread}
  /\ sequence' = Incremented

\* Then the packet is sent, or not.
Send(thread, command) ==
  /\ TakeSequence(thread)
  /\ used' = sequence
  /\ raced' = (thread \in overtaken)
  /\ sent' = command

SendFails(thread) ==
  /\ "send" \in Faults
  /\ TakeSequence(thread)
  /\ UNCHANGED <<used, raced, sent>>

-----------------------------------------------------------------------------
(* deviceAnnounced() and initInput()                                       *)

Announce ==
  /\ owner = "idle"
  /\ announces < MaxAnnounces
  /\ announces' = announces + 1
  /\ owner' = "powerOn"
  /\ UNCHANGED <<event, rumble, boxVars, memberVars, readerVars, gipVars, gameVars,
                 effect, crashed>>

OwnerSequence ==
  /\ owner \in {"powerOn", "ledMode", "serial", "powerOff"}
  /\ CheckSequence("owner")
  /\ UNCHANGED <<owner, event, rumble, boxVars, memberVars, readerVars, gameVars,
                 effect, announces, crashed>>

\* POWER_ON, then the LED mode, then the request of the serial number; the
\* handler returns at the first that fails.
Handshake ==
  /\ \/ owner = "powerOn" /\ Send("owner", "powerOn") /\ owner' = "ledMode"
     \/ owner = "ledMode" /\ Send("owner", "ledMode") /\ owner' = "serial"
     \/ owner = "serial"  /\ Send("owner", "serial")  /\ owner' = "create"
     \/ /\ owner \in {"powerOn", "ledMode", "serial"}
        /\ SendFails("owner")
        /\ owner' = "idle"
  /\ UNCHANGED <<event, rumble, boxVars, memberVars, readerVars, gameVars, effect,
                 announces, crashed>>

\* The device is configured and created, its reader prepared and the event
\* thread started.  A device that exists cannot be configured again.
Create ==
  /\ owner = "create"
  /\ \/ /\ event = "none"
        /\ \/ prepared' = TRUE
           \/ "pipe" \in Faults /\ UNCHANGED prepared
        /\ event' = "read"
        /\ owner' = "startRumble"
        /\ UNCHANGED <<rumble, crashed>>
     \/ /\ event # "none" \/ "uinput" \in Faults
        /\ Crash
        /\ UNCHANGED prepared
  /\ UNCHANGED <<boxVars, memberVars, stopSignal, stopLost, gipVars, gameVars, effect,
                 announces>>

\* rumbleThread = std::thread(&Controller::processRumble, this)
StartRumble ==
  /\ owner = "startRumble"
  /\ rumble' = "check"
  /\ owner' = "idle"
  /\ UNCHANGED <<event, boxVars, memberVars, readerVars, gipVars, gameVars, effect,
                 announces, crashed>>

-----------------------------------------------------------------------------
(* processRumble()                                                         *)

\* while (!stopRumbleThread)
RumbleCheck ==
  /\ rumble = "check"
  /\ rumble' = IF stopRumbleThread THEN "exited" ELSE "wait"
  /\ UNCHANGED <<owner, event, boxVars, memberVars, readerVars, gipVars, gameVars,
                 effect, announces, crashed>>

\* rumbleCondition.wait(lock): no predicate, so what happened before is not
\* asked for.
RumbleWait ==
  /\ rumble = "wait"
  /\ rumble' = "waiting"
  /\ UNCHANGED <<owner, event, boxVars, memberVars, readerVars, gipVars, gameVars,
                 effect, announces, crashed>>

SpuriousWakeup ==
  /\ "spurious" \in Faults
  /\ rumble = "waiting"
  /\ rumble' = "get"
  /\ UNCHANGED <<owner, event, boxVars, memberVars, readerVars, gipVars, gameVars,
                 effect, announces, crashed>>

\* while (rumbleBuffer.get(rumble))
RumbleGet ==
  /\ rumble = "get"
  /\ \/ Box!TakeFlag /\ rumble' = "swap"
     \/ ~queued /\ rumble' = "check" /\ UNCHANGED boxVars
  /\ UNCHANGED <<owner, event, memberVars, readerVars, gipVars, gameVars, effect,
                 announces, crashed>>

RumbleSwap ==
  /\ rumble = "swap"
  /\ Box!Swap
  /\ rumble' = "send"
  /\ UNCHANGED <<owner, event, memberVars, readerVars, gipVars, gameVars, effect,
                 announces, crashed>>

\* performRumble(rumble), whose failure is ignored
RumbleSequence ==
  /\ rumble = "send"
  /\ CheckSequence("rumble")
  /\ UNCHANGED <<owner, event, rumble, boxVars, memberVars, readerVars, gameVars,
                 effect, announces, crashed>>

RumbleSend ==
  /\ rumble = "send"
  /\ Send("rumble", "rumble") \/ SendFails("rumble")
  /\ rumble' = "get"
  /\ UNCHANGED <<owner, event, boxVars, memberVars, readerVars, gameVars, effect,
                 announces, crashed>>

\* notify_one() wakes the rumble thread if it waits, and is lost if it does not.
Notify == rumble' = IF rumble = "waiting" THEN "get" ELSE rumble

-----------------------------------------------------------------------------
(* readEvents(), InterruptibleReader::read() and inputFeedbackReceived()   *)

\* The stop signal comes before any event.
ReadStopped ==
  /\ event = "read"
  /\ stopSignal
  /\ event' = "exited"
  /\ UNCHANGED <<owner, rumble, boxVars, memberVars, readerVars, gipVars, gameVars,
                 effect, announces, crashed>>

\* The descriptors that poll() is given were never set: there was no pipe.
Unset == ~prepared /\ ~stopSignal /\ ~stopLost

\* An effect is played.
ReadEvent ==
  /\ event = "read"
  /\ ~Unset
  /\ ~stopSignal
  /\ events # <<>>
  /\ effect' = Head(events)
  /\ events' = Tail(events)
  /\ event' = "publish"
  /\ UNCHANGED <<owner, rumble, boxVars, memberVars, readerVars, gipVars, plays,
                 announces, crashed>>

\* poll() or read() fails.  A reader that could not be prepared polls two
\* descriptors nobody has set: it may wait for ever or return at once.
ReadFails ==
  /\ event = "read"
  /\ "poll" \in Faults \/ Unset
  /\ event' = "exited"
  /\ UNCHANGED <<owner, rumble, boxVars, memberVars, readerVars, gipVars, gameVars,
                 effect, announces, crashed>>

\* rumbleBuffer.put(rumble), then rumbleCondition.notify_one()
Publish ==
  /\ event = "publish"
  /\ "rumbleBuffer" \in alive
  /\ Box!Publish(effect)
  /\ event' = "flag"
  /\ UNCHANGED <<owner, rumble, memberVars, readerVars, gipVars, gameVars, effect,
                 announces, crashed>>

Flag ==
  /\ event = "flag"
  /\ "rumbleBuffer" \in alive
  /\ Box!Flag
  /\ event' = "notify"
  /\ UNCHANGED <<owner, rumble, memberVars, readerVars, gipVars, gameVars, effect,
                 announces, crashed>>

EventNotify ==
  /\ event = "notify"
  /\ "rumbleCondition" \in alive
  /\ Notify
  /\ event' = "read"
  /\ UNCHANGED <<owner, boxVars, memberVars, readerVars, gipVars, gameVars, effect,
                 announces, crashed>>

\* The member that the event thread is about to use.
Needs ==
  CASE event \in {"publish", "flag"} -> {"rumbleBuffer"}
    [] event = "notify"              -> {"rumbleCondition"}
    [] OTHER                         -> {}

\* Using a member that is destroyed is undefined: it is fatal or changes memory
\* that nobody looks at any more.
UseDestroyed ==
  /\ ~ (Needs \subseteq alive)
  /\ \/ Crash
     \/ /\ event' = (CASE event = "publish" -> "flag"
                       [] event = "flag"    -> "notify"
                       [] event = "notify"  -> "read")
        /\ UNCHANGED <<owner, rumble, crashed>>
  /\ UNCHANGED <<boxVars, memberVars, readerVars, gipVars, gameVars, effect, announces>>

-----------------------------------------------------------------------------
(* ~Controller(), the destructors of its members, and ~InputDevice()       *)

\* The dongle destroys the Controller.
Destroy ==
  /\ owner = "idle"
  /\ owner' = "stop"
  /\ UNCHANGED <<event, rumble, boxVars, memberVars, readerVars, gipVars, gameVars,
                 effect, announces, crashed>>

\* stopRumbleThread = true
Stop ==
  /\ owner = "stop"
  /\ stopRumbleThread' = TRUE
  /\ owner' = "notify"
  /\ UNCHANGED <<event, rumble, boxVars, alive, readerVars, gipVars, gameVars, effect,
                 announces, crashed>>

\* rumbleCondition.notify_one()
OwnerNotify ==
  /\ owner = "notify"
  /\ Notify
  /\ owner' = "join"
  /\ UNCHANGED <<event, boxVars, memberVars, readerVars, gipVars, gameVars, effect,
                 announces, crashed>>

\* rumbleThread is not joinable, or has ended.
RumbleJoined == rumble \in {"none", "exited"}

JoinRumble ==
  /\ owner = "join"
  /\ RumbleJoined
  /\ owner' = "powerOff"
  /\ UNCHANGED <<event, rumble, boxVars, memberVars, readerVars, gipVars, gameVars,
                 effect, announces, crashed>>

\* setPowerMode(DEVICE_ID_CONTROLLER, POWER_OFF); a failure is only logged
PowerOff ==
  /\ owner = "powerOff"
  /\ Send("owner", "powerOff") \/ SendFails("owner")
  /\ owner' = "destroyBuffer"
  /\ UNCHANGED <<event, rumble, boxVars, memberVars, readerVars, gameVars, effect,
                 announces, crashed>>

\* The members are destroyed in the reverse order of their declaration: the
\* buffer and the condition go before the input device and its event thread.
DestroyBuffer ==
  /\ owner = "destroyBuffer"
  /\ alive' = alive \ {"rumbleBuffer"}
  /\ owner' = "destroyCondition"
  /\ UNCHANGED <<event, rumble, boxVars, stopRumbleThread, readerVars, gipVars,
                 gameVars, effect, announces, crashed>>

DestroyCondition ==
  /\ owner = "destroyCondition"
  /\ alive' = alive \ {"rumbleCondition"}
  /\ owner' = IF event = "none" THEN "close" ELSE "interrupt"
  /\ UNCHANGED <<event, rumble, boxVars, stopRumbleThread, readerVars, gipVars,
                 gameVars, effect, announces, crashed>>

\* InterruptibleReader::interrupt() does nothing to a reader that is not prepared;
\* a stop signal that cannot be written is lost.
Interrupt ==
  /\ prepared' = FALSE
  /\ \/ stopSignal' = (stopSignal \/ prepared) /\ UNCHANGED stopLost
     \/ /\ prepared /\ "write" \in Faults
        /\ stopLost' = TRUE
        /\ UNCHANGED stopSignal

InterruptEvents ==
  /\ owner = "interrupt"
  /\ Interrupt
  /\ owner' = "joinEvents"
  /\ UNCHANGED <<event, rumble, boxVars, memberVars, gipVars, gameVars, effect,
                 announces, crashed>>

EventJoined == event = "exited"

JoinEvents ==
  /\ owner = "joinEvents"
  /\ EventJoined
  /\ owner' = "close"
  /\ UNCHANGED <<event, rumble, boxVars, memberVars, readerVars, gipVars, gameVars,
                 effect, announces, crashed>>

\* UI_DEV_DESTROY, close(file)
Close ==
  /\ owner = "close"
  /\ owner' = "gone"
  /\ UNCHANGED <<event, rumble, boxVars, memberVars, readerVars, gipVars, gameVars,
                 effect, announces, crashed>>

-----------------------------------------------------------------------------
\* A game plays an effect on the device: external.
Play ==
  /\ event # "none"
  /\ owner # "gone"
  /\ plays < MaxPlays
  /\ plays' = plays + 1
  /\ events' = Append(events, plays + 1)
  /\ UNCHANGED <<owner, event, rumble, boxVars, memberVars, readerVars, gipVars,
                 effect, announces, crashed>>

OwnerStep ==
  \/ OwnerSequence \/ Handshake \/ Create \/ StartRumble
  \/ Stop \/ OwnerNotify \/ JoinRumble \/ PowerOff
  \/ DestroyBuffer \/ DestroyCondition \/ InterruptEvents \/ JoinEvents \/ Close

EventStep ==
  ReadStopped \/ ReadEvent \/ Publish \/ Flag \/ EventNotify \/ UseDestroyed

RumbleStep ==
  \/ RumbleCheck \/ RumbleWait \/ RumbleGet \/ RumbleSwap
  \/ RumbleSequence \/ RumbleSend

Next ==
  \/ OwnerStep \/ EventStep \/ RumbleStep
  \/ ReadFails \/ SpuriousWakeup
  \/ Announce \/ Destroy \/ Play
  \/ owner = "gone" /\ UNCHANGED vars

Spec == Init /\ [][Next]_vars

\* The scheduler lets every thread that can run run.  Announcements, the
\* destruction, games, failures and spurious wakeups need never happen.
FairSpec ==
  Spec /\ WF_vars(OwnerStep) /\ WF_vars(EventStep) /\ WF_vars(RumbleStep)

-----------------------------------------------------------------------------
(* Properties                                                              *)

OwnerLabel == {"idle", "powerOn", "ledMode", "serial", "create", "startRumble", "stop",
               "notify", "join", "powerOff", "destroyBuffer", "destroyCondition",
               "interrupt", "joinEvents", "close", "gone"}
EventLabel == {"none", "read", "publish", "flag", "notify", "exited"}
RumbleLabel == {"none", "check", "wait", "waiting", "get", "swap", "send", "exited"}

\* The types of the variables.
TypeOK ==
  /\ owner \in OwnerLabel
  /\ event \in EventLabel
  /\ rumble \in RumbleLabel
  /\ mid \in Request /\ held \in Request /\ effect \in Request
  /\ {stopRumbleThread, queued, putting, taking, prepared, stopSignal, stopLost, raced,
      crashed} \subseteq BOOLEAN
  /\ alive \subseteq {"rumbleBuffer", "rumbleCondition"}
  /\ sequence \in 0 .. SequenceCount - 1 /\ used \in 0 .. SequenceCount - 1
  /\ checked \subseteq {"owner", "rumble"} /\ overtaken \subseteq checked
  /\ sent \in {"nothing", "powerOn", "ledMode", "serial", "rumble", "powerOff"}
  /\ events \in Seq(Request)
  /\ plays \in 0 .. MaxPlays
  /\ announces \in 0 .. MaxAnnounces

\* The gamepad hears nothing after POWER_OFF, whatever games play meanwhile: a
\* rumble packet that overtook it would reach a WCID that is being removed.
PowerOffIsLast == [][sent # "powerOff"]_sent

\* The threads share the sequence number without a lock.  However often the gamepad
\* announces itself, a packet has the invalid number zero only if another thread took
\* a number between the two halves of getSequence(); and that happens to nobody before
\* a second announcement: the rumble thread runs only after the handshake and has
\* ended before POWER_OFF.
SequenceValid ==
  /\ used = 0 => raced
  /\ announces <= 1 => ~raced

\* "Zero is an invalid sequence number" (gip.cpp).  The code does not have this
\* property: a second announcement sends while the rumble thread does.
NeverZero == used # 0

\* When the Controller is gone so are its threads.
ThreadsGone ==
  owner = "gone" => event \in {"none", "exited"} /\ rumble \in {"none", "exited"}

\* The event thread uses no member that the owner has destroyed.  The code does
\* not have this property: ~InputDevice() waits for the event thread, but the
\* buffer and the condition the callback uses were declared after the device.
NoUseAfterDestroy == Needs \subseteq alive

\* The pipe interrupts the event thread wherever it is, and however late it comes
\* to look: ~InputDevice() returns.  (Without a pipe, or when the stop signal cannot
\* be written to it, it may wait for ever.)
DeviceCloses == owner = "interrupt" /\ prepared ~> owner = "gone" \/ stopLost

\* ~Controller() returns.  The code does not have this property: its notification
\* is lost on a rumble thread that has seen stopRumbleThread clear and does not
\* wait yet.
DestructorReturns == owner = "stop" ~> owner = "gone"

\* A rumble request that is queued is taken, unless the Controller goes.  The
\* code does not have this property, for the same reason.
RumbleTaken == queued ~> (~queued \/ stopRumbleThread \/ crashed)
=============================================================================
