------------------------------- MODULE Dongle -------------------------------
(***************************************************************************)
(* The dongle: two reader threads that handle what the MT76 chip delivers  *)
(* on its two bulk endpoints, and the main thread that waits for signals   *)
(* and tears everything down (src/dongle/dongle.cpp, the client operations *)
(* of src/dongle/mt76.cpp, and src/xow.cpp).                               *)
(*                                                                         *)
(* Every USB command is a step of its own and may fail, so that the steps  *)
(* of the threads interleave between any two commands, except where the    *)
(* code holds controllerMutex.  The chip and the gamepads are external;    *)
(* they are modelled from how the code uses them.  What happens inside a   *)
(* Controller is in Controller.tla.                                        *)
(***************************************************************************)
EXTENDS Naturals, Sequences

CONSTANTS
  WcidCount,      \* MT_WCID_COUNT
  Client,         \* the addresses of the gamepads
  Endpoint,       \* the bulk endpoints; each is read by a thread of that name
  EventEndpoint,  \* MT_EP_READ: where the chip delivers its own events
  FrameEndpoints, \* the endpoints on which frames of gamepads are delivered
  Main,           \* the main thread
  Nobody,         \* no thread, no client
  Traffic,        \* the kinds of frames and events that occur, "retry", "reannounce"
  Signals,        \* the signals that occur: "usr1", "term"
  Faults,         \* what may fail: "usb", "uinput", "pipe"
  MaxFrames       \* bound: how many frames, events and signals occur

ASSUME DongleAssumption ==
  /\ WcidCount \in Nat \ {0}
  /\ EventEndpoint \in Endpoint
  /\ FrameEndpoints \subseteq Endpoint
  /\ Main \notin Endpoint
  /\ Nobody \notin Endpoint \cup {Main} \cup Client
  /\ {"free", "reserved"} \cap Client = {}
  /\ MaxFrames \in Nat

Thread == Endpoint \cup {Main}
Wcid   == 1 .. WcidCount
NoWcid == 0    \* stands for every identifier the handlers reject as invalid
Owner  == Client \cup {Nobody}

Kind  == {"associate", "announce", "input", "disassociate", "lost", "pair", "button"}
Frame == [kind : Kind, from : Owner, wcid : Wcid \cup {NoWcid}, use : Nat]

VARIABLES
  connectedClients, \* the WCIDs taken (the bits of Mt76::connectedClients)
  controllers,      \* the client whose Controller is in each slot, or Nobody
  created,          \* the slots whose Controller has created its input device
  deaf,             \* the slots whose destructor waits for a thread that was not told
                    \* to end, and Main when the pipe of its reader does not work
  controllerMutex,  \* the thread that holds it, or Nobody
  pc,               \* where each thread is
  frame,            \* what each reader handles
  wcid,             \* the local `wcid` of each reader's handler
  stopThreads,
  interrupted,      \* UsbDevice::terminate was called
  aborted,          \* an exception left a thread: std::terminate
  slot,             \* the slot whose Controller the main thread destroys next
  table,            \* chip: the address in each WCID entry, or Nobody
  uses,             \* history: how often each entry was written; a frame bears the number
                    \* of the use of its WCID, which nothing but the properties look at
  registered,       \* chip: the WCIDs added with FW_CLIENT_ADD
  led,              \* chip: the LED mode
  beacon,           \* chip: whether the beacon announces pairing
  radio,            \* chip: "on", "off", or "closed" with the USB device
  client,           \* what each gamepad believes
  inbox,            \* what each endpoint has to deliver, in order
  frames,           \* how many frames, events and signals have occurred
  pending           \* the signals that signalfd has to deliver

hostVars == <<connectedClients, controllers, created, deaf>>
chipVars == <<table, uses, registered, led, beacon, radio>>
airVars  == <<client, inbox, frames, pending>>
flowVars == <<frame, wcid, stopThreads, aborted, slot>>
vars == <<hostVars, chipVars, airVars, flowVars, controllerMutex, pc, interrupted>>

Init ==
  /\ connectedClients = {}
  /\ controllers = [w \in Wcid |-> Nobody]
  /\ created = {}
  /\ deaf = {} \/ ("pipe" \in Faults /\ deaf = {Main})
  /\ controllerMutex = Nobody
  /\ pc = [t \in Thread |-> IF t = Main THEN "poll" ELSE "loop"]
  /\ frame = [r \in Endpoint |-> [kind |-> "button", from |-> Nobody, wcid |-> NoWcid,
                                 use |-> 0]]
  /\ wcid = [r \in Endpoint |-> NoWcid]
  /\ stopThreads = FALSE
  /\ interrupted = FALSE
  /\ aborted = FALSE
  /\ slot = WcidCount
  /\ table = [w \in Wcid |-> Nobody]
  /\ uses = [w \in Wcid |-> 0]
  /\ registered = {}
  /\ led = "off"
  /\ beacon = FALSE
  /\ radio = "on"
  /\ client = [a \in Client |-> "off"]
  /\ inbox = [e \in Endpoint |-> <<>>]
  /\ frames = 0
  /\ pending = {}

-----------------------------------------------------------------------------
(* Control flow                                                            *)

Goto(t, label) == pc' = [pc EXCEPT ![t] = label]

\* Where a thread continues when its handler, or setPairingStatus(), returns.
Return(t) == Goto(t, IF t = Main THEN "poll" ELSE "loop")

\* A handler returns and its lock_guard releases the mutex.
Unlock(t) == controllerMutex' = Nobody /\ Return(t)

\* UsbDevice::bulkWrite() and controlTransfer() ask the main thread to stop
\* before they report their failure.
UsbError == "usb" \in Faults /\ interrupted' = TRUE

\* The handler of a command that failed returns at once; nothing is undone.
GiveUp(t) ==
  /\ UsbError
  /\ Unlock(t)
  /\ UNCHANGED <<hostVars, chipVars, airVars, flowVars>>

\* An exception leaves a thread: std::terminate ends the process at once, with
\* none of the destructors.
Abort ==
  /\ aborted' = TRUE
  /\ pc' = [t \in Thread |-> "exited"]
  /\ controllerMutex' = Nobody

-----------------------------------------------------------------------------
(* Mutated forms of the definitions that follow, each a bug the code could *)
(* have: the runs show that the properties notice them.                    *)

\* The mask of WCIDs has one bit more than there are slots.
FreeWcidsBeyondSlots == (1 .. WcidCount + 1) \ connectedClients

\* The mask of the WCIDs that are taken is not consulted.
FreeWcidsIgnoringTaken == Wcid

\* BIT(wcid) instead of BIT(wcid - 1)
WithoutWcidOffByOne(w) == connectedClients \ {w + 1}

\* removeClient() darkens the LED without asking for the last client.
LastClientLeftAlways == TRUE

\* ~Controller() runs, but the slot keeps the pointer.
DestroyControllerInPlace(w) ==
  /\ created' = created \ {w}
  /\ client' = IF client[controllers[w]] \in {"on", "ready"}
               THEN [client EXCEPT ![controllers[w]] = "off"] ELSE client
  /\ UNCHANGED <<controllers, deaf, interrupted>>

\* ~Dongle() joins one of its threads.
JoinedOne == \E r \in Endpoint : pc[r] = "exited"

\* bulkRead() has no timeout: it waits until there is data.
BulkTimeoutNever(r) == pc[r] = "bulk" /\ inbox[r] = <<>> /\ UNCHANGED vars

-----------------------------------------------------------------------------
(* connectedClients as a set                                               *)

\* ~connectedClients
FreeWcids == Wcid \ connectedClients

\* Mutated form of FirstFree: the last free bit
LastFree == CHOOSE w \in FreeWcids : \A v \in FreeWcids : w >= v

\* __builtin_ffs(freeIds)
FirstFree == CHOOSE w \in FreeWcids : \A v \in FreeWcids : w <= v

\* connectedClients & ~BIT(wcid - 1)
WithoutWcid(w) == connectedClients \ {w}

\* connectedClients == 0
LastClientLeft == connectedClients = {}

-----------------------------------------------------------------------------
(* readBulkPackets(), handleBulkData() and handleWlanPacket()              *)

\* while (!stopThreads)
Loop(r) ==
  /\ pc[r] = "loop"
  /\ Goto(r, IF stopThreads THEN "exited" ELSE "bulk")
  /\ UNCHANGED <<hostVars, chipVars, airVars, flowVars, controllerMutex, interrupted>>

\* The handler of each kind of frame or event; identifiers out of range are
\* rejected before the mutex is taken.
Handler(f) ==
  CASE f.kind = "associate" -> "connect"
    [] f.kind \in {"disassociate", "lost"} -> IF f.wcid = NoWcid THEN "loop" ELSE "disconnect"
    [] f.kind \in {"announce", "input"}    -> IF f.wcid = NoWcid THEN "loop" ELSE "packet"
    [] f.kind = "pair"   -> "pair"
    [] f.kind = "button" -> "beacon"

\* bulkRead() delivered data.
BulkData(r) ==
  /\ pc[r] = "bulk"
  /\ inbox[r] # <<>>
  /\ LET f == Head(inbox[r])
     IN  /\ frame' = [frame EXCEPT ![r] = f]
         /\ wcid' = [wcid EXCEPT ![r] = f.wcid]
         /\ Goto(r, Handler(f))
  /\ inbox' = [inbox EXCEPT ![r] = Tail(@)]
  /\ UNCHANGED <<hostVars, chipVars, client, frames, pending, stopThreads, aborted,
                 slot, controllerMutex, interrupted>>

\* bulkRead() timed out: nothing was transferred.
BulkTimeout(r) ==
  /\ pc[r] = "bulk"
  /\ inbox[r] = <<>>
  /\ Goto(r, "loop")
  /\ UNCHANGED <<hostVars, chipVars, airVars, flowVars, controllerMutex, interrupted>>

\* bulkRead() failed: the thread ends.
BulkError(r) ==
  /\ pc[r] = "bulk"
  /\ UsbError
  /\ Goto(r, "exited")
  /\ UNCHANGED <<hostVars, chipVars, airVars, flowVars, controllerMutex>>

-----------------------------------------------------------------------------
(* handleControllerConnect() and associateClient()                         *)

\* The mutex is taken, then the first free WCID; without one nothing happens.
Connect(r) ==
  /\ pc[r] = "connect"
  /\ controllerMutex = Nobody
  /\ IF FreeWcids = {}
     THEN /\ Return(r)
          /\ UNCHANGED <<connectedClients, controllerMutex, wcid>>
     ELSE /\ connectedClients' = connectedClients \cup {FirstFree}
          /\ wcid' = [wcid EXCEPT ![r] = FirstFree]
          /\ controllerMutex' = r
          /\ Goto(r, "writeWcid")
  /\ UNCHANGED <<controllers, created, deaf, chipVars, airVars, frame, stopThreads,
                 aborted, slot, interrupted>>

\* burstWrite(MT_WCID_ADDR(wcid), address)
WriteWcid(r) ==
  /\ pc[r] = "writeWcid"
  /\ \/ /\ table' = [table EXCEPT ![wcid[r]] = frame[r].from]
        /\ uses' = [uses EXCEPT ![wcid[r]] = @ + 1]
        /\ Goto(r, "addClient")
        /\ UNCHANGED <<hostVars, registered, led, beacon, radio, airVars, flowVars,
                       controllerMutex, interrupted>>
     \/ GiveUp(r)

\* sendFirmwareCommand(FW_CLIENT_ADD, wcidData)
AddClient(r) ==
  /\ pc[r] = "addClient"
  /\ \/ /\ registered' = registered \cup {wcid[r]}
        /\ Goto(r, "respond")
        /\ UNCHANGED <<hostVars, table, uses, led, beacon, radio, airVars, flowVars,
                       controllerMutex, interrupted>>
     \/ GiveUp(r)

\* The association response; a gamepad that still waits for it is connected.
Respond(r) ==
  /\ pc[r] = "respond"
  /\ \/ /\ client' = [client EXCEPT ![frame[r].from] = IF @ = "asking" THEN "on" ELSE @]
        /\ Goto(r, "ledOn")
        /\ UNCHANGED <<hostVars, chipVars, inbox, frames, pending, flowVars,
                       controllerMutex, interrupted>>
     \/ GiveUp(r)

\* setLedMode(MT_LED_ON)
LedOn(r) ==
  /\ pc[r] = "ledOn"
  /\ \/ /\ led' = "on"
        /\ Goto(r, "newController")
        /\ UNCHANGED <<hostVars, table, uses, registered, beacon, radio, airVars, flowVars,
                       controllerMutex, interrupted>>
     \/ GiveUp(r)

\* controllers[wcid - 1].reset(new Controller(sendPacket)); the constructor of
\* the input device throws when /dev/uinput cannot be opened.
NewController(r) ==
  /\ pc[r] = "newController"
  /\ \/ /\ controllers' = [controllers EXCEPT ![wcid[r]] = frame[r].from]
        /\ created' = created \ {wcid[r]}
        /\ Unlock(r)
        /\ UNCHANGED aborted
     \/ /\ "uinput" \in Faults
        /\ Abort
        /\ UNCHANGED <<controllers, created>>
  /\ UNCHANGED <<connectedClients, deaf, chipVars, airVars, frame, wcid, stopThreads,
                 slot, interrupted>>

-----------------------------------------------------------------------------
(* handleControllerDisconnect() and removeClient()                         *)

Disconnect(r) ==
  /\ pc[r] = "disconnect"
  /\ controllerMutex = Nobody
  /\ IF controllers[wcid[r]] = Nobody
     THEN Return(r) /\ UNCHANGED controllerMutex
     ELSE Goto(r, "stopRumble") /\ controllerMutex' = r
  /\ UNCHANGED <<hostVars, chipVars, airVars, flowVars, interrupted>>

\* The slot whose Controller a thread destroys: controllers[wcid - 1].reset(), or
\* the destructor of the array.
Slot(t) == IF t = Main THEN slot ELSE wcid[t]

\* ~Controller(): stopRumbleThread = true; notify_one().  The rumble thread, which
\* runs once the input device was created, misses the notification if it has
\* looked at stopRumbleThread and does not wait yet (Controller.tla).
StopRumble(t) ==
  /\ pc[t] = "stopRumble"
  /\ Goto(t, "powerOff")
  /\ \/ UNCHANGED deaf
     \/ Slot(t) \in created /\ deaf' = deaf \cup {Slot(t)}
  /\ UNCHANGED <<connectedClients, controllers, created, chipVars, airVars, flowVars,
                 controllerMutex, interrupted>>

\* What a gamepad does with POWER_OFF.
PoweredOff(a) == [client EXCEPT ![a] = IF @ \in {"on", "ready"} THEN "off" ELSE @]

\* The rest of ~Controller() for slot w.  It powers its gamepad off;
\* sendClientPacket() sends nothing to a WCID that is not taken, and a failure is
\* only logged.  ~InputDevice() then interrupts its event thread, which does not
\* hear of it if the pipe does not work.
DestroyController(w) ==
  /\ controllers' = [controllers EXCEPT ![w] = Nobody]
  /\ created' = created \ {w}
  /\ \/ UNCHANGED deaf
     \/ "pipe" \in Faults /\ w \in created /\ deaf' = deaf \cup {w}
  /\ \/ /\ client' = IF w \in connectedClients THEN PoweredOff(controllers[w]) ELSE client
        /\ UNCHANGED interrupted
     \/ /\ w \in connectedClients
        /\ UsbError
        /\ UNCHANGED client

\* The join of the rumble thread returns.
PowerOff(t) ==
  /\ pc[t] = "powerOff"
  /\ Slot(t) \notin deaf
  /\ DestroyController(Slot(t))
  /\ Goto(t, "closeInput")
  /\ UNCHANGED <<connectedClients, chipVars, inbox, frames, pending, flowVars,
                 controllerMutex>>

\* The join of the event thread returns.
CloseInput(t) ==
  /\ pc[t] = "closeInput"
  /\ Slot(t) \notin deaf
  /\ Goto(t, IF t = Main THEN "destroy" ELSE "removeClient")
  /\ UNCHANGED <<hostVars, chipVars, airVars, flowVars, controllerMutex, interrupted>>

\* A thread that was not told to end ends all the same: a game plays an effect and
\* notifies the rumble thread, or a poll() of nothing returns.
Wakes(w) ==
  /\ w \in deaf
  /\ deaf' = deaf \ {w}
  /\ UNCHANGED <<connectedClients, controllers, created, chipVars, airVars, flowVars,
                 controllerMutex, pc, interrupted>>

\* performRumble() of a rumble thread asks sendClientPacket(), without the mutex,
\* whether its WCID is taken, and its transfer fails.
RumbleFails(w) ==
  /\ w \in created \cap connectedClients
  /\ ~aborted
  /\ UsbError
  /\ UNCHANGED <<hostVars, chipVars, airVars, flowVars, controllerMutex, pc>>

\* The WCID is free again, then sendFirmwareCommand(FW_CLIENT_REMOVE, wcidData).
RemoveClient(r) ==
  /\ pc[r] = "removeClient"
  /\ connectedClients' = WithoutWcid(wcid[r])
  /\ \/ /\ registered' = registered \ {wcid[r]}
        /\ Goto(r, "clearWcid")
        /\ UNCHANGED <<controllerMutex, interrupted>>
     \/ /\ UsbError
        /\ Unlock(r)
        /\ UNCHANGED registered
  /\ UNCHANGED <<controllers, created, deaf, table, uses, led, beacon, radio, airVars,
                 flowVars>>

\* burstWrite(MT_WCID_ADDR(wcid), emptyAddress); the last client to go darkens
\* the LED.
ClearWcid(r) ==
  /\ pc[r] = "clearWcid"
  /\ \/ /\ table' = [table EXCEPT ![wcid[r]] = Nobody]
        /\ IF LastClientLeft
           THEN Goto(r, "ledOff") /\ UNCHANGED controllerMutex
           ELSE Unlock(r)
        /\ UNCHANGED <<hostVars, uses, registered, led, beacon, radio, airVars,
                       flowVars, interrupted>>
     \/ GiveUp(r)

\* setLedMode(MT_LED_OFF)
LedOff(r) ==
  /\ pc[r] = "ledOff"
  /\ \/ /\ led' = "off"
        /\ Unlock(r)
        /\ UNCHANGED <<hostVars, table, uses, registered, beacon, radio, airVars, flowVars,
                       interrupted>>
     \/ GiveUp(r)

-----------------------------------------------------------------------------
(* handleControllerPacket()                                                *)

\* Configuring an input device that exists, and emitting events on one that
\* does not, fails; the InputException ends the reader thread and with it
\* the process.
Throws(r) ==
  IF frame[r].kind = "announce" THEN wcid[r] \in created ELSE wcid[r] \notin created

\* The packet is for the Controller that is in the slot now.  It sends an
\* acknowledgement if the packet asks for one; an announcement sends POWER_ON,
\* the LED mode and the request of the serial number, and then creates the
\* input device.  The handler gives up at the first of these that fails.
Packet(r) ==
  /\ pc[r] = "packet"
  /\ controllerMutex = Nobody
  /\ LET heard == controllers[wcid[r]] # Nobody
     IN  \/ /\ heard => ~Throws(r)
            /\ created' = IF heard /\ frame[r].kind = "announce"
                          THEN created \cup {wcid[r]} ELSE created
            /\ Return(r)
            /\ UNCHANGED <<aborted, controllerMutex, interrupted>>
         \/ /\ heard
            /\ Throws(r) \/ (frame[r].kind = "announce" /\ "uinput" \in Faults)
            /\ Abort
            /\ UNCHANGED <<created, interrupted>>
         \/ /\ heard
            /\ UsbError
            /\ Return(r)
            /\ UNCHANGED <<created, aborted, controllerMutex>>
  /\ UNCHANGED <<connectedClients, controllers, deaf, chipVars, airVars, frame, wcid,
                 stopThreads, slot>>

-----------------------------------------------------------------------------
(* handleControllerPair() and setPairingStatus(), which takes no lock      *)

\* A command of setPairingStatus() failed: it returns.
PairingError(t) ==
  /\ UsbError
  /\ Return(t)
  /\ UNCHANGED <<hostVars, chipVars, airVars, flowVars, controllerMutex>>

\* pairClient(): the pairing packet is sent.
Pair(r) ==
  /\ pc[r] = "pair"
  /\ \/ /\ Goto(r, "beacon")
        /\ UNCHANGED <<hostVars, chipVars, airVars, flowVars, controllerMutex, interrupted>>
     \/ PairingError(r)

\* The argument of setPairingStatus(): a gamepad that has paired ends pairing,
\* the button of the dongle and SIGUSR1 begin it.
Enable(t) == t = Main \/ frame[t].kind = "button"

\* writeBeacon(enable), its burstWrite and its control transfers, whose failure the
\* caller does not learn of ...
Beacon(t) ==
  /\ pc[t] = "beacon"
  /\ \/ /\ beacon' = Enable(t)
        /\ Goto(t, "calibrate")
        /\ UNCHANGED interrupted \/ UsbError
        /\ UNCHANGED <<hostVars, table, uses, registered, led, radio, airVars, flowVars,
                       controllerMutex>>
     \/ PairingError(t)

\* ... and its calibration, which changes nothing that is modelled
Calibrate(t) ==
  /\ pc[t] = "calibrate"
  /\ \/ /\ Goto(t, "ledPair")
        /\ UNCHANGED <<hostVars, chipVars, airVars, flowVars, controllerMutex, interrupted>>
     \/ PairingError(t)

\* enable ? MT_LED_BLINK : MT_LED_ON
PairingLed(enable) == IF enable THEN "blink" ELSE "on"

\* setLedMode() of it
LedPair(t) ==
  /\ pc[t] = "ledPair"
  /\ \/ /\ led' = PairingLed(Enable(t))
        /\ Return(t)
        /\ UNCHANGED <<hostVars, table, uses, registered, beacon, radio, airVars, flowVars,
                       controllerMutex, interrupted>>
     \/ PairingError(t)

-----------------------------------------------------------------------------
(* main() and the destructors of Dongle and Mt76                           *)

\* signalReader.read() returns: an interruption comes before any signal.  It is not
\* heard when the pipe of the reader could not be made or written to.
Heard == interrupted /\ Main \notin deaf

Poll ==
  /\ pc[Main] = "poll"
  /\ \/ /\ Heard
        /\ Goto(Main, "stop")
        /\ UNCHANGED pending
     \/ /\ ~Heard
        /\ \E s \in pending :
             /\ pending' = pending \ {s}
             /\ Goto(Main, IF s = "usr1" THEN "beacon" ELSE "stop")
  /\ UNCHANGED <<hostVars, chipVars, client, inbox, frames, flowVars, controllerMutex,
                 interrupted>>

\* A reader that could not be prepared polls descriptors that nobody has set, and
\* poll() may return at once.
PollFails ==
  /\ pc[Main] = "poll"
  /\ Main \in deaf
  /\ Goto(Main, "stop")
  /\ UNCHANGED <<hostVars, chipVars, airVars, flowVars, controllerMutex, interrupted>>

\* ~Dongle(): stopThreads = true
Stop ==
  /\ pc[Main] = "stop"
  /\ stopThreads' = TRUE
  /\ Goto(Main, "join")
  /\ UNCHANGED <<hostVars, chipVars, airVars, frame, wcid, aborted, slot,
                 controllerMutex, interrupted>>

\* ~Dongle(): every reader is joined
Joined == \A r \in Endpoint : pc[r] = "exited"

Join ==
  /\ pc[Main] = "join"
  /\ Joined
  /\ Goto(Main, "destroy")
  /\ UNCHANGED <<hostVars, chipVars, airVars, flowVars, controllerMutex, interrupted>>

\* The array of controllers is destroyed, the last slot first.
Destroy ==
  /\ pc[Main] = "destroy"
  /\ slot > 0
  /\ IF controllers[slot] = Nobody
     THEN slot' = slot - 1 /\ UNCHANGED pc
     ELSE Goto(Main, "stopRumble") /\ UNCHANGED slot
  /\ UNCHANGED <<hostVars, chipVars, airVars, frame, wcid, stopThreads, aborted,
                 controllerMutex, interrupted>>

\* ~Mt76(): setLedMode(MT_LED_OFF); a failure is only logged
Darken ==
  /\ pc[Main] = "destroy"
  /\ slot = 0
  /\ \/ led' = "off" /\ UNCHANGED interrupted
     \/ UsbError /\ UNCHANGED led
  /\ Goto(Main, "radioOff")
  /\ UNCHANGED <<hostVars, table, uses, registered, beacon, radio, airVars, flowVars,
                 controllerMutex>>

\* ~Mt76(): powerMode(RADIO_OFF); a failure is only logged
RadioOff ==
  /\ pc[Main] = "radioOff"
  /\ \/ radio' = "off" /\ UNCHANGED interrupted
     \/ UsbError /\ UNCHANGED radio
  /\ Goto(Main, "close")
  /\ UNCHANGED <<hostVars, table, uses, registered, led, beacon, airVars, flowVars,
                 controllerMutex>>

\* ~UsbDevice(); main() returns
Close ==
  /\ pc[Main] = "close"
  /\ radio' = "closed"
  /\ Goto(Main, "exited")
  /\ UNCHANGED <<hostVars, table, uses, registered, led, beacon, airVars, flowVars,
                 controllerMutex, interrupted>>

-----------------------------------------------------------------------------
(* The chip, the gamepads and the user: external                           *)

\* The process is gone.
Ended == pc[Main] = "exited"

\* An occurrence: something the chip delivers on endpoint e, or a signal.
Occurs(kind) ==
  /\ kind \in Traffic \cup Signals
  /\ frames < MaxFrames
  /\ ~Ended
  /\ frames' = frames + 1
  /\ UNCHANGED <<hostVars, chipVars, flowVars, controllerMutex, pc, interrupted>>

Deliver(e, kind, a, w) ==
  /\ radio = "on"
  /\ inbox' = [inbox EXCEPT ![e] =
                  Append(@, [kind |-> kind, from |-> a, wcid |-> w,
                             use |-> IF w = NoWcid THEN 0 ELSE uses[w]])]
  /\ UNCHANGED pending

\* The chip stamps a frame with the entry that holds the address of its
\* sender, or with an identifier the handlers reject.
Stamps(a) == LET known == {w \in Wcid : table[w] = a}
             IN  IF known = {} THEN {NoWcid} ELSE known

Becomes(a, state) == client' = [client EXCEPT ![a] = state]

\* A gamepad asks to associate.
Associate(a) ==
  /\ client[a] = "off"
  /\ Occurs("associate")
  /\ Becomes(a, "asking")
  /\ \E e \in FrameEndpoints : Deliver(e, "associate", a, NoWcid)

\* It has not heard a response and asks again.
AskAgain(a) ==
  /\ client[a] = "asking"
  /\ Occurs("retry")
  /\ UNCHANGED client
  /\ \E e \in FrameEndpoints : Deliver(e, "associate", a, NoWcid)

\* Connected, it announces itself, and then sends its inputs.
Announce(a) ==
  /\ client[a] = "on"
  /\ Occurs("announce")
  /\ Becomes(a, "ready")
  /\ \E e \in FrameEndpoints, w \in Stamps(a) : Deliver(e, "announce", a, w)

Input(a) ==
  /\ client[a] = "ready"
  /\ Occurs("input")
  /\ UNCHANGED client
  /\ \E e \in FrameEndpoints, w \in Stamps(a) : Deliver(e, "input", a, w)

\* It announces itself once more.
AnnounceAgain(a) ==
  /\ client[a] = "ready"
  /\ Occurs("reannounce")
  /\ UNCHANGED client
  /\ \E e \in FrameEndpoints, w \in Stamps(a) : Deliver(e, "announce", a, w)

Disassociate(a) ==
  /\ client[a] \in {"on", "ready"}
  /\ Occurs("disassociate")
  /\ Becomes(a, "off")
  /\ \E e \in FrameEndpoints, w \in Stamps(a) : Deliver(e, "disassociate", a, w)

\* It goes out of range or loses its power; the chip will report it, and it is
\* back only after that.
Vanish(a) ==
  /\ client[a] \in {"on", "ready"}
  /\ "lost" \in Traffic
  /\ ~Ended
  /\ Becomes(a, "gone")
  /\ UNCHANGED <<hostVars, chipVars, inbox, frames, pending, flowVars,
                 controllerMutex, pc, interrupted>>

LoseClient(w) ==
  /\ w \in registered
  /\ table[w] # Nobody
  /\ client[table[w]] = "gone"
  /\ Occurs("lost")
  /\ Becomes(table[w], "off")
  /\ Deliver(EventEndpoint, "lost", table[w], w)

\* A gamepad that is not connected asks to be paired.
AskToPair(a) ==
  /\ client[a] = "off"
  /\ Occurs("pair")
  /\ UNCHANGED client
  /\ \E e \in FrameEndpoints : Deliver(e, "pair", a, NoWcid)

\* The button of the dongle is pressed.
PressButton ==
  /\ Occurs("button")
  /\ UNCHANGED client
  /\ Deliver(EventEndpoint, "button", Nobody, NoWcid)

\* A signal arrives; signals of the same kind coalesce until they are read.
Signal(s) ==
  /\ Occurs(s)
  /\ pending' = pending \cup {s}
  /\ UNCHANGED <<client, inbox>>

-----------------------------------------------------------------------------
ReaderStep(r) ==
  \/ Loop(r) \/ BulkData(r) \/ BulkTimeout(r)
  \/ Connect(r) \/ WriteWcid(r) \/ AddClient(r) \/ Respond(r) \/ LedOn(r)
  \/ NewController(r)
  \/ Disconnect(r) \/ RemoveClient(r) \/ ClearWcid(r) \/ LedOff(r)
  \/ Packet(r)
  \/ Pair(r)

DestructorStep(t) == StopRumble(t) \/ PowerOff(t) \/ CloseInput(t)

PairingStep(t) == Beacon(t) \/ Calibrate(t) \/ LedPair(t)

MainStep == Poll \/ Stop \/ Join \/ Destroy \/ Darken \/ RadioOff \/ Close

AirStep ==
  \/ \E a \in Client : \/ Associate(a) \/ AskAgain(a) \/ Announce(a) \/ Input(a)
                       \/ AnnounceAgain(a) \/ Disassociate(a) \/ Vanish(a) \/ AskToPair(a)
  \/ \E w \in Wcid : LoseClient(w)
  \/ PressButton
  \/ \E s \in Signals : Signal(s)

Next ==
  \/ \E r \in Endpoint : ReaderStep(r) \/ BulkError(r)
  \/ \E t \in Thread : PairingStep(t) \/ DestructorStep(t)
  \/ MainStep \/ PollFails
  \/ \E w \in Wcid : Wakes(w) \/ RumbleFails(w)
  \/ AirStep
  \/ Ended /\ UNCHANGED vars

Spec == Init /\ [][Next]_vars

\* The scheduler lets every thread that can run run, and a USB transfer ends,
\* if only by its timeout.  Nothing is assumed of the air, of the user and of what
\* would wake a thread that was not told to end, and no failure has to happen: each
\* step that is fair can succeed.
FairSpec ==
  /\ Spec
  /\ \A r \in Endpoint : WF_vars(ReaderStep(r) \/ PairingStep(r) \/ DestructorStep(r))
  /\ WF_vars(MainStep \/ PairingStep(Main) \/ DestructorStep(Main))

-----------------------------------------------------------------------------
(* Properties                                                              *)

Label == {"loop", "bulk", "connect", "writeWcid", "addClient", "respond", "ledOn",
          "newController", "disconnect", "stopRumble", "powerOff", "closeInput",
          "removeClient", "clearWcid", "ledOff", "packet", "pair", "beacon", "calibrate",
          "ledPair", "exited"}
MainLabel == {"poll", "beacon", "calibrate", "ledPair", "stop", "join", "destroy",
              "stopRumble", "powerOff", "closeInput", "radioOff", "close", "exited"}

\* The types of the variables, by group.
HostType == /\ connectedClients \subseteq Wcid
            /\ controllers \in [Wcid -> Owner]
            /\ created \subseteq Wcid
            /\ deaf \subseteq Wcid \cup {Main}

ThreadType == /\ controllerMutex \in Endpoint \cup {Nobody}
              /\ DOMAIN pc = Thread
              /\ \A r \in Endpoint : pc[r] \in Label
              /\ pc[Main] \in MainLabel

LocalType == /\ frame \in [Endpoint -> Frame]
             /\ wcid \in [Endpoint -> Wcid \cup {NoWcid}]
             /\ stopThreads \in BOOLEAN
             /\ interrupted \in BOOLEAN
             /\ aborted \in BOOLEAN
             /\ slot \in 0 .. WcidCount

ChipType == /\ table \in [Wcid -> Owner]
            /\ uses \in [Wcid -> Nat]
            /\ registered \subseteq Wcid
            /\ led \in {"off", "on", "blink"}
            /\ beacon \in BOOLEAN
            /\ radio \in {"on", "off", "closed"}

AirType == /\ client \in [Client -> {"off", "asking", "on", "ready", "gone"}]
           /\ inbox \in [Endpoint -> Seq(Frame)]
           /\ frames \in 0 .. MaxFrames
           /\ pending \subseteq Signals

\* The type of every variable.  connectedClients is a 16-bit mask beside an array
\* of MT_WCID_COUNT slots: a WCID that is taken is always the index of a slot.
TypeOK == HostType /\ ThreadType /\ LocalType /\ ChipType /\ AirType

\* The labels between lock and unlock of controllerMutex.
Critical == {"writeWcid", "addClient", "respond", "ledOn", "newController",
             "stopRumble", "powerOff", "closeInput", "removeClient", "clearWcid", "ledOff"}

Destroying == {"destroy", "stopRumble", "powerOff", "closeInput", "radioOff", "close"}
ShuttingDown == pc[Main] \in Destroying \cup {"exited"}

\* No two readers are between lock and unlock, and the main thread destroys the
\* controllers, without the mutex, only when no reader is.
MutualExclusion ==
  /\ \A r \in Endpoint : pc[r] \in Critical <=> controllerMutex = r
  /\ ShuttingDown => \A r \in Endpoint : pc[r] = "exited"

\* A Controller is only ever in a slot whose WCID is taken: otherwise
\* sendClientPacket() would drop what it sends, its POWER_OFF included.  A rumble
\* thread, which looks at connectedClients without the mutex, lives only while its
\* WCID is taken.
SlotHoldsWcid ==
  /\ \A w \in Wcid : controllers[w] # Nobody => w \in connectedClients
  /\ created \subseteq connectedClients

\* The four views of who is connected agree: the bits of connectedClients, the array
\* of controllers, the WCID table of the chip and the clients its firmware was told
\* of.  Whatever failed, the chip knows the gamepad of every Controller; and between
\* two handlers, unless a USB command failed, it knows nobody else.
ViewsAgree ==
  /\ \A w \in Wcid : controllers[w] # Nobody =>
       w \in registered /\ table[w] = controllers[w]
  /\ controllerMutex = Nobody /\ ~interrupted /\ ~ShuttingDown =>
       /\ table = controllers
       /\ registered = connectedClients
       /\ connectedClients = {w \in Wcid : controllers[w] # Nobody}

\* Whatever the order of connections, disconnections and pairings on the two
\* readers, the LED is not dark while a gamepad is connected.
LitWhileConnected ==
  controllerMutex = Nobody /\ ~interrupted /\ ~ShuttingDown /\ connectedClients # {} =>
    led # "off"

\* When the radio is off every gamepad that was connected has been told to
\* power off, the ones included whose handshake the shutdown overtook.
PoweredOffAtExit ==
  radio # "on" /\ ~interrupted => \A a \in Client : client[a] \notin {"on", "ready"}

\* A frame or an event reaches the Controller of the gamepad it is about, or nobody,
\* unless the entry of its WCID was written anew while it waited: whatever fails, and
\* in whatever order the endpoints deliver and the readers get the mutex, only the
\* reuse of a WCID misleads a frame.
OnlyReuseMisleads ==
  \A r \in Endpoint :
    pc[r] \in {"disconnect", "packet"} /\ frame[r].use = uses[wcid[r]] =>
      controllers[wcid[r]] \in {Nobody, frame[r].from}

\* The same of every frame.  The code does not have this property: a frame that waits
\* in one reader finds another gamepad in the slot that its sender has left.
RightController ==
  ~interrupted => \A r \in Endpoint :
    pc[r] \in {"disconnect", "packet"} =>
      controllers[wcid[r]] \in {Nobody, frame[r].from}

\* No exception ends the process.  The code does not have this property: an input that
\* overtakes the announcement on the other endpoint, and a second announcement, throw.
NoAbort == ~aborted

PairingStable ==
  \A t \in Thread : pc[t] \notin {"calibrate", "ledPair"}

\* Between two calls of setPairingStatus(), and unless a USB command failed, a LED that
\* blinks promises that pairing is enabled, whatever connects and leaves.  The code does
\* not have this property: two readers, or a reader and the main thread, are in
\* setPairingStatus() at the same time, which takes no lock.
BlinkIsPairing ==
  PairingStable /\ ~interrupted /\ ~ShuttingDown /\ led = "blink" => beacon

\* The dongle as its slots show it: a slot whose WCID is taken and that has no
\* Controller is reserved.
Content(w) ==
  IF controllers[w] # Nobody THEN controllers[w]
  ELSE IF w \in connectedClients THEN "reserved" ELSE "free"

Phase == CASE pc[Main] = "exited" -> "closed"
           [] pc[Main] \in Destroying -> "closing"
           [] OTHER -> "up"

Promise == INSTANCE AccessPoint WITH
  SlotCount <- WcidCount, Gamepad <- Client, Free <- "free", Reserved <- "reserved",
  slots <- [w \in Wcid |-> Content(w)], faulty <- interrupted \/ aborted, phase <- Phase

\* The threads together implement the access point: though every command is a
\* step of its own, gamepads come and go one at a time, take the first free slot,
\* and none is left in a slot when the process ends in order.
ImplementsAccessPoint == Promise!Spec

\* A WCID that is taken does not stay without a Controller: the handler that holds
\* it is done with it, unless a failure or the shutdown intervenes, or a destructor
\* waits for ever for a thread that was not told to end.
SlotsSettle == []<>(deaf \subseteq {Main}) => Promise!Settled

\* The process ends once it was told to, by a signal or by a failure of USB: no
\* reader holds up the join for ever, and no reader waits for ever for the mutex.
\* Only a destructor that waits for a thread that was not told to end prevents it,
\* and a pipe of the main thread that does not work.
Ends == []<>(deaf = {}) => ((interrupted \/ "term" \in pending) ~> Ended)
=============================================================================
