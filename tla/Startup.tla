------------------------------ MODULE Startup ------------------------------
(***************************************************************************)
(* From the start of the process to its main loop: main() (src/xow.cpp),   *)
(* the search for a dongle (src/dongle/usb.cpp) and the construction of    *)
(* Mt76 and Dongle, with the signals and the failures that arrive in the   *)
(* meantime.  Loading the firmware is one step here (Firmware.tla has the  *)
(* detail), and so is what happens in the main loop (Dongle.tla).          *)
(***************************************************************************)
EXTENDS Naturals, Sequences

CONSTANTS
  IdCount,     \* how many hardware ids getDevice() is given
  Device,      \* the dongles that may be plugged in
  IdOf,        \* the hardware id of each
  NoDevice,
  Signals,     \* "term" (SIGINT and SIGTERM), "usr1"
  Faults,      \* what fails: "libusb", "signalfd", "pipe", "write", "control", "bulk",
               \* "timeout"
  MaxSignals   \* bound: how many signals arrive

ASSUME StartupAssumption ==
  /\ IdCount \in Nat \ {0}
  /\ IdOf \in [Device -> 1 .. IdCount]
  /\ NoDevice \notin Device
  /\ MaxSignals \in Nat

VARIABLES
  pc,          \* where the main thread is
  masked,      \* the main thread blocks the signals
  usbThread,   \* the thread of libusb: "none", or how it treats signals
  registered,  \* the ids whose hotplug callback is registered
  nextId,      \* the next id to register
  plugged,     \* the dongles that are plugged in
  arrivals,    \* the arrivals that libusb has not reported yet
  device,      \* getDevice()'s device
  prepared,    \* signalReader is prepared
  stopSignal,  \* its pipe holds the stop signal
  broken,      \* "pipe" if it could not be made, "write" if the stop signal could not be
               \* written to it, "none" otherwise
  failed,      \* a transfer has failed since the dongle was opened
  radio,       \* chip: "off" or "on"
  pending,     \* the signals that all threads block
  signals      \* how many have arrived

usbVars  == <<usbThread, registered, nextId, plugged, arrivals, device>>
readerVars == <<prepared, stopSignal, broken>>
stopVars == <<readerVars, failed>>
sigVars  == <<pending, signals>>
vars == <<pc, masked, usbVars, stopVars, radio, sigVars>>

Init ==
  /\ pc = "mask"
  /\ masked = FALSE
  /\ usbThread = "none"
  /\ registered = {}
  /\ nextId = 1
  /\ plugged = {}
  /\ arrivals = {}
  /\ device = NoDevice
  /\ prepared = FALSE
  /\ stopSignal = FALSE
  /\ broken = "none"
  /\ failed = FALSE
  /\ radio = "off"
  /\ pending = {}
  /\ signals = 0

\* How the process may end: main() returns, an exception leaves it, a signal
\* kills it.
Ended == pc \in {"exited", "threw", "killed"}

-----------------------------------------------------------------------------
(* Mutated forms of the definitions that follow                            *)

\* libusb_init() before the signals are blocked
InheritedNever == "exposed"

\* Without LIBUSB_HOTPLUG_ENUMERATE
EnumeratedNever(id) == {}

\* interrupt() writes no stop signal.
InterruptSilent == prepared' = FALSE /\ UNCHANGED <<stopSignal, broken>>

\* read() looks at the signals alone.
StopSeenNever == FALSE

-----------------------------------------------------------------------------
(* main(), up to getDevice()                                               *)

Goto(label) == pc' = label

\* pthread_sigmask(SIG_BLOCK)
Mask ==
  /\ pc = "mask"
  /\ masked' = TRUE
  /\ Goto("libusb")
  /\ UNCHANGED <<usbVars, stopVars, radio, sigVars>>

\* A thread inherits the mask of the one that starts it.
Inherited == IF masked THEN "masked" ELSE "exposed"

\* UsbDeviceManager manager: libusb_init() starts a thread
StartUsb ==
  /\ pc = "libusb"
  /\ \/ usbThread' = Inherited /\ Goto("unmask")
     \/ "libusb" \in Faults /\ Goto("threw") /\ UNCHANGED usbThread
  /\ UNCHANGED <<masked, registered, nextId, plugged, arrivals, device, stopVars, radio,
                 sigVars>>

\* pthread_sigmask(SIG_UNBLOCK): a signal that was pending is delivered, and
\* its default action ends the process.
Unmask ==
  /\ pc = "unmask"
  /\ masked' = FALSE
  /\ Goto(IF pending = {} THEN "register" ELSE "killed")
  /\ UNCHANGED <<usbVars, stopVars, radio, sigVars>>

-----------------------------------------------------------------------------
(* UsbDeviceManager::getDevice() and the constructor of UsbDevice          *)

\* LIBUSB_HOTPLUG_ENUMERATE: the dongles of that id that are plugged in already
Enumerated(id) == {d \in plugged : IdOf[d] = id}

\* The callback of id: the last device it is called with counts, and it is
\* deregistered with the first call.
Register ==
  /\ pc = "register"
  /\ \/ /\ IF Enumerated(nextId) = {}
           THEN registered' = registered \cup {nextId} /\ UNCHANGED device
           ELSE \E d \in Enumerated(nextId) : device' = d /\ UNCHANGED registered
        /\ nextId' = nextId + 1
        /\ Goto(IF nextId = IdCount THEN "wait" ELSE "register")
     \/ /\ "libusb" \in Faults
        /\ Goto("threw")
        /\ UNCHANGED <<registered, nextId, device>>
  /\ UNCHANGED <<masked, usbThread, plugged, arrivals, stopVars, radio, sigVars>>

\* while (!device): events are handled until a callback was called.
WaitForDevice ==
  /\ pc = "wait"
  /\ device = NoDevice
  /\ \E d \in arrivals :
       /\ arrivals' = arrivals \ {d}
       /\ IF IdOf[d] \in registered
          THEN device' = d /\ registered' = registered \ {IdOf[d]}
          ELSE UNCHANGED <<device, registered>>
  /\ UNCHANGED <<pc, masked, usbThread, nextId, plugged, stopVars, radio, sigVars>>

\* libusb_handle_events_completed() fails
WaitFails ==
  /\ pc = "wait"
  /\ device = NoDevice
  /\ "libusb" \in Faults
  /\ Goto("threw")
  /\ UNCHANGED <<masked, usbVars, stopVars, radio, sigVars>>

\* The callbacks are deregistered and the device is opened, reset, configured
\* and claimed.
Open ==
  /\ pc = "wait"
  /\ device # NoDevice
  /\ registered' = {}
  /\ Goto("remask") \/ ("libusb" \in Faults /\ Goto("threw"))
  /\ UNCHANGED <<masked, usbThread, nextId, plugged, arrivals, device, stopVars, radio,
                 sigVars>>

-----------------------------------------------------------------------------
(* main(), up to the dongle                                                *)

Remask ==
  /\ pc = "remask"
  /\ masked' = TRUE
  /\ Goto("signalfd")
  /\ UNCHANGED <<usbVars, stopVars, radio, sigVars>>

SignalFd ==
  /\ pc = "signalfd"
  /\ Goto("prepare") \/ ("signalfd" \in Faults /\ Goto("exited"))
  /\ UNCHANGED <<masked, usbVars, stopVars, radio, sigVars>>

\* signalReader.prepare(file), before anything is sent to the chip; without a pipe
\* main() goes on with a reader that is not prepared.
Prepare ==
  /\ pc = "prepare"
  /\ \/ prepared' = TRUE /\ UNCHANGED broken
     \/ "pipe" \in Faults /\ broken' = "pipe" /\ UNCHANGED prepared
  /\ Goto("firmware")
  /\ UNCHANGED <<masked, usbVars, stopSignal, failed, radio, sigVars>>

-----------------------------------------------------------------------------
(* The constructor of Mt76: what each step does, and how it may fail.      *)
(* "control": a lost transfer that nobody notices; "bulk": a transfer that *)
(* fails and a constructor that throws; "timeout": a constructor that      *)
(* throws though every transfer was well; "ignored": a bulk transfer whose *)
(* failure the caller ignores.                                             *)

ConstructorSteps == <<
  [step |-> "firmware",    fails |-> {"control", "bulk", "timeout"}],
  [step |-> "select",      fails |-> {"bulk"}],
  [step |-> "radioOn",     fails |-> {"bulk"}],
  [step |-> "loadCr",      fails |-> {"bulk"}],
  [step |-> "registers",   fails |-> {"control", "bulk", "timeout"}],
  [step |-> "setAddress",  fails |-> {"bulk"}],
  [step |-> "resetMac",    fails |-> {"control"}],
  [step |-> "calibration", fails |-> {"bulk"}],
  [step |-> "enableMac",   fails |-> {"control"}],
  [step |-> "channels",    fails |-> {"control", "bulk", "ignored"}],
  [step |-> "beacon",      fails |-> {"control", "bulk"}],
  [step |-> "threads",     fails |-> {}],
  [step |-> "serve",       fails |-> {}]
>>

Number == CHOOSE i \in DOMAIN ConstructorSteps : ConstructorSteps[i].step = pc

Constructing == \E i \in 1 .. Len(ConstructorSteps) - 1 : ConstructorSteps[i].step = pc

\* signalReader.interrupt(): it writes the stop signal once, to a pipe that there is.
Interrupt ==
  /\ prepared' = FALSE
  /\ \/ stopSignal' = (stopSignal \/ prepared) /\ UNCHANGED broken
     \/ /\ prepared /\ "write" \in Faults
        /\ broken' = "write"
        /\ UNCHANGED stopSignal

\* UsbDevice::terminate is called.
TransferFails == failed' = TRUE /\ Interrupt

Construct ==
  /\ Constructing
  /\ LET this == ConstructorSteps[Number]
         next == ConstructorSteps[Number + 1].step
     IN  \/ /\ Goto(next)
            /\ radio' = IF pc = "radioOn" THEN "on" ELSE radio
            /\ UNCHANGED stopVars
         \/ /\ \/ "control" \in Faults \cap this.fails
               \/ "bulk" \in Faults /\ "ignored" \in this.fails
            /\ Goto(next)
            /\ TransferFails
            /\ UNCHANGED radio
         \/ /\ "bulk" \in Faults \cap this.fails
            /\ Goto("threw")
            /\ TransferFails
            /\ UNCHANGED radio
         \/ /\ "timeout" \in Faults \cap this.fails
            /\ Goto("threw")
            /\ UNCHANGED <<stopVars, radio>>
  /\ UNCHANGED <<masked, usbVars, sigVars>>

-----------------------------------------------------------------------------
(* The main loop, and the end                                              *)

\* A transfer of one of the threads, or of the main thread in its loop, fails.
ReaderFails ==
  /\ pc \in {"serve", "shutdown", "hung"}
  /\ {"control", "bulk"} \cap Faults # {}
  /\ TransferFails
  /\ UNCHANGED <<pc, masked, usbVars, radio, sigVars>>

\* poll() shows that there is a stop signal, which read() looks at first.
StopSeen == stopSignal

Serve ==
  /\ pc = "serve"
  /\ broken # "pipe"
  /\ \/ StopSeen /\ Goto("shutdown") /\ UNCHANGED pending
     \/ /\ ~StopSeen
        /\ \E s \in pending :
             /\ pending' = pending \ {s}
             /\ Goto(IF s = "term" THEN "shutdown" ELSE "serve")
  /\ UNCHANGED <<masked, usbVars, stopVars, radio, signals>>

\* A reader that was not prepared polls descriptors nobody has set: poll() may wait
\* for ever, or return at once and end the loop.
PollUnset ==
  /\ pc = "serve"
  /\ broken = "pipe"
  /\ Goto("shutdown")
  /\ UNCHANGED <<masked, usbVars, stopVars, radio, sigVars>>

\* ~Dongle() joins its threads and destroys every Controller (Dongle.tla) ...
Destroy ==
  /\ pc = "shutdown"
  /\ Goto("darken")
  /\ UNCHANGED <<masked, usbVars, stopVars, radio, sigVars>>

\* ... which may have to wait for a thread that was not told to end, and may not.
Hang ==
  /\ pc = "shutdown"
  /\ Goto("hung")
  /\ UNCHANGED <<masked, usbVars, stopVars, radio, sigVars>>

Resume ==
  /\ pc = "hung"
  /\ Goto("darken")
  /\ UNCHANGED <<masked, usbVars, stopVars, radio, sigVars>>

\* ~Mt76(): setLedMode(MT_LED_OFF), then powerMode(RADIO_OFF); failures are only
\* logged, after terminate().
Darken ==
  /\ pc = "darken"
  /\ Goto("powerDown")
  /\ UNCHANGED stopVars \/ ("bulk" \in Faults /\ TransferFails)
  /\ UNCHANGED <<masked, usbVars, radio, sigVars>>

PowerDown ==
  /\ pc = "powerDown"
  /\ Goto("exited")
  /\ \/ radio' = "off" /\ UNCHANGED stopVars
     \/ "bulk" \in Faults /\ TransferFails /\ UNCHANGED radio
  /\ UNCHANGED <<masked, usbVars, sigVars>>

-----------------------------------------------------------------------------
(* The user: external                                                      *)

\* libusb reports the arrivals that come after libusb_init().
Plug(d) ==
  /\ ~Ended
  /\ d \notin plugged
  /\ plugged' = plugged \cup {d}
  /\ arrivals' = IF usbThread = "none" THEN arrivals ELSE arrivals \cup {d}
  /\ UNCHANGED <<pc, masked, usbThread, registered, nextId, device, stopVars, radio,
                 sigVars>>

\* A signal goes to a thread that does not block it, whose default action ends
\* the process, and is pending when there is none.
Signal(s) ==
  /\ ~Ended
  /\ signals < MaxSignals
  /\ signals' = signals + 1
  /\ IF masked /\ usbThread # "exposed"
     THEN pending' = pending \cup {s} /\ UNCHANGED pc
     ELSE Goto("killed") /\ UNCHANGED pending
  /\ UNCHANGED <<masked, usbVars, stopVars, radio>>

-----------------------------------------------------------------------------
MainStep ==
  \/ Mask \/ StartUsb \/ Unmask
  \/ Register \/ WaitForDevice \/ Open
  \/ Remask \/ SignalFd \/ Prepare
  \/ Construct \/ Serve \/ Destroy \/ Darken \/ PowerDown

Next ==
  \/ MainStep \/ WaitFails \/ ReaderFails \/ PollUnset \/ Hang \/ Resume
  \/ \E d \in Device : Plug(d)
  \/ \E s \in Signals : Signal(s)
  \/ Ended /\ UNCHANGED vars

Spec == Init /\ [][Next]_vars

\* The main thread runs and libusb reports every arrival.  That waiting for events
\* fails, or that a transfer does, has not to happen, nor has what would wake a reader
\* that was not prepared or a thread that was not told to end.
FairSpec == Spec /\ WF_vars(MainStep)

-----------------------------------------------------------------------------
(* Properties                                                              *)

\* A signal kills the process only before prepare(), and so before it has begun to
\* talk to the chip: no thread, not even that of libusb, takes it from the signalfd.
KilledEarly ==
  pc = "killed" => ~prepared /\ broken = "none" /\ ~failed /\ radio = "off"

\* The failure of a transfer is never forgotten, in whatever step of the
\* construction, of the main loop or of the end it happens: the main loop will find
\* the stop signal, unless the pipe could not be made or written to.
FailureKept == failed => stopSignal \/ broken # "none"

\* A dongle is found whenever it is plugged in: before the start, between the
\* registrations of two callbacks, or while main() waits.
DongleFound == plugged # {} ~> (device # NoDevice \/ Ended)

\* The process ends when it was asked to once the dongle is open: a signal that
\* arrives during the construction is not lost, and a failure is acted upon, as long
\* as the pipe works and the destruction does not wait for ever.
EndsWhenAsked ==
  [](broken = "none") /\ []<>(pc # "hung") =>
    ((failed \/ (prepared /\ "term" \in pending)) ~> Ended)
=============================================================================
