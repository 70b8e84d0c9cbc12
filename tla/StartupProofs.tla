--------------------------- MODULE StartupProofs ---------------------------
(***************************************************************************)
(* For any number of dongles, hardware ids and signals, and whatever fails *)
(* at whatever moment: a signal kills the process only before it talks to  *)
(* the chip, and a failed transfer is not forgotten while the pipe of the  *)
(* reader works.                                                           *)
(***************************************************************************)
EXTENDS Startup, TLAPS

\* The labels before signalReader is prepared, in their order
Searching == {"libusb", "unmask", "register", "wait", "remask"}
Opened    == {"signalfd", "prepare"}
Steps     == {"firmware", "select", "radioOn", "loadCr", "registers", "setAddress",
              "resetMac", "calibration", "enableMac", "channels", "beacon", "threads"}
Running   == Steps \cup {"serve", "shutdown", "hung", "darken", "powerDown"}

Labels == {"mask", "exited", "threw", "killed"} \cup Searching \cup Opened \cup Running

\* Once the signals are blocked for good they stay so, and libusb's thread does
\* not take them: it was started while they were blocked.  From prepare() on the
\* reader can be interrupted, or was already, or its pipe does not work; nothing
\* fails before, and the radio is off.
Told == stopSignal \/ broken # "none"

IInv ==
  /\ pc \in Labels
  /\ pc \in {"libusb", "unmask"} \cup Opened \cup Running => masked
  /\ usbThread # "exposed"
  /\ pc \in Running => prepared \/ Told
  /\ failed => Told
  /\ prepared \/ failed \/ broken # "none" \/ radio # "off" =>
       pc \in Running \cup {"exited", "threw"}

\* A step of the constructor leads to the next one, and the last to the main loop.
LEMMA NextStep ==
  ASSUME Constructing
  PROVE  /\ pc \in Steps
         /\ ConstructorSteps[Number + 1].step \in Steps \cup {"serve"}
<1>1. PICK i \in 1 .. Len(ConstructorSteps) - 1 : ConstructorSteps[i].step = pc
  BY DEF Constructing
<1>2. Len(ConstructorSteps) = 13 /\ DOMAIN ConstructorSteps = 1 .. 13
  BY DEF ConstructorSteps
<1>3. i \in 1 .. 12
  BY <1>2
<1>4. pc \in Steps
  BY <1>1, <1>3 DEF ConstructorSteps, Steps
<1>5. Number \in DOMAIN ConstructorSteps /\ ConstructorSteps[Number].step = pc
  BY <1>1, <1>2, <1>3 DEF Number
<1>6. Number \in 1 .. 13 /\ Number # 13
  <2>1. ConstructorSteps[13].step = "serve"
    BY DEF ConstructorSteps
  <2>2. "serve" \notin Steps
    BY DEF Steps
  <2>. QED  BY <1>2, <1>4, <1>5, <2>1, <2>2
<1>7. Number \in 1 .. 12
  BY <1>6
<1>8. \A n \in 1 .. 12 : ConstructorSteps[n + 1].step \in Steps \cup {"serve"}
  BY DEF ConstructorSteps, Steps
<1>. QED  BY <1>4, <1>7, <1>8

LEMMA InvInit == Init => IInv
BY DEF Init, IInv, Told, Labels, Searching, Opened, Running, Steps

\* After interrupt() the stop signal is in the pipe, or could not be put there.
LEMMA InterruptTells ==
  ASSUME prepared \/ Told, Interrupt
  PROVE  Told'
BY DEF Interrupt, Told

LEMMA InvNext == IInv /\ [Next]_vars => IInv'
<1> SUFFICES ASSUME IInv, [Next]_vars PROVE IInv'
  OBVIOUS
<1> USE DEF IInv, Told, Labels, Searching, Opened, Running, Steps, usbVars, readerVars, stopVars,
          sigVars, Goto
<1>1. CASE Mask
  BY <1>1 DEF Mask
<1>2. CASE StartUsb
  BY <1>2 DEF StartUsb, Inherited
<1>3. CASE Unmask
  BY <1>3 DEF Unmask
<1>4. CASE Register
  BY <1>4 DEF Register
<1>5. CASE WaitForDevice
  BY <1>5 DEF WaitForDevice
<1>6. CASE Open
  BY <1>6 DEF Open
<1>7. CASE Remask
  BY <1>7 DEF Remask
<1>8. CASE SignalFd
  BY <1>8 DEF SignalFd
<1>9. CASE Prepare
  BY <1>9 DEF Prepare
<1>10. CASE Construct
  <2>1. pc \in Steps /\ ConstructorSteps[Number + 1].step \in Steps \cup {"serve"}
    BY <1>10, NextStep DEF Construct
  <2>2. masked /\ (prepared \/ Told)
    BY <2>1
  <2>3. pc' \in Running \cup {"threw"}
    BY <1>10, <2>1 DEF Construct
  <2>4. UNCHANGED <<masked, usbThread>>
    BY <1>10 DEF Construct
  <2>5. (prepared \/ Told)' /\ (failed => Told)'
    <3>1. CASE UNCHANGED stopVars
      BY <2>2, <3>1
    <3>2. CASE TransferFails
      BY <2>2, <3>2, InterruptTells DEF TransferFails
    <3>. QED  BY <1>10, <3>1, <3>2 DEF Construct
  <2>6. pc' \in Labels /\ masked' /\ usbThread' # "exposed"
    BY <2>2, <2>3, <2>4
  <2>. QED  BY <2>3, <2>5, <2>6
<1>11. CASE Serve \/ PollUnset
  BY <1>11 DEF Serve, PollUnset
<1>12. CASE Destroy \/ Hang \/ Resume
  BY <1>12 DEF Destroy, Hang, Resume
<1>18. CASE Darken \/ PowerDown
  <2>1. /\ pc \in {"darken", "powerDown"} /\ pc' \in {"powerDown", "exited"}
        /\ UNCHANGED <<masked, usbThread>>
    BY <1>18 DEF Darken, PowerDown
  <2>2. UNCHANGED stopVars \/ TransferFails
    BY <1>18 DEF Darken, PowerDown
  <2>3. (prepared \/ Told)' /\ (failed => Told)'
    BY <2>1, <2>2, InterruptTells DEF TransferFails
  <2>. QED  BY <2>1, <2>3
<1>13. CASE WaitFails
  BY <1>13 DEF WaitFails
<1>14. CASE ReaderFails
  BY <1>14, InterruptTells DEF ReaderFails, TransferFails
<1>15. ASSUME NEW d \in Device, Plug(d) PROVE IInv'
  BY <1>15 DEF Plug
<1>16. ASSUME NEW s \in Signals, Signal(s) PROVE IInv'
  BY <1>16 DEF Signal, Ended
<1>17. CASE UNCHANGED vars
  BY <1>17 DEF vars
<1>. QED
  BY <1>1, <1>2, <1>3, <1>4, <1>5, <1>6, <1>7, <1>8, <1>9, <1>10, <1>11, <1>12, <1>13, <1>14,
     <1>15, <1>16, <1>17, <1>18 DEF Next, MainStep

THEOREM Invariant == Spec => []IInv
BY InvInit, InvNext, PTL DEF Spec

\* For any number of signals: one that is delivered after the process has begun to
\* talk to the chip does not kill it (the masks of main() and of libusb's thread).
THEOREM NotKilledLate == Spec => []KilledEarly
<1>1. IInv => KilledEarly
  BY DEF IInv, KilledEarly, Running, Steps
<1>. QED  BY <1>1, Invariant, PTL

\* Whatever transfer fails, in the construction, in the main loop or in the
\* destructors, the stop signal is in the pipe, or the pipe could not be made or
\* written to (prepare() comes before the first transfer).
THEOREM FailureIsKept == Spec => []FailureKept
<1>1. IInv => FailureKept
  BY DEF IInv, Told, FailureKept
<1>. QED  BY <1>1, Invariant, PTL
=============================================================================
