---------------------------- MODULE DongleProofs ----------------------------
(***************************************************************************)
(* For any number of WCIDs, gamepads, endpoints and frames, and whatever   *)
(* fails:                                                                  *)
(*   - types, mutual exclusion, and slots whose WCIDs are taken;           *)
(*   - the views of who is connected agree between two handlers, nobody    *)
(*     who is connected is left alive or in the dark, and the threads of   *)
(*     the dongle together implement the access point;                     *)
(*   - only the reuse of a WCID can make a frame or an event reach the     *)
(*     Controller of another gamepad.                                      *)
(***************************************************************************)
EXTENDS Dongle, SequenceTheorems, WellFoundedInduction, TLAPS

\* A set of WCIDs that is not empty has a first element: __builtin_ffs()
\* returns a WCID that is free, and none before it is.
LEMMA FirstFreeIsFree ==
  ASSUME FreeWcids # {}
  PROVE  FirstFree \in FreeWcids /\ \A v \in FreeWcids : FirstFree <= v
<1> DEFINE Less == {p \in Nat \X Nat : p[1] < p[2]}
<1>1. IsWellFoundedOn(Less, Nat)
  BY NatLessThanWellFounded DEF OpToRel
<1>2. FreeWcids \subseteq Nat
  BY DongleAssumption DEF FreeWcids, Wcid
<1>3. \A m, n \in Nat : <<m, n>> \in Less <=> m < n
  OBVIOUS
<1> HIDE DEF Less
<1>4. PICK w \in FreeWcids : \A v \in FreeWcids : ~ (<<v, w>> \in Less)
  BY <1>1, <1>2, WFMin
<1>5. ASSUME NEW v \in FreeWcids PROVE w <= v
  <2>1. v \in Nat /\ w \in Nat
    BY <1>2
  <2>2. ~ (v < w)
    BY <1>3, <1>4, <2>1
  <2> QED
    BY <2>1, <2>2
<1> QED
  BY <1>5 DEF FirstFree

\* A reader that uses its local wcid as an index has one that is in range.
WcidInRange ==
  \A r \in Endpoint :
    pc[r] \in Critical \cup {"disconnect", "packet"} => wcid[r] \in Wcid

\* The main thread destroys the Controller of a slot.
SlotInRange == pc[Main] \in {"stopRumble", "powerOff", "closeInput"} => slot \in Wcid

TypeInv == TypeOK /\ WcidInRange /\ SlotInRange

\* What happens to the process by itself: a thread that was not told to end ends,
\* or a rumble thread meets a failure.
Nudge == \E w \in Wcid : Wakes(w) \/ RumbleFails(w)

-----------------------------------------------------------------------------
(* What the steps leave alone                                              *)

LEMMA AirUnchanged ==
  ASSUME AirStep
  PROVE  UNCHANGED <<hostVars, chipVars, flowVars, controllerMutex, pc, interrupted>>
BY DEF AirStep, Associate, AskAgain, Announce, AnnounceAgain, Input, Disassociate, Vanish,
       AskToPair, LoseClient, PressButton, Signal, Occurs

LEMMA PairingUnchanged ==
  ASSUME NEW t \in Thread, PairingStep(t)
  PROVE  UNCHANGED <<hostVars, table, uses, registered, radio, airVars, flowVars,
                     controllerMutex>>
BY DEF PairingStep, Beacon, Calibrate, LedPair, PairingError, chipVars

LEMMA MainUnchanged ==
  ASSUME MainStep \/ PollFails
  PROVE  UNCHANGED <<hostVars, table, uses, registered, beacon, frame, wcid, aborted,
                     controllerMutex, client, inbox, frames>>
BY DEF MainStep, Poll, PollFails, Stop, Join, Destroy, Darken, RadioOff, Close, hostVars,
       chipVars, airVars, flowVars

LEMMA DestructorUnchanged ==
  ASSUME NEW t \in Thread, DestructorStep(t)
  PROVE  /\ UNCHANGED <<connectedClients, chipVars, inbox, frames, pending, flowVars,
                        controllerMutex>>
         /\ PowerOff(t) \/ UNCHANGED <<controllers, created, client, interrupted>>
BY DEF DestructorStep, StopRumble, PowerOff, CloseInput, hostVars, airVars

LEMMA NudgeUnchanged ==
  ASSUME Nudge
  PROVE  UNCHANGED <<connectedClients, controllers, created, chipVars, airVars, flowVars,
                     controllerMutex, pc>>
BY DEF Nudge, Wakes, RumbleFails, hostVars

-----------------------------------------------------------------------------
(* The groups of the type invariant, one lemma each                        *)

LEMMA HostTypeStep ==
  ASSUME HostType, LocalType, WcidInRange, [Next]_vars
  PROVE  HostType'
<1> USE DEF HostType
<1>1. CASE UNCHANGED hostVars
  BY <1>1 DEF hostVars
<1>2. ASSUME NEW r \in Endpoint, ReaderStep(r) \/ BulkError(r)
      PROVE  HostType'
  <2>1. CASE Connect(r)
    BY <2>1, FirstFreeIsFree DEF Connect, FreeWcids
  <2>2. CASE NewController(r)
    BY <2>2 DEF NewController, LocalType, Frame
  <2>4. CASE RemoveClient(r)
    BY <2>4 DEF RemoveClient, WithoutWcid
  <2>5. CASE Packet(r)
    BY <2>5 DEF Packet, WcidInRange, Critical
  <2>6. CASE Loop(r) \/ BulkData(r) \/ BulkTimeout(r) \/ BulkError(r) \/
            WriteWcid(r) \/ AddClient(r) \/ Respond(r) \/ LedOn(r) \/
            Disconnect(r) \/ ClearWcid(r) \/ LedOff(r) \/ Pair(r)
    BY <1>1, <2>6
    DEF Loop, BulkData, BulkTimeout, BulkError, WriteWcid, AddClient,
        Respond, LedOn, Disconnect, ClearWcid, LedOff, Pair, GiveUp,
        PairingError, hostVars
  <2> QED
    BY <1>2, <2>1, <2>2, <2>4, <2>5, <2>6 DEF ReaderStep
<1>3. ASSUME NEW t \in Thread, PairingStep(t)
      PROVE  HostType'
  BY <1>1, <1>3, PairingUnchanged
<1>4. ASSUME NEW t \in Thread, DestructorStep(t)
      PROVE  HostType'
  <2>1. CASE StopRumble(t)
    BY <2>1 DEF StopRumble
  <2>2. CASE PowerOff(t)
    BY <2>2 DEF PowerOff, DestroyController, Owner
  <2>3. CASE CloseInput(t)
    BY <1>1, <2>3 DEF CloseInput
  <2> QED
    BY <1>4, <2>1, <2>2, <2>3 DEF DestructorStep
<1>5. CASE MainStep \/ PollFails
  BY <1>1, <1>5, MainUnchanged
<1>6. CASE Nudge
  <2>1. deaf' \subseteq deaf
    BY <1>6 DEF Nudge, Wakes, RumbleFails, hostVars
  <2> QED
    BY <1>6, <2>1, NudgeUnchanged
<1>7. CASE AirStep
  BY <1>1, <1>7, AirUnchanged
<1> QED
  BY <1>1, <1>2, <1>3, <1>4, <1>5, <1>6, <1>7 DEF Next, Nudge, vars

LEMMA GotoReader ==
  ASSUME ThreadType, NEW r \in Endpoint, NEW label \in Label, Goto(r, label),
         controllerMutex' \in Endpoint \cup {Nobody}
  PROVE  ThreadType'
BY DongleAssumption DEF ThreadType, Goto, Thread

LEMMA GotoMain ==
  ASSUME ThreadType, NEW label \in MainLabel, Goto(Main, label),
         UNCHANGED controllerMutex
  PROVE  ThreadType'
BY DongleAssumption DEF ThreadType, Goto, Thread

LEMMA AbortType ==
  ASSUME ThreadType, Abort
  PROVE  ThreadType'
BY DEF ThreadType, Abort, Thread, Label, MainLabel

LEMMA Delivered ==
  ASSUME AirType, NEW r \in Endpoint, BulkData(r)
  PROVE  Head(inbox[r]) \in Frame /\ Tail(inbox[r]) \in Seq(Frame)
BY HeadTailProperties DEF AirType, BulkData

LEMMA ThreadTypeStep ==
  ASSUME ThreadType, LocalType, AirType, [Next]_vars
  PROVE  ThreadType'
<1>0. /\ controllerMutex \in Endpoint \cup {Nobody}
      /\ \A r \in Endpoint : r # Main
      /\ Main \in Thread
  BY DongleAssumption DEF ThreadType, Thread
<1>1. CASE UNCHANGED <<controllerMutex, pc>>
  BY <1>1 DEF ThreadType
<1>2. ASSUME NEW r \in Endpoint, ReaderStep(r) \/ BulkError(r)
      PROVE  ThreadType'
  <2>1. CASE Loop(r) \/ BulkTimeout(r) \/ BulkError(r) \/ Pair(r)
    BY <1>0, <1>2, <2>1, GotoReader
    DEF Loop, BulkTimeout, BulkError, Pair, PairingError, Return, Label
  <2>2. CASE BulkData(r)
    <3>1. Handler(Head(inbox[r])) \in Label
      BY <2>2, Delivered DEF Handler, Label, Frame, Kind
    <3> QED
      BY <1>0, <2>2, <3>1, GotoReader DEF BulkData
  <2>3. CASE Connect(r) \/ Disconnect(r)
    BY <1>0, <1>2, <2>3, GotoReader DEF Connect, Disconnect, Return, Label
  <2>4. CASE WriteWcid(r) \/ AddClient(r) \/ Respond(r) \/ LedOn(r) \/
            RemoveClient(r) \/ ClearWcid(r) \/ LedOff(r)
    BY <1>0, <1>2, <2>4, GotoReader
    DEF WriteWcid, AddClient, Respond, LedOn, RemoveClient, ClearWcid, LedOff, GiveUp,
        Unlock, Return, Label
  <2>5. CASE NewController(r) \/ Packet(r)
    BY <1>0, <1>2, <2>5, GotoReader, AbortType
    DEF NewController, Packet, Unlock, Return, Label
  <2> QED
    BY <1>2, <2>1, <2>2, <2>3, <2>4, <2>5 DEF ReaderStep
<1>3. ASSUME NEW t \in Thread, PairingStep(t)
      PROVE  ThreadType'
  <2>1. UNCHANGED controllerMutex
    BY <1>3, PairingUnchanged
  <2>2. \/ Goto(t, "calibrate") \/ Goto(t, "ledPair")
        \/ Goto(t, IF t = Main THEN "poll" ELSE "loop")
    BY <1>3 DEF PairingStep, Beacon, Calibrate, LedPair, PairingError, Return
  <2> QED
    BY <1>0, <1>3, <2>1, <2>2, GotoReader, GotoMain DEF Thread, Label, MainLabel
<1>4. ASSUME NEW t \in Thread, DestructorStep(t)
      PROVE  ThreadType'
  <2>1. UNCHANGED controllerMutex
    BY <1>4, DestructorUnchanged
  <2>2. \/ Goto(t, "powerOff") \/ Goto(t, "closeInput")
        \/ Goto(t, IF t = Main THEN "destroy" ELSE "removeClient")
    BY <1>4 DEF DestructorStep, StopRumble, PowerOff, CloseInput
  <2> QED
    BY <1>0, <1>4, <2>1, <2>2, GotoReader, GotoMain DEF Thread, Label, MainLabel
<1>5. CASE MainStep \/ PollFails
  <2>1. UNCHANGED controllerMutex
    BY <1>5, MainUnchanged
  <2>2. UNCHANGED pc \/ \E label \in MainLabel : Goto(Main, label)
    BY <1>5
    DEF MainStep, Poll, PollFails, Stop, Join, Destroy, Darken, RadioOff, Close, MainLabel
  <2> QED
    BY <1>1, <2>1, <2>2, GotoMain
<1>6. CASE Nudge
  BY <1>1, <1>6, NudgeUnchanged
<1>7. CASE AirStep
  BY <1>1, <1>7, AirUnchanged
<1> QED
  BY <1>1, <1>2, <1>3, <1>4, <1>5, <1>6, <1>7 DEF Next, Nudge, vars

LEMMA GotoLabel ==
  ASSUME ThreadType, NEW t \in Thread, NEW label, Goto(t, label)
  PROVE  pc'[t] = label /\ \A s \in Thread : s # t => pc'[s] = pc[s]
BY DEF ThreadType, Goto

LEMMA WcidInRangeStep ==
  ASSUME ThreadType, LocalType, AirType, WcidInRange, [Next]_vars
  PROVE  WcidInRange'
<1> DEFINE Using == Critical \cup {"disconnect", "packet"}
<1>0. Endpoint \subseteq Thread /\ Main \notin Endpoint
  BY DongleAssumption DEF Thread
<1>1. CASE /\ UNCHANGED wcid
           /\ \A s \in Endpoint : pc'[s] \in Using => pc[s] \in Using
  BY <1>1 DEF WcidInRange
<1>2. ASSUME NEW r \in Endpoint, ReaderStep(r) \/ BulkError(r)
      PROVE  WcidInRange'
  <2>1. CASE BulkData(r)
    <3>1. /\ Head(inbox[r]) \in Frame
          /\ wcid'[r] = Head(inbox[r]).wcid
          /\ \A s \in Endpoint : s # r => wcid'[s] = wcid[s]
      BY <2>1, Delivered DEF BulkData, LocalType
    <3>2. /\ pc'[r] = Handler(Head(inbox[r]))
          /\ \A s \in Endpoint : s # r => pc'[s] = pc[s]
      BY <1>0, <2>1, GotoLabel DEF BulkData
    <3>3. pc'[r] \in Using => wcid'[r] \in Wcid
      BY <3>1, <3>2 DEF Handler, Frame, Kind, Critical
    <3> QED
      BY <3>1, <3>2, <3>3 DEF WcidInRange
  <2>2. CASE Connect(r)
    <3>1. CASE FreeWcids = {}
      BY <1>0, <1>1, <2>2, <3>1, GotoLabel DEF Connect, Return, Critical
    <3>2. CASE FreeWcids # {}
      <4>1. /\ wcid'[r] \in Wcid
            /\ \A s \in Endpoint : s # r => wcid'[s] = wcid[s]
        BY <2>2, <3>2, FirstFreeIsFree DEF Connect, LocalType, FreeWcids
      <4>2. \A s \in Endpoint : s # r => pc'[s] = pc[s]
        BY <1>0, <2>2, <3>2, GotoLabel DEF Connect
      <4> QED
        BY <4>1, <4>2 DEF WcidInRange
    <3> QED
      BY <3>1, <3>2
  <2>3. CASE NewController(r) \/ Packet(r)
    BY <1>0, <1>1, <2>3, GotoLabel
    DEF NewController, Packet, Unlock, Return, Abort, Critical
  <2>4. CASE Loop(r) \/ BulkTimeout(r) \/ BulkError(r) \/ Pair(r) \/
            WriteWcid(r) \/ AddClient(r) \/ Respond(r) \/ LedOn(r) \/
            Disconnect(r) \/ RemoveClient(r) \/ ClearWcid(r) \/ LedOff(r)
    <3>1. UNCHANGED wcid
      BY <2>4
      DEF Loop, BulkTimeout, BulkError, Pair, PairingError, WriteWcid, AddClient,
          Respond, LedOn, Disconnect, RemoveClient, ClearWcid, LedOff, GiveUp, flowVars
    <3>2. \E label \in Label :
             Goto(r, label) /\ (label \in Using => pc[r] \in Using)
      BY <1>0, <2>4
      DEF Loop, BulkTimeout, BulkError, Pair, PairingError, WriteWcid, AddClient,
          Respond, LedOn, Disconnect, RemoveClient, ClearWcid, LedOff, GiveUp, Unlock,
          Return, Label, Critical
    <3> QED
      BY <1>0, <1>1, <3>1, <3>2, GotoLabel
  <2> QED
    BY <1>2, <2>1, <2>2, <2>3, <2>4 DEF ReaderStep
<1>3. ASSUME NEW t \in Thread, PairingStep(t)
      PROVE  WcidInRange'
  <2>1. UNCHANGED wcid
    BY <1>3, PairingUnchanged DEF flowVars
  <2>2. \/ Goto(t, "calibrate") \/ Goto(t, "ledPair")
        \/ Goto(t, IF t = Main THEN "poll" ELSE "loop")
    BY <1>3 DEF PairingStep, Beacon, Calibrate, LedPair, PairingError, Return
  <2> QED
    BY <1>0, <1>1, <2>1, <2>2, GotoLabel DEF Critical
<1>4. ASSUME NEW t \in Thread, DestructorStep(t)
      PROVE  WcidInRange'
  <2>1. UNCHANGED wcid
    BY <1>4, DestructorUnchanged DEF flowVars
  <2>2. \/ pc[t] = "stopRumble" /\ Goto(t, "powerOff")
        \/ pc[t] = "powerOff" /\ Goto(t, "closeInput")
        \/ /\ pc[t] = "closeInput"
           /\ Goto(t, IF t = Main THEN "destroy" ELSE "removeClient")
    BY <1>4 DEF DestructorStep, StopRumble, PowerOff, CloseInput
  <2> QED
    BY <1>0, <1>1, <2>1, <2>2, GotoLabel DEF Critical
<1>5. CASE MainStep \/ PollFails
  <2>1. UNCHANGED wcid
    BY <1>5, MainUnchanged
  <2>2. \A s \in Endpoint : pc'[s] = pc[s]
    BY <1>0, <1>5, GotoLabel
    DEF MainStep, Poll, PollFails, Stop, Join, Destroy, Darken, RadioOff, Close, Thread
  <2> QED
    BY <1>1, <2>1, <2>2
<1>6. CASE Nudge
  BY <1>1, <1>6, NudgeUnchanged DEF flowVars
<1>7. CASE AirStep
  BY <1>1, <1>7, AirUnchanged DEF flowVars
<1>8. CASE UNCHANGED vars
  BY <1>1, <1>8 DEF vars, flowVars
<1> QED
  BY <1>2, <1>3, <1>4, <1>5, <1>6, <1>7, <1>8 DEF Next, Nudge

LEMMA SlotInRangeStep ==
  ASSUME ThreadType, LocalType, SlotInRange, [Next]_vars
  PROVE  SlotInRange'
<1> DEFINE In == {"stopRumble", "powerOff", "closeInput"}
<1>0. /\ \A r \in Endpoint : r # Main /\ r \in Thread
      /\ Main \in Thread
  BY DongleAssumption DEF Thread
<1>1. CASE UNCHANGED slot /\ (pc'[Main] \in In => pc[Main] \in In)
  BY <1>1 DEF SlotInRange
<1>2. ASSUME NEW r \in Endpoint, ReaderStep(r) \/ BulkError(r)
      PROVE  SlotInRange'
  <2>1. UNCHANGED slot
    BY <1>2
    DEF ReaderStep, Loop, BulkData, BulkTimeout, BulkError, Connect, WriteWcid, AddClient,
        Respond, LedOn, NewController, Disconnect, RemoveClient, ClearWcid, LedOff, Packet,
        Pair, PairingError, GiveUp, flowVars
  <2>2. Abort \/ \E label : Goto(r, label)
    BY <1>2
    DEF ReaderStep, Loop, BulkData, BulkTimeout, BulkError, Connect, WriteWcid, AddClient,
        Respond, LedOn, NewController, Disconnect, RemoveClient, ClearWcid, LedOff, Packet,
        Pair, PairingError, GiveUp, Unlock, Return
  <2>3. pc'[Main] \in In => pc[Main] \in In
    BY <1>0, <2>2, GotoLabel DEF Abort
  <2> QED
    BY <1>1, <2>1, <2>3
<1>3. ASSUME NEW t \in Thread, PairingStep(t)
      PROVE  SlotInRange'
  <2>1. UNCHANGED slot
    BY <1>3, PairingUnchanged DEF flowVars
  <2>2. \/ Goto(t, "calibrate") \/ Goto(t, "ledPair")
        \/ Goto(t, IF t = Main THEN "poll" ELSE "loop")
    BY <1>3 DEF PairingStep, Beacon, Calibrate, LedPair, PairingError, Return
  <2> QED
    BY <1>0, <1>1, <2>1, <2>2, GotoLabel
<1>4. ASSUME NEW t \in Thread, DestructorStep(t)
      PROVE  SlotInRange'
  <2>1. UNCHANGED slot
    BY <1>4, DestructorUnchanged DEF flowVars
  <2>2. pc[t] \in In /\ \E label : Goto(t, label)
    BY <1>4 DEF DestructorStep, StopRumble, PowerOff, CloseInput
  <2>3. pc'[Main] \in In => pc[Main] \in In
    BY <1>0, <2>2, GotoLabel
  <2> QED
    BY <1>1, <2>1, <2>3
<1>5. CASE MainStep \/ PollFails
  <2>1. CASE Destroy
    BY <1>0, <2>1, GotoLabel, DongleAssumption DEF Destroy, SlotInRange, LocalType, Wcid
  <2>2. CASE Poll \/ PollFails \/ Stop \/ Join \/ Darken \/ RadioOff \/ Close
    <3>1. UNCHANGED slot
      BY <2>2 DEF Poll, PollFails, Stop, Join, Darken, RadioOff, Close, flowVars
    <3>2. \E label : label \notin In /\ Goto(Main, label)
      BY <2>2 DEF Poll, PollFails, Stop, Join, Darken, RadioOff, Close
    <3> QED
      BY <1>0, <1>1, <3>1, <3>2, GotoLabel
  <2> QED
    BY <1>5, <2>1, <2>2 DEF MainStep
<1>6. CASE Nudge
  BY <1>1, <1>6, NudgeUnchanged DEF flowVars
<1>7. CASE AirStep
  BY <1>1, <1>7, AirUnchanged DEF flowVars
<1>8. CASE UNCHANGED vars
  BY <1>1, <1>8 DEF vars, flowVars
<1> QED
  BY <1>2, <1>3, <1>4, <1>5, <1>6, <1>7, <1>8 DEF Next, Nudge

LEMMA LocalTypeStep ==
  ASSUME LocalType, AirType, WcidInRange, [Next]_vars
  PROVE  LocalType'
<1> USE DEF LocalType
<1>1. CASE UNCHANGED <<flowVars, interrupted>>
  BY <1>1 DEF flowVars
<1>2. ASSUME NEW r \in Endpoint, ReaderStep(r) \/ BulkError(r)
      PROVE  LocalType'
  <2>1. CASE BulkData(r)
    BY <2>1, Delivered DEF BulkData, Frame
  <2>2. CASE Connect(r)
    BY <2>2, FirstFreeIsFree DEF Connect, FreeWcids
  <2>3. CASE NewController(r) \/ Packet(r)
    BY <2>3 DEF NewController, Packet, Abort, UsbError
  <2>4. CASE Loop(r) \/ BulkTimeout(r) \/ BulkError(r) \/ Pair(r) \/
            WriteWcid(r) \/ AddClient(r) \/ Respond(r) \/ LedOn(r) \/
            Disconnect(r) \/ RemoveClient(r) \/ ClearWcid(r) \/ LedOff(r)
    BY <2>4
    DEF Loop, BulkTimeout, BulkError, Pair, PairingError, WriteWcid, AddClient,
        Respond, LedOn, Disconnect, RemoveClient, ClearWcid, LedOff, GiveUp, UsbError,
        flowVars
  <2> QED
    BY <1>2, <2>1, <2>2, <2>3, <2>4 DEF ReaderStep
<1>3. ASSUME NEW t \in Thread, PairingStep(t)
      PROVE  LocalType'
  BY <1>3
  DEF PairingStep, Beacon, Calibrate, LedPair, PairingError, UsbError, flowVars
<1>4. ASSUME NEW t \in Thread, DestructorStep(t)
      PROVE  LocalType'
  BY <1>4
  DEF DestructorStep, StopRumble, PowerOff, CloseInput, DestroyController, UsbError, flowVars
<1>5. CASE MainStep \/ PollFails
  <2>1. CASE Destroy
    <3>1. slot' \in 0 .. WcidCount
      BY <2>1, DongleAssumption DEF Destroy
    <3> QED
      BY <2>1, <3>1 DEF Destroy
  <2>2. CASE Poll \/ PollFails \/ Stop \/ Join \/ Darken \/ RadioOff \/ Close
    BY <2>2 DEF Poll, PollFails, Stop, Join, Darken, RadioOff, Close, UsbError, flowVars
  <2> QED
    BY <1>5, <2>1, <2>2 DEF MainStep
<1>6. CASE Nudge
  BY <1>6 DEF Nudge, Wakes, RumbleFails, UsbError, flowVars
<1>7. CASE AirStep
  BY <1>1, <1>7, AirUnchanged
<1> QED
  BY <1>1, <1>2, <1>3, <1>4, <1>5, <1>6, <1>7 DEF Next, Nudge, vars

LEMMA ChipTypeStep ==
  ASSUME ChipType, LocalType, WcidInRange, [Next]_vars
  PROVE  ChipType'
<1> USE DEF ChipType
<1>1. CASE UNCHANGED chipVars
  BY <1>1 DEF chipVars
<1>2. ASSUME NEW r \in Endpoint, ReaderStep(r) \/ BulkError(r)
      PROVE  ChipType'
  <2>1. CASE WriteWcid(r) \/ AddClient(r) \/ LedOn(r) \/ RemoveClient(r) \/
            ClearWcid(r) \/ LedOff(r)
    BY <2>1
    DEF WriteWcid, AddClient, LedOn, RemoveClient, ClearWcid, LedOff, GiveUp, chipVars,
        LocalType, WcidInRange, Critical, Frame, Owner
  <2>2. CASE Loop(r) \/ BulkData(r) \/ BulkTimeout(r) \/ BulkError(r) \/
            Connect(r) \/ Respond(r) \/ NewController(r) \/ Disconnect(r) \/
            Packet(r) \/ Pair(r)
    BY <1>1, <2>2
    DEF Loop, BulkData, BulkTimeout, BulkError, Connect, Respond, NewController,
        Disconnect, Packet, Pair, PairingError, GiveUp
  <2> QED
    BY <1>2, <2>1, <2>2 DEF ReaderStep
<1>3. ASSUME NEW t \in Thread, PairingStep(t)
      PROVE  ChipType'
  BY <1>3
  DEF PairingStep, Beacon, Calibrate, LedPair, PairingLed, Enable, PairingError, chipVars
<1>4. ASSUME NEW t \in Thread, DestructorStep(t)
      PROVE  ChipType'
  BY <1>1, <1>4, DestructorUnchanged
<1>5. CASE MainStep \/ PollFails
  BY <1>5
  DEF MainStep, Poll, PollFails, Stop, Join, Destroy, Darken, RadioOff, Close, chipVars
<1>6. CASE Nudge
  BY <1>1, <1>6, NudgeUnchanged
<1>7. CASE AirStep
  BY <1>1, <1>7, AirUnchanged
<1> QED
  BY <1>1, <1>2, <1>3, <1>4, <1>5, <1>6, <1>7 DEF Next, Nudge, vars

LEMMA AppendedFrame ==
  ASSUME AirType, NEW e \in Endpoint, NEW f \in Frame,
         inbox' = [inbox EXCEPT ![e] = Append(@, f)]
  PROVE  inbox' \in [Endpoint -> Seq(Frame)]
BY AppendProperties DEF AirType

LEMMA AirTypeStep ==
  ASSUME ChipType, LocalType, AirType, [Next]_vars
  PROVE  AirType'
<1>1. CASE UNCHANGED airVars
  BY <1>1 DEF airVars, AirType
<1>2. ASSUME NEW r \in Endpoint, ReaderStep(r) \/ BulkError(r)
      PROVE  AirType'
  <2>1. CASE BulkData(r)
    BY <2>1, Delivered DEF BulkData, AirType
  <2>2. CASE Respond(r)
    BY <2>2 DEF Respond, GiveUp, AirType, airVars
  <2>4. CASE Loop(r) \/ BulkTimeout(r) \/ BulkError(r) \/ Connect(r) \/
            WriteWcid(r) \/ AddClient(r) \/ LedOn(r) \/ NewController(r) \/
            Disconnect(r) \/ RemoveClient(r) \/ ClearWcid(r) \/ LedOff(r) \/
            Packet(r) \/ Pair(r)
    BY <1>1, <2>4
    DEF Loop, BulkTimeout, BulkError, Connect, WriteWcid, AddClient, LedOn,
        NewController, Disconnect, RemoveClient, ClearWcid, LedOff, Packet, Pair,
        PairingError, GiveUp
  <2> QED
    BY <1>2, <2>1, <2>2, <2>4 DEF ReaderStep
<1>3. ASSUME NEW t \in Thread, PairingStep(t)
      PROVE  AirType'
  BY <1>1, <1>3, PairingUnchanged
<1>4. ASSUME NEW t \in Thread, DestructorStep(t)
      PROVE  AirType'
  <2>1. CASE PowerOff(t)
    BY <2>1 DEF PowerOff, DestroyController, PoweredOff, AirType
  <2> QED
    BY <1>1, <1>4, <2>1, DestructorUnchanged DEF airVars
<1>6. CASE MainStep \/ PollFails
  <2>2. CASE Poll
    BY <2>2 DEF Poll, AirType
  <2>3. CASE PollFails \/ Stop \/ Join \/ Destroy \/ Darken \/ RadioOff \/ Close
    BY <1>1, <2>3 DEF PollFails, Stop, Join, Destroy, Darken, RadioOff, Close
  <2> QED
    BY <1>6, <2>2, <2>3 DEF MainStep
<1>7. CASE Nudge
  BY <1>1, <1>7, NudgeUnchanged
<1>5. CASE AirStep
  <2> USE DEF AirType
  <2>0. MaxFrames \in Nat /\ EventEndpoint \in Endpoint /\ FrameEndpoints \subseteq Endpoint
    BY DongleAssumption
  <2>1. \A a, w, k : a \in Owner /\ w \in Wcid \cup {NoWcid} /\ k \in Kind =>
           [kind |-> k, from |-> a, wcid |-> w,
            use |-> IF w = NoWcid THEN 0 ELSE uses[w]] \in Frame
    BY DEF Frame, ChipType, NoWcid
  <2>2. ASSUME NEW k, Occurs(k) PROVE frames' \in 0 .. MaxFrames
    BY <2>0, <2>2 DEF Occurs
  <2>3. ASSUME NEW a \in Client,
               Associate(a) \/ AskAgain(a) \/ AskToPair(a)
        PROVE  AirType'
    <3>1. inbox' \in [Endpoint -> Seq(Frame)]
      BY <2>0, <2>1, <2>3, AppendedFrame
      DEF Associate, AskAgain, AskToPair, Deliver, Owner, Kind
    <3> QED
      BY <2>2, <2>3, <3>1 DEF Associate, AskAgain, AskToPair, Becomes, Deliver
  <2>4. ASSUME NEW a \in Client,
               Announce(a) \/ AnnounceAgain(a) \/ Input(a) \/ Disassociate(a)
        PROVE  AirType'
    <3>1. Stamps(a) \subseteq Wcid \cup {NoWcid}
      BY DEF Stamps
    <3>2. inbox' \in [Endpoint -> Seq(Frame)]
      BY <2>0, <2>1, <2>4, <3>1, AppendedFrame
      DEF Announce, AnnounceAgain, Input, Disassociate, Deliver, Owner, Kind
    <3> QED
      BY <2>2, <2>4, <3>2
      DEF Announce, AnnounceAgain, Input, Disassociate, Becomes, Deliver
  <2>5. ASSUME NEW a \in Client, Vanish(a) PROVE AirType'
    BY <2>5 DEF Vanish, Becomes
  <2>6. ASSUME NEW w \in Wcid, LoseClient(w) PROVE AirType'
    <3>1. table[w] \in Client
      BY <2>6 DEF LoseClient, ChipType, Owner
    <3>2. inbox' \in [Endpoint -> Seq(Frame)]
      BY <2>0, <2>1, <2>6, <3>1, AppendedFrame DEF LoseClient, Deliver, Owner, Kind
    <3> QED
      BY <2>2, <2>6, <3>1, <3>2 DEF LoseClient, Becomes, Deliver
  <2>7. CASE PressButton
    <3>1. inbox' \in [Endpoint -> Seq(Frame)]
      BY <2>0, <2>1, <2>7, AppendedFrame DEF PressButton, Deliver, Owner, Kind
    <3> QED
      BY <2>2, <2>7, <3>1 DEF PressButton, Deliver
  <2>8. ASSUME NEW s \in Signals, Signal(s) PROVE AirType'
    BY <2>2, <2>8 DEF Signal
  <2> QED
    BY <1>5, <2>3, <2>4, <2>5, <2>6, <2>7, <2>8 DEF AirStep
<1> QED
  BY <1>1, <1>2, <1>3, <1>4, <1>5, <1>6, <1>7 DEF Next, Nudge, vars

LEMMA TypeInit == Init => TypeInv
<1> SUFFICES ASSUME Init PROVE TypeInv
  OBVIOUS
<1> USE DongleAssumption
<1>1. HostType
  BY DEF Init, HostType, Owner
<1>2. ThreadType
  BY DEF Init, ThreadType, Thread, Label, MainLabel
<1>3. LocalType
  <2>1. [kind |-> "button", from |-> Nobody, wcid |-> NoWcid, use |-> 0] \in Frame
    BY DEF Frame, Kind, Owner
  <2>2. WcidCount \in 0 .. WcidCount
    OBVIOUS
  <2> QED
    BY <2>1, <2>2 DEF Init, LocalType
<1>4. ChipType
  BY DEF Init, ChipType, Owner
<1>5. AirType
  BY EmptySeq DEF Init, AirType
<1>6. WcidInRange
  BY DEF Init, WcidInRange, Thread, Critical
<1>7. SlotInRange
  BY DEF Init, SlotInRange, Thread
<1> QED
  BY <1>1, <1>2, <1>3, <1>4, <1>5, <1>6, <1>7 DEF TypeInv, TypeOK

\* Every variable keeps its type: whatever connects, disconnects and fails, in
\* whatever order, a WCID that is taken has a slot.
THEOREM TypeCorrect == Spec => []TypeOK
<1>1. TypeInv /\ [Next]_vars => TypeInv'
  BY HostTypeStep, ThreadTypeStep, LocalTypeStep, ChipTypeStep, AirTypeStep, WcidInRangeStep,
     SlotInRangeStep
  DEF TypeInv, TypeOK
<1>2. TypeInv => TypeOK
  BY DEF TypeInv
<1> QED
  BY <1>1, <1>2, TypeInit, PTL DEF Spec

-----------------------------------------------------------------------------
(* Mutual exclusion, and what it protects                                  *)

LEMMA MutualExclusionStep ==
  ASSUME ThreadType, AirType, MutualExclusion, [Next]_vars
  PROVE  MutualExclusion'
<1>0. Endpoint \subseteq Thread /\ Main \in Thread /\ Main \notin Endpoint /\
      Nobody \notin Endpoint
  BY DongleAssumption DEF Thread
<1>1. CASE /\ UNCHANGED controllerMutex
           /\ \A s \in Endpoint : pc'[s] \in Critical <=> pc[s] \in Critical
           /\ \A s \in Endpoint : pc[s] = "exited" => pc'[s] = "exited"
           /\ ShuttingDown' => ShuttingDown \/ \A s \in Endpoint : pc[s] = "exited"
  BY <1>1 DEF MutualExclusion
<1>2. ASSUME NEW r \in Endpoint, ReaderStep(r) \/ BulkError(r)
      PROVE  MutualExclusion'
  <2>0. ~ShuttingDown
    BY <1>2
    DEF MutualExclusion, ReaderStep, Loop, BulkData, BulkTimeout, BulkError, Connect,
        WriteWcid, AddClient, Respond, LedOn, NewController, Disconnect, RemoveClient,
        ClearWcid, LedOff, Packet, Pair
  <2>1. ASSUME NEW label, Goto(r, label), label \in Critical <=> pc[r] \in Critical,
               pc[r] # "exited", UNCHANGED controllerMutex
        PROVE  MutualExclusion'
    BY <1>0, <1>1, <2>0, <2>1, GotoLabel DEF ShuttingDown
  <2>2. ASSUME Unlock(r), pc[r] \in Critical
        PROVE  MutualExclusion'
    BY <1>0, <2>0, <2>2, GotoLabel
    DEF MutualExclusion, ShuttingDown, Unlock, Return, Critical
  <2>3. ASSUME NEW label \in Critical, Goto(r, label), controllerMutex = Nobody,
               controllerMutex' = r
        PROVE  MutualExclusion'
    BY <1>0, <2>0, <2>3, GotoLabel DEF MutualExclusion, ShuttingDown
  <2>4. ASSUME Abort PROVE MutualExclusion'
    BY <1>0, <2>4 DEF MutualExclusion, Abort, Critical
  <2>5. CASE BulkData(r)
    <3>1. Handler(Head(inbox[r])) \notin Critical
      BY <2>5, Delivered DEF Handler, Critical, Frame, Kind
    <3> QED
      BY <2>1, <2>5, <3>1 DEF BulkData, Critical
  <2>6. CASE Loop(r) \/ BulkTimeout(r) \/ BulkError(r) \/ Pair(r)
    BY <1>0, <2>1, <2>6
    DEF Loop, BulkTimeout, BulkError, Pair, PairingError, Return, Critical
  <2>7. CASE Connect(r) \/ Disconnect(r)
    BY <1>0, <2>1, <2>3, <2>7 DEF Connect, Disconnect, Return, Critical
  <2>8. CASE WriteWcid(r) \/ AddClient(r) \/ Respond(r) \/ LedOn(r)
    BY <2>1, <2>2, <2>8 DEF WriteWcid, AddClient, Respond, LedOn, GiveUp, Critical
  <2>9. CASE NewController(r) \/ RemoveClient(r) \/ ClearWcid(r) \/ LedOff(r)
    BY <2>1, <2>2, <2>4, <2>9
    DEF NewController, RemoveClient, ClearWcid, LedOff, GiveUp, Critical
  <2>10. CASE Packet(r)
    BY <1>0, <2>1, <2>4, <2>10 DEF Packet, Return, Critical
  <2> QED
    BY <1>2, <2>5, <2>6, <2>7, <2>8, <2>9, <2>10 DEF ReaderStep
<1>3. ASSUME NEW t \in Thread, PairingStep(t)
      PROVE  MutualExclusion'
  <2>1. UNCHANGED controllerMutex
    BY <1>3, PairingUnchanged
  <2>2. PICK label : /\ Goto(t, label)
                     /\ label \notin Critical
                     /\ t = Main => label \in {"poll", "calibrate", "ledPair"}
    BY <1>3
    DEF PairingStep, Beacon, Calibrate, LedPair, PairingError, Return, Critical
  <2>3. pc[t] \in {"beacon", "calibrate", "ledPair"}
    BY <1>3 DEF PairingStep, Beacon, Calibrate, LedPair
  <2> QED
    BY <1>0, <1>1, <2>1, <2>2, <2>3, GotoLabel DEF ShuttingDown, Destroying, Critical
<1>4. ASSUME NEW t \in Thread, DestructorStep(t)
      PROVE  MutualExclusion'
  <2>1. UNCHANGED controllerMutex
    BY <1>4, DestructorUnchanged
  <2>2. /\ pc[t] \in {"stopRumble", "powerOff", "closeInput"}
        /\ \E label \in {"powerOff", "closeInput"} \cup
                        (IF t = Main THEN {"destroy"} ELSE {"removeClient"}) : Goto(t, label)
    BY <1>4 DEF DestructorStep, StopRumble, PowerOff, CloseInput
  <2> QED
    BY <1>0, <1>1, <2>1, <2>2, GotoLabel DEF ShuttingDown, Destroying, Critical
<1>5. CASE MainStep \/ PollFails
  <2>1. UNCHANGED controllerMutex /\ \A s \in Endpoint : pc'[s] = pc[s]
    BY <1>0, <1>5, MainUnchanged, GotoLabel
    DEF MainStep, Poll, PollFails, Stop, Join, Destroy, Darken, RadioOff, Close
  <2>2. ShuttingDown' => ShuttingDown \/ Joined
    BY <1>0, <1>5, GotoLabel
    DEF MainStep, Poll, PollFails, Stop, Join, Destroy, Darken, RadioOff, Close, ShuttingDown,
        Destroying
  <2> QED
    BY <1>1, <2>1, <2>2 DEF Joined
<1>6. CASE Nudge
  BY <1>1, <1>6, NudgeUnchanged DEF ShuttingDown
<1>7. CASE AirStep
  BY <1>1, <1>7, AirUnchanged DEF ShuttingDown
<1>8. CASE UNCHANGED vars
  BY <1>1, <1>8 DEF vars, ShuttingDown
<1> QED
  BY <1>2, <1>3, <1>4, <1>5, <1>6, <1>7, <1>8 DEF Next, Nudge

\* A reader that connects a gamepad has taken its WCID, one that frees a WCID has
\* emptied its slot, and an input device is that of a Controller.
Connecting == {"writeWcid", "addClient", "respond", "ledOn", "newController"}

WcidHeld ==
  /\ \A r \in Endpoint :
       /\ pc[r] \in Connecting => wcid[r] \in connectedClients
       /\ pc[r] \in {"closeInput", "removeClient", "clearWcid"} => controllers[wcid[r]] = Nobody
  /\ \A w \in created : controllers[w] # Nobody

SlotInv == TypeInv /\ MutualExclusion /\ SlotHoldsWcid /\ WcidHeld

LEMMA SlotStep ==
  ASSUME SlotInv, [Next]_vars
  PROVE  SlotHoldsWcid' /\ WcidHeld'
<1> USE DEF SlotHoldsWcid, WcidHeld
<1>0. /\ Endpoint \subseteq Thread /\ Main \notin Endpoint
      /\ SlotHoldsWcid /\ WcidHeld
      /\ HostType /\ ThreadType /\ LocalType /\ AirType /\ WcidInRange
  BY DongleAssumption DEF Thread, SlotInv, TypeInv, TypeOK
<1>h. HostType'
  BY <1>0, HostTypeStep
<1>1. CASE /\ UNCHANGED <<connectedClients, controllers, wcid>>
           /\ \A w \in created' : w \in created \/ controllers[w] # Nobody
           /\ \A s \in Endpoint : pc'[s] \in Connecting => pc[s] \in Connecting
           /\ \A s \in Endpoint : pc'[s] \in {"closeInput", "removeClient", "clearWcid"} =>
                                    pc[s] \in {"closeInput", "removeClient", "clearWcid"}
  BY <1>0, <1>1, <1>h DEF HostType
<1>2. ASSUME NEW r \in Endpoint, pc[r] \in Critical
      PROVE  \A s \in Endpoint : s # r => pc[s] \notin Critical
  BY <1>2 DEF SlotInv, MutualExclusion
<1>3. ASSUME NEW r \in Endpoint, ReaderStep(r) \/ BulkError(r)
      PROVE  SlotHoldsWcid' /\ WcidHeld'
  <2>1. CASE BulkData(r)
    <3>1. Handler(Head(inbox[r])) \notin Connecting \cup {"closeInput", "removeClient", "clearWcid"}
      BY <1>0, <2>1, Delivered DEF Handler, Connecting, Frame, Kind
    <3>2. \A s \in Endpoint : s # r => pc'[s] = pc[s] /\ wcid'[s] = wcid[s]
      BY <1>0, <2>1, GotoLabel DEF BulkData, LocalType
    <3>3. pc'[r] \notin Connecting \cup {"closeInput", "removeClient", "clearWcid"}
      BY <1>0, <2>1, <3>1, GotoLabel DEF BulkData
    <3> QED
      BY <1>0, <2>1, <3>2, <3>3 DEF BulkData, hostVars
  <2>2. CASE Connect(r)
    <3>1. CASE FreeWcids = {}
      BY <1>0, <1>1, <2>2, <3>1, GotoLabel DEF Connect, Return, Connecting
    <3>2. CASE FreeWcids # {}
      <4>1. /\ connectedClients' = connectedClients \cup {wcid'[r]}
            /\ UNCHANGED <<controllers, created>>
            /\ pc'[r] = "writeWcid"
            /\ \A s \in Endpoint : s # r => pc'[s] = pc[s] /\ wcid'[s] = wcid[s]
        BY <1>0, <2>2, <3>2, GotoLabel DEF Connect, LocalType
      <4> QED
        BY <1>0, <4>1
    <3> QED
      BY <3>1, <3>2
  <2>3. CASE NewController(r)
    <3>1. CASE Abort /\ UNCHANGED <<connectedClients, controllers, created, wcid>>
      BY <1>0, <1>1, <3>1 DEF Abort, Connecting
    <3>2. CASE ~ (Abort /\ UNCHANGED <<connectedClients, controllers, created, wcid>>)
      <4>1. /\ pc[r] = "newController"
            /\ controllers' = [controllers EXCEPT ![wcid[r]] = frame[r].from]
            /\ created' = created \ {wcid[r]}
            /\ UNCHANGED <<connectedClients, wcid>>
            /\ pc'[r] = "loop"
            /\ \A s \in Endpoint : s # r => pc'[s] = pc[s]
        BY <1>0, <2>3, <3>2, GotoLabel DEF NewController, Unlock, Return
      <4>2. \A s \in Endpoint : s # r => pc[s] \notin Critical
        BY <1>2, <4>1 DEF Critical
      <4> QED
        BY <1>0, <4>1, <4>2 DEF HostType, Connecting, Critical
    <3> QED
      BY <3>1, <3>2
  <2>5. CASE RemoveClient(r)
    <3>1. /\ pc[r] = "removeClient"
          /\ connectedClients' = connectedClients \ {wcid[r]}
          /\ UNCHANGED <<controllers, created, wcid>>
          /\ pc'[r] \in {"clearWcid", "loop"}
          /\ \A s \in Endpoint : s # r => pc'[s] = pc[s]
      BY <1>0, <2>5, GotoLabel
      DEF RemoveClient, WithoutWcid, Unlock, Return, flowVars
    <3>2. \A s \in Endpoint : s # r => pc[s] \notin Critical
      BY <1>2, <3>1 DEF Critical
    <3> QED
      BY <1>0, <3>1, <3>2 DEF Connecting, Critical
  <2>6. CASE Packet(r)
    <3>1. \A w \in created' : w \in created \/ controllers[w] # Nobody
      BY <2>6 DEF Packet
    <3>2. \A s \in Endpoint : pc'[s] = pc[s] \/ pc'[s] \in {"loop", "exited"}
      BY <1>0, <2>6, GotoLabel DEF Packet, Return, Abort
    <3> QED
      BY <1>0, <1>1, <2>6, <3>1, <3>2 DEF Packet, Connecting
  <2>7. CASE Loop(r) \/ BulkTimeout(r) \/ BulkError(r) \/ Pair(r) \/
            WriteWcid(r) \/ AddClient(r) \/ Respond(r) \/ LedOn(r) \/
            Disconnect(r) \/ ClearWcid(r) \/ LedOff(r)
    <3>1. UNCHANGED <<connectedClients, controllers, created, wcid>>
      BY <2>7
      DEF Loop, BulkTimeout, BulkError, Pair, PairingError, WriteWcid, AddClient,
          Respond, LedOn, Disconnect, ClearWcid, LedOff, GiveUp, flowVars, hostVars
    <3>2. PICK label :
            /\ Goto(r, label)
            /\ label \in Connecting => pc[r] \in Connecting
            /\ label \notin {"closeInput", "removeClient", "clearWcid"}
      BY <1>0, <2>7
      DEF Loop, BulkTimeout, BulkError, Pair, PairingError, WriteWcid, AddClient,
          Respond, LedOn, Disconnect, ClearWcid, LedOff, GiveUp, Unlock, Return,
          Connecting
    <3> QED
      BY <1>0, <1>1, <3>1, <3>2, GotoLabel
  <2> QED
    BY <1>3, <2>1, <2>2, <2>3, <2>5, <2>6, <2>7 DEF ReaderStep
<1>4. ASSUME NEW t \in Thread, PairingStep(t)
      PROVE  SlotHoldsWcid' /\ WcidHeld'
  <2>1. UNCHANGED <<connectedClients, controllers, created, wcid>>
    BY <1>4, PairingUnchanged DEF flowVars, hostVars
  <2>2. PICK label : /\ Goto(t, label)
                     /\ label \notin Connecting \cup {"closeInput", "removeClient", "clearWcid"}
    BY <1>4 DEF PairingStep, Beacon, Calibrate, LedPair, PairingError, Return, Connecting
  <2> QED
    BY <1>0, <1>1, <2>1, <2>2, GotoLabel
<1>5. ASSUME NEW t \in Thread, DestructorStep(t)
      PROVE  SlotHoldsWcid' /\ WcidHeld'
  <2>0. UNCHANGED <<connectedClients, wcid>>
    BY <1>5, DestructorUnchanged DEF flowVars
  <2>1. CASE StopRumble(t) \/ CloseInput(t)
    <3>1. UNCHANGED <<controllers, created>>
      BY <2>1 DEF StopRumble, CloseInput, hostVars
    <3>2. \A s \in Endpoint : pc'[s] # pc[s] =>
            /\ pc'[s] \notin Connecting \cup {"closeInput", "clearWcid"}
            /\ pc'[s] = "removeClient" => pc[s] = "closeInput"
      BY <1>0, <2>1, GotoLabel DEF StopRumble, CloseInput, Connecting
    <3> QED
      BY <1>0, <1>1, <2>0, <3>1, <3>2
  <2>2. CASE PowerOff(t)
    <3>1. /\ controllers' = [controllers EXCEPT ![Slot(t)] = Nobody]
          /\ created' = created \ {Slot(t)}
          /\ pc'[t] = "closeInput"
          /\ \A s \in Endpoint : s # t => pc'[s] = pc[s]
      BY <1>0, <2>2, GotoLabel DEF PowerOff, DestroyController
    <3>2. t # Main => Slot(t) = wcid[t] /\ wcid[t] \in Wcid
      BY <1>0, <2>2 DEF PowerOff, Slot, WcidInRange, Critical, Thread
    <3>3. \A w \in Wcid : /\ w # Slot(t) => controllers'[w] = controllers[w]
                          /\ controllers'[w] # Nobody => controllers[w] # Nobody
                          /\ controllers[w] = Nobody => controllers'[w] = Nobody
      BY <1>0, <3>1 DEF HostType
    <3>4. \A s \in Endpoint : pc[s] \in {"closeInput", "removeClient", "clearWcid"} => wcid[s] \in Wcid
      BY <1>0 DEF WcidInRange, Critical
    <3>5. \A w \in created : w \in Wcid
      BY <1>0 DEF HostType
    <3>6. SlotHoldsWcid'
      BY <1>0, <2>0, <3>1, <3>3
    <3>7. ASSUME NEW s \in Endpoint
          PROVE  /\ pc'[s] \in Connecting => wcid'[s] \in connectedClients'
                 /\ pc'[s] \in {"closeInput", "removeClient", "clearWcid"} => controllers'[wcid'[s]] = Nobody
      <4>1. CASE s = t
        BY <1>0, <2>0, <3>1, <3>2, <4>1 DEF Connecting, HostType
      <4>2. CASE s # t
        BY <1>0, <2>0, <3>1, <3>3, <3>4, <4>2
      <4> QED
        BY <4>1, <4>2
    <3>8. \A w \in created' : controllers'[w] # Nobody
      BY <1>0, <3>1, <3>3, <3>5
    <3> QED
      BY <3>6, <3>7, <3>8
  <2> QED
    BY <1>5, <2>1, <2>2 DEF DestructorStep
<1>6. CASE MainStep \/ PollFails
  <2>1. UNCHANGED <<connectedClients, controllers, created, wcid>>
    BY <1>6, MainUnchanged DEF hostVars
  <2>2. \A s \in Endpoint : pc'[s] = pc[s]
    BY <1>0, <1>6, GotoLabel
    DEF MainStep, Poll, PollFails, Stop, Join, Destroy, Darken, RadioOff, Close, Thread
  <2> QED
    BY <1>0, <1>1, <2>1, <2>2
<1>7. CASE Nudge
  BY <1>1, <1>7, NudgeUnchanged DEF flowVars
<1>8. CASE AirStep
  BY <1>1, <1>8, AirUnchanged DEF hostVars, flowVars
<1>9. CASE UNCHANGED vars
  BY <1>1, <1>9 DEF vars, hostVars, flowVars
<1> QED
  BY <1>3, <1>4, <1>5, <1>6, <1>7, <1>8, <1>9 DEF Next, Nudge

LEMMA SlotInvInvariant == Spec => []SlotInv
<1>1. Init => SlotInv
  <2> SUFFICES ASSUME Init PROVE SlotInv
    OBVIOUS
  <2>1. MutualExclusion
    BY DongleAssumption
    DEF Init, MutualExclusion, ShuttingDown, Destroying, Thread, Critical
  <2>2. SlotHoldsWcid /\ WcidHeld
    BY DongleAssumption DEF Init, SlotHoldsWcid, WcidHeld, Thread, Connecting
  <2> QED
    BY <2>1, <2>2, TypeInit DEF SlotInv
<1>2. SlotInv /\ [Next]_vars => SlotInv'
  BY SlotStep, MutualExclusionStep, HostTypeStep, ThreadTypeStep, LocalTypeStep,
     ChipTypeStep, AirTypeStep, WcidInRangeStep, SlotInRangeStep
  DEF SlotInv, TypeInv, TypeOK
<1> QED
  BY <1>1, <1>2, PTL DEF Spec

\* At most one reader is between lock and unlock of controllerMutex, and none is
\* when the destructor of Dongle destroys the controllers without the mutex.
THEOREM Exclusion == Spec => []MutualExclusion
BY SlotInvInvariant, PTL DEF SlotInv

\* A Controller is only in a slot whose WCID is taken, also after USB commands
\* failed: what it sends, its POWER_OFF and the packets of its rumble thread
\* included, is never dropped for want of a WCID.
THEOREM SlotsHoldWcids == Spec => []SlotHoldsWcid
BY SlotInvInvariant, PTL DEF SlotInv

-----------------------------------------------------------------------------
(* Who is connected: the invariant                                         *)

\* What a handler knows of the slot it works on, whatever has failed before.
Held ==
  \A r \in Endpoint :
    /\ pc[r] \in Connecting => controllers[wcid[r]] = Nobody
    /\ pc[r] \in Connecting \cup {"connect"} => frame[r].from \in Client
    /\ pc[r] \in {"stopRumble", "powerOff"} => controllers[wcid[r]] # Nobody
    /\ pc[r] \in {"closeInput", "removeClient"} => wcid[r] \in connectedClients

\* What the chip was told of a gamepad, before its Controller and while it is there,
\* whatever has failed before.
Told ==
  /\ \A w \in Wcid : controllers[w] # Nobody => w \in registered /\ table[w] = controllers[w]
  /\ \A r \in Endpoint :
       /\ pc[r] \in Connecting \ {"writeWcid"} => table[wcid[r]] = frame[r].from
       /\ pc[r] \in {"respond", "ledOn", "newController"} => wcid[r] \in registered

\* Who asks to associate is a gamepad.
Senders ==
  \A e \in Endpoint : \A i \in 1 .. Len(inbox[e]) :
    inbox[e][i].kind = "associate" => inbox[e][i].from \in Client

\* How far the end has come.
Ending ==
  /\ ~ShuttingDown => slot = WcidCount
  /\ aborted => pc[Main] = "exited"
  /\ radio # "on" => pc[Main] \in {"close", "exited"} /\ ~aborted
  /\ pc[Main] \in {"destroy", "stopRumble", "powerOff", "closeInput"} =>
       \A w \in Wcid : w > slot => controllers[w] = Nobody
  /\ pc[Main] \in {"stopRumble", "powerOff"} => controllers[slot] # Nobody
  /\ pc[Main] \in {"radioOff", "close"} \/ (pc[Main] = "exited" /\ ~aborted) =>
       \A w \in Wcid : controllers[w] = Nobody

Failed == interrupted \/ ShuttingDown

\* The four views agree on slot w.
Agree(w) ==
  /\ table[w] = controllers[w]
  /\ w \in registered <=> controllers[w] # Nobody
  /\ w \in connectedClients <=> controllers[w] # Nobody

\* The four views of the slot that a handler works on.
AtWork(r) ==
  LET w == wcid[r]
  IN  /\ pc[r] \in Connecting => w \in connectedClients
      /\ pc[r] = "writeWcid" => table[w] = Nobody
      /\ pc[r] \in Connecting \ {"writeWcid"} => table[w] = frame[r].from
      /\ pc[r] \in {"writeWcid", "addClient"} => w \notin registered
      /\ pc[r] \in {"respond", "ledOn", "newController", "closeInput", "removeClient"} =>
           w \in registered
      /\ pc[r] \in {"stopRumble", "powerOff", "ledOff"} => Agree(w)
      /\ pc[r] \in {"closeInput", "removeClient", "clearWcid"} => controllers[w] = Nobody
      /\ pc[r] = "clearWcid" => w \notin registered \cup connectedClients

Views ==
  /\ \A w \in Wcid : Agree(w) \/ \E r \in Endpoint : pc[r] \in Critical /\ wcid[r] = w
  /\ \A r \in Endpoint : AtWork(r)

\* While the LED is dark, whoever is connected is on the way to light it.
Lighting == {"writeWcid", "addClient", "respond", "ledOn"}

Lit ==
  /\ led = "off" =>
       \A w \in connectedClients : \E r \in Endpoint : pc[r] \in Lighting /\ wcid[r] = w
  /\ \A r \in Endpoint : pc[r] = "ledOff" => connectedClients = {}

ViewsInv == ~Failed => Views /\ Lit

\* Whoever believes to be connected is in a slot, or about to be.
ClientInv ==
  ~interrupted /\ ~aborted =>
    \A a \in Client :
      client[a] \in {"on", "ready"} =>
        \/ \E w \in Wcid : controllers[w] = a
        \/ \E r \in Endpoint : pc[r] \in {"ledOn", "newController"} /\ frame[r].from = a

ViewInv == SlotInv /\ Senders /\ Held /\ Told /\ Ending /\ ViewsInv /\ ClientInv

-----------------------------------------------------------------------------
(* What a step leaves alone                                                *)

\* Whatever the thread of an endpoint, or the main thread, does but setPairingStatus().
Acts(r) == ReaderStep(r) \/ BulkError(r) \/ DestructorStep(r)
MainActs == MainStep \/ PollFails \/ DestructorStep(Main)

LEMMA Steps ==
  ASSUME [Next]_vars
  PROVE  \/ \E r \in Endpoint : Acts(r)
         \/ \E t \in Thread : PairingStep(t)
         \/ MainActs \/ Nudge \/ AirStep \/ UNCHANGED vars
BY DEF Next, Acts, MainActs, Nudge, Thread

LEMMA SlotOf == Slot(Main) = slot /\ \A r \in Endpoint : Slot(r) = wcid[r]
BY DongleAssumption DEF Slot

LEMMA Threads ==
  /\ Endpoint \subseteq Thread /\ Main \in Thread /\ Main \notin Endpoint
  /\ Nobody \notin Endpoint /\ Nobody \notin Client
BY DongleAssumption DEF Thread

\* A reader has its program counter and its locals for itself.
Others(r) ==
  /\ \A s \in Endpoint : s # r => pc'[s] = pc[s] /\ wcid'[s] = wcid[s] /\ frame'[s] = frame[s]
  /\ pc'[Main] = pc[Main]

LEMMA GotoOthers ==
  ASSUME ThreadType, NEW r \in Endpoint, NEW label, Goto(r, label),
         UNCHANGED <<wcid, frame>>
  PROVE  Others(r) /\ pc'[r] = label /\ wcid'[r] = wcid[r] /\ frame'[r] = frame[r]
BY Threads, GotoLabel DEF Others

LEMMA ReaderOthers ==
  ASSUME ThreadType, LocalType, NEW r \in Endpoint, Acts(r)
  PROVE  \/ Others(r)
         \/ /\ Abort
            /\ UNCHANGED <<wcid, frame, connectedClients, controllers, chipVars, airVars,
                           slot, interrupted>>
<1>1. CASE BulkData(r)
  <2>1. /\ \A s \in Endpoint : s # r => wcid'[s] = wcid[s] /\ frame'[s] = frame[s]
        /\ \E label : Goto(r, label)
    BY <1>1 DEF BulkData, LocalType
  <2>. QED  BY <2>1, Threads, GotoLabel DEF Others
<1>2. CASE Connect(r)
  <2>1. \A s \in Endpoint : s # r => wcid'[s] = wcid[s]
    BY <1>2 DEF Connect, LocalType
  <2>2. UNCHANGED frame /\ \E label : Goto(r, label)
    BY <1>2 DEF Connect, Return
  <2>. QED  BY <2>1, <2>2, Threads, GotoLabel DEF Others
<1>3. CASE Packet(r) \/ NewController(r)
  <2>1. UNCHANGED <<wcid, frame, connectedClients, controllers, chipVars, airVars, slot,
                    interrupted>>
        \/ \E label : Goto(r, label) /\ UNCHANGED <<wcid, frame>>
    BY <1>3 DEF Packet, NewController, Unlock, Return
  <2>2. Abort \/ (\E label : Goto(r, label) /\ UNCHANGED <<wcid, frame>>)
    BY <1>3 DEF Packet, NewController, Unlock, Return
  <2>. QED  BY <2>1, <2>2, GotoOthers
<1>4. CASE Loop(r) \/ BulkTimeout(r) \/ BulkError(r) \/ Pair(r) \/
          WriteWcid(r) \/ AddClient(r) \/ Respond(r) \/ LedOn(r) \/
          Disconnect(r) \/ RemoveClient(r) \/ ClearWcid(r) \/ LedOff(r) \/
          StopRumble(r) \/ PowerOff(r) \/ CloseInput(r)
  <2>1. UNCHANGED <<wcid, frame>> /\ \E label : Goto(r, label)
    BY <1>4
    DEF Loop, BulkTimeout, BulkError, Pair, PairingError, WriteWcid, AddClient, Respond,
        LedOn, Disconnect, RemoveClient, ClearWcid, LedOff, StopRumble, PowerOff, CloseInput,
        GiveUp, Unlock, Return, flowVars
  <2>. QED  BY <2>1, GotoOthers
<1>. QED  BY <1>1, <1>2, <1>3, <1>4 DEF Acts, ReaderStep, DestructorStep

LEMMA ReaderUp ==
  ASSUME MutualExclusion, NEW r \in Endpoint, Acts(r)
  PROVE  ~ShuttingDown
BY DEF MutualExclusion, Acts, ReaderStep, Loop, BulkData, BulkTimeout, BulkError, Connect,
       WriteWcid, AddClient, Respond, LedOn, NewController, Disconnect, RemoveClient,
       ClearWcid, LedOff, Packet, Pair, DestructorStep, StopRumble, PowerOff, CloseInput

LEMMA MainOthers ==
  ASSUME ThreadType, MainActs
  PROVE  /\ UNCHANGED <<connectedClients, table, uses, registered, beacon, frame, wcid,
                        aborted, inbox>>
         /\ PowerOff(Main) \/ UNCHANGED <<controllers, created, client>>
         /\ \A s \in Endpoint : pc'[s] = pc[s]
<1>1. CASE MainStep \/ PollFails
  BY <1>1, MainUnchanged, Threads, GotoLabel
  DEF MainStep, PollFails, Poll, Stop, Join, Destroy, Darken, RadioOff, Close, hostVars
<1>2. CASE DestructorStep(Main)
  <2>1. \A s \in Endpoint : pc'[s] = pc[s]
    BY <1>2, Threads, GotoLabel DEF DestructorStep, StopRumble, PowerOff, CloseInput
  <2>. QED  BY <1>2, <2>1, Threads, DestructorUnchanged DEF chipVars, flowVars
<1>. QED  BY <1>1, <1>2 DEF MainActs

-----------------------------------------------------------------------------
(* What the handlers know of the slot they work on                         *)

LEMMA SendersStep ==
  ASSUME TypeInv, Senders, [Next]_vars
  PROVE  Senders'
<1>0. AirType /\ LocalType /\ ChipType /\ ThreadType
  BY DEF TypeInv, TypeOK
<1>1. CASE UNCHANGED inbox
  BY <1>1 DEF Senders
<1>2. ASSUME NEW e \in Endpoint, NEW f, f.kind = "associate" => f.from \in Client,
             inbox' = [inbox EXCEPT ![e] = Append(@, f)]
      PROVE  Senders'
  <2> SUFFICES ASSUME NEW d \in Endpoint
               PROVE  \A i \in 1 .. Len(inbox'[d]) :
                        inbox'[d][i].kind = "associate" => inbox'[d][i].from \in Client
    BY DEF Senders
  <2>1. CASE d # e
    <3>1. inbox'[d] = inbox[d]
      BY <1>0, <1>2, <2>1 DEF AirType
    <3>. QED  BY <3>1 DEF Senders
  <2>2. CASE d = e
    <3>1. inbox'[e] = Append(inbox[e], f) /\ inbox[e] \in Seq(Frame)
      BY <1>0, <1>2 DEF AirType
    <3>2. \A i \in 1 .. Len(inbox'[e]) :
            \/ i \in 1 .. Len(inbox[e]) /\ inbox'[e][i] = inbox[e][i]
            \/ inbox'[e][i] = f
      BY <3>1
    <3>. QED  BY <1>2, <2>2, <3>2 DEF Senders
  <2>. QED  BY <2>1, <2>2
<1>3. ASSUME NEW r \in Endpoint, BulkData(r) PROVE Senders'
  <2>1. inbox' = [inbox EXCEPT ![r] = Tail(inbox[r])] /\ inbox[r] # <<>>
    BY <1>3 DEF BulkData
  <2>2. inbox[r] \in Seq(Frame)
    BY <1>0 DEF AirType
  <2>3. \A i \in 1 .. Len(Tail(inbox[r])) :
          i + 1 \in 1 .. Len(inbox[r]) /\ Tail(inbox[r])[i] = inbox[r][i + 1]
    BY <2>1, <2>2
  <2>4. \A e \in Endpoint : inbox'[e] = IF e = r THEN Tail(inbox[r]) ELSE inbox[e]
    BY <1>0, <2>1 DEF AirType
  <2>. QED  BY <2>3, <2>4 DEF Senders
<1>4. ASSUME NEW r \in Endpoint, ReaderStep(r) \/ BulkError(r), ~BulkData(r)
      PROVE  Senders'
  BY <1>1, <1>4
  DEF ReaderStep, Loop, BulkTimeout, BulkError, Pair, PairingError, Connect, WriteWcid,
      AddClient, Respond, LedOn, NewController, Disconnect, RemoveClient, ClearWcid, LedOff,
      Packet, GiveUp, airVars
<1>5. ASSUME NEW t \in Thread, PairingStep(t) PROVE Senders'
  BY <1>1, <1>5, PairingUnchanged DEF airVars
<1>6. CASE MainStep \/ PollFails \/ Nudge
  BY <1>1, <1>6, MainUnchanged, NudgeUnchanged DEF airVars
<1>9. ASSUME NEW t \in Thread, DestructorStep(t) PROVE Senders'
  BY <1>1, <1>9, DestructorUnchanged
<1>7. CASE AirStep
  <2>1. ASSUME NEW e \in Endpoint, NEW kind, NEW a, NEW w, Deliver(e, kind, a, w),
               kind = "associate" => a \in Client
        PROVE  Senders'
    <3> DEFINE f == [kind |-> kind, from |-> a, wcid |-> w,
                     use |-> IF w = NoWcid THEN 0 ELSE uses[w]]
    <3>1. inbox' = [inbox EXCEPT ![e] = Append(@, f)]
      BY <2>1 DEF Deliver
    <3>2. f.kind = "associate" => f.from \in Client
      BY <2>1
    <3> HIDE DEF f
    <3>. QED  BY <1>2, <3>1, <3>2
  <2>2. FrameEndpoints \subseteq Endpoint /\ EventEndpoint \in Endpoint
    BY DongleAssumption
  <2>3. ASSUME NEW a \in Client,
               \/ Associate(a) \/ AskAgain(a) \/ Announce(a) \/ AnnounceAgain(a)
               \/ Input(a) \/ Disassociate(a) \/ AskToPair(a)
        PROVE  Senders'
    BY <2>1, <2>2, <2>3
    DEF Associate, AskAgain, Announce, AnnounceAgain, Input, Disassociate, AskToPair
  <2>4. ASSUME NEW w \in Wcid, LoseClient(w) PROVE Senders'
    BY <2>1, <2>2, <2>4 DEF LoseClient
  <2>5. CASE PressButton
    BY <2>1, <2>2, <2>5 DEF PressButton
  <2>6. ASSUME NEW a \in Client, Vanish(a) PROVE Senders'
    BY <1>1, <2>6 DEF Vanish
  <2>7. ASSUME NEW s \in Signals, Signal(s) PROVE Senders'
    BY <1>1, <2>7 DEF Signal
  <2>. QED  BY <1>7, <2>3, <2>4, <2>5, <2>6, <2>7 DEF AirStep
<1>8. CASE UNCHANGED vars
  BY <1>1, <1>8 DEF vars, airVars
<1>. QED  BY <1>3, <1>4, <1>5, <1>6, <1>7, <1>8, <1>9 DEF Next, Nudge

\* A reader that disconnects a gamepad.
Leaving == {"stopRumble", "powerOff", "closeInput", "removeClient"}

\* Only what happens to the slots of critical readers and to their frames matters.
LEMMA HeldKept ==
  ASSUME Held,
         \A s \in Endpoint :
           pc'[s] \in Connecting \cup {"connect"} \cup Leaving =>
             /\ pc'[s] = pc[s] /\ wcid'[s] = wcid[s] /\ frame'[s] = frame[s]
             /\ controllers'[wcid[s]] = controllers[wcid[s]]
             /\ wcid[s] \in connectedClients => wcid[s] \in connectedClients'
  PROVE  Held'
BY DEF Held, Connecting, Leaving

LEMMA HeldByOne ==
  ASSUME Held, NEW r \in Endpoint, Others(r),
         \A s \in Endpoint \ {r} :
           pc[s] \in Connecting \cup Leaving =>
             /\ controllers'[wcid[s]] = controllers[wcid[s]]
             /\ wcid[s] \in connectedClients => wcid[s] \in connectedClients',
         pc'[r] \in Connecting => controllers'[wcid'[r]] = Nobody,
         pc'[r] \in Connecting \cup {"connect"} => frame'[r].from \in Client,
         pc'[r] \in {"stopRumble", "powerOff"} => controllers'[wcid'[r]] # Nobody,
         pc'[r] \in {"closeInput", "removeClient"} => wcid'[r] \in connectedClients'
  PROVE  Held'
BY DEF Held, Others, Connecting, Leaving

LEMMA Alone ==
  ASSUME MutualExclusion, NEW r \in Endpoint, pc[r] \in Critical \/ controllerMutex = Nobody
  PROVE  \A s \in Endpoint \ {r} : pc[s] \notin Critical
BY Threads DEF MutualExclusion

LEMMA HeldStep ==
  ASSUME SlotInv, Senders, Held, [Next]_vars
  PROVE  Held'
<1>0. /\ HostType /\ ThreadType /\ LocalType /\ AirType /\ WcidInRange
      /\ MutualExclusion /\ SlotHoldsWcid /\ WcidHeld
  BY DEF SlotInv, TypeInv, TypeOK
<1>c. Connecting \cup Leaving \subseteq Critical
  BY DEF Connecting, Leaving, Critical
<1>1. CASE /\ UNCHANGED <<connectedClients, controllers, wcid, frame>>
           /\ \A s \in Endpoint :
                pc'[s] \in Connecting \cup {"connect"} \cup Leaving => pc'[s] = pc[s]
  BY <1>1, HeldKept
<1>2. ASSUME NEW r \in Endpoint, Acts(r), ~Abort
      PROVE  Held'
  <2>0. Others(r)
    BY <1>0, <1>2, ReaderOthers
  <2>1. CASE BulkData(r)
    <3>1. UNCHANGED <<connectedClients, controllers>> /\ pc'[r] = Handler(Head(inbox[r]))
          /\ frame'[r] = Head(inbox[r])
      BY <1>0, <2>1, Threads, GotoLabel DEF BulkData, hostVars, LocalType
    <3>2. Head(inbox[r]).kind = "associate" => Head(inbox[r]).from \in Client
      <4>1. inbox[r] # <<>> /\ inbox[r] \in Seq(Frame)
        BY <1>0, <2>1 DEF BulkData, AirType
      <4>2. 1 \in 1 .. Len(inbox[r]) /\ Head(inbox[r]) = inbox[r][1]
        BY <4>1
      <4>. QED  BY <4>2 DEF Senders
    <3>3. /\ Handler(Head(inbox[r])) \notin Connecting \cup Leaving
          /\ Handler(Head(inbox[r])) = "connect" => Head(inbox[r]).kind = "associate"
      BY <1>0, <2>1, Delivered DEF Handler, Connecting, Leaving, Frame, Kind
    <3>. QED  BY <2>0, <3>1, <3>2, <3>3, HeldByOne DEF Leaving
  <2>2. CASE Connect(r)
    <3>0. pc[r] = "connect" /\ frame'[r] = frame[r] /\ UNCHANGED controllers
          /\ \A s \in Endpoint \ {r} : pc[s] \notin Critical
      BY <1>0, <2>2, Alone DEF Connect
    <3>1. CASE FreeWcids = {}
      <4>1. pc'[r] = "loop"
        BY <1>0, <2>2, <3>1, Threads, GotoLabel DEF Connect, Return
      <4>. QED  BY <1>c, <2>0, <3>0, <4>1, HeldByOne DEF Connecting
    <3>2. CASE FreeWcids # {}
      <4>1. pc'[r] = "writeWcid" /\ wcid'[r] = FirstFree
        BY <1>0, <2>2, <3>2, Threads, GotoLabel DEF Connect, LocalType
      <4>2. controllers[FirstFree] = Nobody
        BY <1>0, <3>2, FirstFreeIsFree DEF FreeWcids, SlotHoldsWcid
      <4>3. frame[r].from \in Client
        BY <3>0 DEF Held
      <4>. QED  BY <1>c, <2>0, <3>0, <4>1, <4>2, <4>3, HeldByOne DEF Connecting
    <3>. QED  BY <3>1, <3>2
  <2>3. CASE WriteWcid(r) \/ AddClient(r) \/ Respond(r) \/ LedOn(r)
    <3>1. /\ pc[r] \in Connecting /\ pc'[r] \in Connecting \cup {"loop"}
          /\ UNCHANGED <<connectedClients, controllers>>
          /\ wcid'[r] = wcid[r] /\ frame'[r] = frame[r]
      BY <1>0, <2>3, Threads, GotoLabel
      DEF WriteWcid, AddClient, Respond, LedOn, GiveUp, Unlock, Return, hostVars, flowVars,
          Connecting
    <3>2. controllers[wcid[r]] = Nobody /\ frame[r].from \in Client
      BY <3>1 DEF Held
    <3>. QED  BY <2>0, <3>1, <3>2, HeldByOne DEF Connecting
  <2>4. CASE NewController(r) \/ PowerOff(r) \/ RemoveClient(r)
    <3>1. /\ pc[r] \in Critical
          /\ wcid'[r] = wcid[r]
          /\ pc'[r] \in {"loop", "closeInput", "clearWcid"}
          /\ pc'[r] = "closeInput" => pc[r] = "powerOff" /\ UNCHANGED connectedClients
      BY <1>0, <1>2, <2>4, Threads, GotoLabel
      DEF NewController, PowerOff, RemoveClient, Unlock, Return, flowVars, Critical
    <3>2. \A s \in Endpoint \ {r} : pc[s] \notin Critical
      BY <1>0, <3>1, Alone
    <3>3. pc[r] = "powerOff" => wcid[r] \in connectedClients
      BY <1>0 DEF Held, SlotHoldsWcid, WcidInRange, Critical
    <3>. QED  BY <1>c, <2>0, <3>1, <3>2, <3>3, HeldByOne DEF Connecting
  <2>5. CASE Disconnect(r) \/ StopRumble(r) \/ CloseInput(r)
    <3>1. /\ UNCHANGED <<connectedClients, controllers>> /\ wcid'[r] = wcid[r]
          /\ \/ pc'[r] = "loop"
             \/ pc'[r] = "stopRumble" /\ controllers[wcid[r]] # Nobody
             \/ pc[r] = "stopRumble" /\ pc'[r] = "powerOff"
             \/ pc[r] = "closeInput" /\ pc'[r] = "removeClient"
      BY <1>0, <2>5, Threads, GotoLabel
      DEF Disconnect, StopRumble, CloseInput, Return, hostVars, flowVars
    <3>2. /\ pc[r] = "stopRumble" => controllers[wcid[r]] # Nobody
          /\ pc[r] = "closeInput" => wcid[r] \in connectedClients
      BY DEF Held
    <3>. QED  BY <2>0, <3>1, <3>2, HeldByOne DEF Connecting
  <2>6. CASE Loop(r) \/ BulkTimeout(r) \/ BulkError(r) \/ Pair(r) \/ Packet(r) \/
             ClearWcid(r) \/ LedOff(r)
    <3>1. UNCHANGED <<connectedClients, controllers>>
          /\ pc'[r] \in {"loop", "exited", "bulk", "beacon", "ledOff"}
      BY <1>0, <1>2, <2>6, Threads, GotoLabel
      DEF Loop, BulkTimeout, BulkError, Pair, PairingError, Packet, ClearWcid, LedOff,
          GiveUp, Unlock, Return, hostVars
    <3>. QED  BY <2>0, <3>1, HeldByOne DEF Connecting
  <2>. QED  BY <1>2, <2>1, <2>2, <2>3, <2>4, <2>5, <2>6 DEF Acts, ReaderStep, DestructorStep
<1>3. ASSUME NEW r \in Endpoint, Acts(r), Abort
      PROVE  Held'
  <2>1. \A s \in Endpoint : pc'[s] = "exited"
    BY <1>3, Threads DEF Abort
  <2>. QED  BY <2>1 DEF Held, Connecting
<1>4. ASSUME NEW t \in Thread, PairingStep(t) PROVE Held'
  <2>1. UNCHANGED <<connectedClients, controllers, wcid, frame>>
    BY <1>4, PairingUnchanged DEF flowVars, hostVars
  <2>2. PICK label : /\ Goto(t, label)
                     /\ label \notin Connecting \cup {"connect"} \cup Leaving
    BY <1>4
    DEF PairingStep, Beacon, Calibrate, LedPair, PairingError, Return, Connecting, Leaving
  <2>. QED  BY <1>0, <1>1, <2>1, <2>2, Threads, GotoLabel
<1>5. CASE MainActs
  <2>1. /\ UNCHANGED <<connectedClients, wcid, frame>>
        /\ \A s \in Endpoint : pc'[s] = pc[s]
    BY <1>0, <1>5, MainOthers
  <2>2. CASE PowerOff(Main)
    <3>1. \A s \in Endpoint : pc[s] = "exited"
      BY <1>0, <2>2 DEF PowerOff, MutualExclusion, ShuttingDown, Destroying
    <3>. QED  BY <2>1, <3>1 DEF Held, Connecting
  <2>3. CASE ~PowerOff(Main)
    BY <1>0, <1>1, <1>5, <2>1, <2>3, MainOthers
  <2>. QED  BY <2>2, <2>3
<1>6. CASE Nudge \/ AirStep
  BY <1>1, <1>6, NudgeUnchanged, AirUnchanged DEF hostVars, flowVars
<1>7. CASE UNCHANGED vars
  BY <1>1, <1>7 DEF vars, hostVars, flowVars
<1>. QED  BY <1>2, <1>3, <1>4, <1>5, <1>6, <1>7, Steps

-----------------------------------------------------------------------------
(* What the chip was told                                                  *)

\* Only the handler that owns a slot changes what the chip knows of it.
LEMMA ToldByOne ==
  ASSUME Told, NEW r \in Endpoint, Others(r),
         \A s \in Endpoint \ {r} : pc[s] \notin Connecting,
         \A w \in Wcid : controllers'[w] # Nobody => w \in registered' /\ table'[w] = controllers'[w],
         pc'[r] \in Connecting \ {"writeWcid"} => table'[wcid'[r]] = frame'[r].from,
         pc'[r] \in {"respond", "ledOn", "newController"} => wcid'[r] \in registered'
  PROVE  Told'
BY DEF Told, Others, Connecting

LEMMA ToldKept ==
  ASSUME Told, UNCHANGED <<table, registered>>,
         \A w \in Wcid : controllers'[w] # Nobody => controllers'[w] = controllers[w],
         \A s \in Endpoint :
           \/ pc'[s] \notin Connecting
           \/ pc'[s] = pc[s] /\ wcid'[s] = wcid[s] /\ frame'[s] = frame[s]
           \/ pc'[s] = "writeWcid"
  PROVE  Told'
BY DEF Told, Connecting

LEMMA ToldStep ==
  ASSUME SlotInv, Held, Told, [Next]_vars
  PROVE  Told'
<1>0. /\ HostType /\ ThreadType /\ LocalType /\ AirType /\ ChipType /\ WcidInRange
      /\ MutualExclusion /\ WcidHeld
  BY DEF SlotInv, TypeInv, TypeOK
<1>c. Connecting \subseteq Critical
  BY DEF Connecting, Critical
<1>1. CASE /\ UNCHANGED <<table, registered, controllers, wcid, frame>>
           /\ \A s \in Endpoint : pc'[s] = pc[s] \/ pc'[s] \notin Connecting
  BY <1>1, ToldKept
<1>2. ASSUME NEW r \in Endpoint, Acts(r), ~Abort
      PROVE  Told'
  <2>0. Others(r)
    BY <1>0, <1>2, ReaderOthers
  <2>1. ASSUME UNCHANGED <<table, registered>>,
               pc'[r] \notin Connecting \/ pc'[r] = "writeWcid",
               \A w \in Wcid : controllers'[w] # Nobody => controllers'[w] = controllers[w]
        PROVE  Told'
    BY <2>0, <2>1, ToldKept DEF Others
  <2>2. ASSUME pc[r] \in Critical
        PROVE  /\ wcid[r] \in Wcid
               /\ \A s \in Endpoint \ {r} : pc[s] \notin Connecting
    BY <1>0, <1>c, <2>2, Alone DEF WcidInRange
  <2>3. CASE BulkData(r)
    <3>1. pc'[r] = Handler(Head(inbox[r])) /\ UNCHANGED <<table, registered, controllers>>
      BY <1>0, <2>3, Threads, GotoLabel DEF BulkData, hostVars, chipVars
    <3>2. Handler(Head(inbox[r])) \notin Connecting
      BY <1>0, <2>3, Delivered DEF Handler, Connecting, Frame, Kind
    <3>. QED  BY <2>1, <3>1, <3>2
  <2>4. CASE WriteWcid(r)
    <3>1. /\ pc[r] = "writeWcid" /\ wcid'[r] = wcid[r] /\ frame'[r] = frame[r]
          /\ UNCHANGED <<controllers, registered>>
          /\ \/ UNCHANGED table /\ pc'[r] = "loop"
             \/ pc'[r] = "addClient" /\ table' = [table EXCEPT ![wcid[r]] = frame[r].from]
      BY <1>0, <2>4, Threads, GotoLabel
      DEF WriteWcid, GiveUp, Unlock, Return, hostVars, chipVars, flowVars
    <3>2. /\ wcid[r] \in Wcid /\ controllers[wcid[r]] = Nobody
          /\ \A s \in Endpoint \ {r} : pc[s] \notin Connecting
      BY <2>2, <3>1 DEF Critical, Held, Connecting
    <3>3. \A w \in Wcid : w # wcid[r] => table'[w] = table[w]
      BY <1>0, <3>1 DEF ChipType
    <3>4. pc'[r] = "addClient" => table'[wcid[r]] = frame[r].from
      BY <1>0, <3>1, <3>2 DEF ChipType
    <3>5. \A w \in Wcid :
            controllers'[w] # Nobody => w \in registered' /\ table'[w] = controllers'[w]
      BY <3>1, <3>2, <3>3 DEF Told
    <3>. QED  BY <2>0, <3>1, <3>2, <3>4, <3>5, ToldByOne DEF Connecting
  <2>5. CASE AddClient(r) \/ Respond(r) \/ LedOn(r)
    <3>1. /\ wcid'[r] = wcid[r] /\ frame'[r] = frame[r]
          /\ pc[r] \in {"addClient", "respond", "ledOn"}
          /\ UNCHANGED <<controllers, table>>
          /\ registered \subseteq registered'
          /\ \/ pc'[r] = "loop"
             \/ pc[r] = "addClient" /\ pc'[r] = "respond" /\ wcid[r] \in registered'
             \/ pc[r] # "addClient" /\ pc'[r] \in {"ledOn", "newController"}
      BY <1>0, <2>5, Threads, GotoLabel
      DEF AddClient, Respond, LedOn, GiveUp, Unlock, Return, hostVars, chipVars, flowVars
    <3>2. \A s \in Endpoint \ {r} : pc[s] \notin Connecting
      BY <2>2, <3>1 DEF Critical
    <3>3. /\ table[wcid[r]] = frame[r].from
          /\ pc[r] # "addClient" => wcid[r] \in registered
      BY <3>1 DEF Told, Connecting
    <3>4. \A w \in Wcid :
            controllers'[w] # Nobody => w \in registered' /\ table'[w] = controllers'[w]
      BY <3>1 DEF Told
    <3>. QED  BY <2>0, <3>1, <3>2, <3>3, <3>4, ToldByOne DEF Connecting
  <2>6. CASE NewController(r)
    <3>1. /\ pc[r] = "newController" /\ pc'[r] = "loop"
          /\ controllers' = [controllers EXCEPT ![wcid[r]] = frame[r].from]
          /\ UNCHANGED <<table, registered>>
      BY <1>0, <1>2, <2>6, Threads, GotoLabel DEF NewController, Unlock, Return, chipVars
    <3>2. /\ wcid[r] \in Wcid /\ \A s \in Endpoint \ {r} : pc[s] \notin Connecting
          /\ table[wcid[r]] = frame[r].from /\ wcid[r] \in registered
      BY <2>2, <3>1 DEF Critical, Told, Connecting
    <3>3. \A w \in Wcid :
            controllers'[w] # Nobody => w \in registered' /\ table'[w] = controllers'[w]
      BY <1>0, <3>1, <3>2 DEF Told, HostType
    <3>. QED  BY <2>0, <3>1, <3>2, <3>3, ToldByOne DEF Connecting
  <2>7. CASE RemoveClient(r) \/ ClearWcid(r)
    <3>1. /\ pc[r] \in {"removeClient", "clearWcid"}
          /\ pc'[r] \in {"loop", "clearWcid", "ledOff"}
          /\ UNCHANGED controllers
          /\ registered \ {wcid[r]} \subseteq registered'
          /\ table' = table \/ table' = [table EXCEPT ![wcid[r]] = Nobody]
      BY <1>0, <2>7, Threads, GotoLabel
      DEF RemoveClient, ClearWcid, GiveUp, Unlock, Return, hostVars, chipVars
    <3>2. /\ wcid[r] \in Wcid /\ controllers[wcid[r]] = Nobody
          /\ \A s \in Endpoint \ {r} : pc[s] \notin Connecting
      BY <1>0, <2>2, <3>1 DEF Critical, WcidHeld
    <3>3. \A w \in Wcid : w # wcid[r] => table'[w] = table[w]
      BY <1>0, <3>1 DEF ChipType
    <3>4. \A w \in Wcid :
            controllers'[w] # Nobody => w \in registered' /\ table'[w] = controllers'[w]
      BY <3>1, <3>2, <3>3 DEF Told
    <3>. QED  BY <2>0, <3>1, <3>2, <3>4, ToldByOne DEF Connecting
  <2>8. CASE PowerOff(r)
    <3>1. /\ UNCHANGED <<table, registered>> /\ pc'[r] = "closeInput"
          /\ controllers' = [controllers EXCEPT ![wcid[r]] = Nobody]
      BY <1>0, <2>8, Threads, GotoLabel, SlotOf DEF PowerOff, DestroyController, chipVars
    <3>. QED  BY <1>0, <2>1, <3>1 DEF HostType, Connecting
  <2>9. CASE Loop(r) \/ BulkTimeout(r) \/ BulkError(r) \/ Pair(r) \/ Packet(r) \/ Connect(r) \/
             Disconnect(r) \/ LedOff(r) \/ StopRumble(r) \/ CloseInput(r)
    <3>1. /\ UNCHANGED <<table, registered, controllers>>
          /\ pc'[r] \notin Connecting \ {"writeWcid"}
      BY <1>0, <1>2, <2>9, Threads, GotoLabel
      DEF Loop, BulkTimeout, BulkError, Pair, PairingError, Packet, Connect, Disconnect, LedOff,
          StopRumble, CloseInput, GiveUp, Unlock, Return, Connecting, hostVars, chipVars
    <3>. QED  BY <2>1, <3>1
  <2>. QED  BY <1>2, <2>3, <2>4, <2>5, <2>6, <2>7, <2>8, <2>9
            DEF Acts, ReaderStep, DestructorStep
<1>3. ASSUME NEW r \in Endpoint, Acts(r), Abort
      PROVE  Told'
  <2>1. \A s \in Endpoint : pc'[s] = "exited"
    BY <1>3, Threads DEF Abort
  <2>2. UNCHANGED <<controllers, table, registered>>
    <3>1. ~ShuttingDown
      BY <1>0, <1>3, ReaderUp
    <3>2. pc'[Main] # pc[Main]
      BY <1>3, <3>1, Threads DEF Abort, ShuttingDown
    <3>. QED  BY <1>0, <1>3, <3>2, ReaderOthers DEF Others, chipVars
  <2>. QED  BY <2>1, <2>2 DEF Told, Connecting
<1>4. ASSUME NEW t \in Thread, PairingStep(t) PROVE Told'
  <2>1. UNCHANGED <<table, registered, controllers, wcid, frame>>
    BY <1>4, PairingUnchanged DEF flowVars, hostVars
  <2>2. PICK label : Goto(t, label) /\ label \notin Connecting
    BY <1>4 DEF PairingStep, Beacon, Calibrate, LedPair, PairingError, Return, Connecting
  <2>. QED  BY <1>0, <1>1, <2>1, <2>2, Threads, GotoLabel
<1>5. CASE MainActs
  <2>1. /\ UNCHANGED <<table, registered, wcid, frame>>
        /\ \A s \in Endpoint : pc'[s] = pc[s]
    BY <1>0, <1>5, MainOthers
  <2>2. \A w \in Wcid : controllers'[w] # Nobody => controllers'[w] = controllers[w]
    BY <1>0, <1>5, MainOthers DEF PowerOff, DestroyController, HostType
  <2>. QED  BY <2>1, <2>2, ToldKept
<1>6. CASE Nudge \/ AirStep \/ UNCHANGED vars
  BY <1>1, <1>6, NudgeUnchanged, AirUnchanged DEF vars, hostVars, chipVars, flowVars
<1>. QED  BY <1>2, <1>3, <1>4, <1>5, <1>6, Steps

-----------------------------------------------------------------------------
(* The end                                                                 *)

LEMMA ReaderKeeps ==
  ASSUME NEW r \in Endpoint, Acts(r)
  PROVE  UNCHANGED <<slot, radio>> /\ (Abort \/ UNCHANGED aborted)
BY DEF Acts, ReaderStep, Loop, BulkData, BulkTimeout, BulkError, Connect, WriteWcid,
       AddClient, Respond, LedOn, NewController, Disconnect, RemoveClient, ClearWcid, LedOff,
       Packet, Pair, PairingError, GiveUp, DestructorStep, StopRumble, PowerOff, CloseInput,
       chipVars, flowVars

\* What fails is not forgotten: `interrupted` is never reset.
LEMMA InterruptedStays ==
  ASSUME [Next]_vars
  PROVE  interrupted' \in {interrupted, TRUE}
<1>1. ASSUME NEW r \in Endpoint, ReaderStep(r) \/ BulkError(r)
      PROVE  interrupted' \in {interrupted, TRUE}
  BY <1>1
  DEF ReaderStep, Loop, BulkData, BulkTimeout, BulkError, Connect, WriteWcid, AddClient,
      Respond, LedOn, NewController, Disconnect, RemoveClient, ClearWcid, LedOff, Packet,
      Pair, PairingError, GiveUp, UsbError
<1>2. ASSUME NEW t \in Thread, PairingStep(t) \/ DestructorStep(t)
      PROVE  interrupted' \in {interrupted, TRUE}
  BY <1>2 DEF PairingStep, Beacon, Calibrate, LedPair, PairingError, DestructorStep,
              StopRumble, PowerOff, CloseInput, DestroyController, UsbError
<1>3. CASE MainStep \/ PollFails
  BY <1>3 DEF MainStep, PollFails, Poll, Stop, Join, Destroy, Darken, RadioOff, Close, UsbError
<1>4. CASE Nudge
  BY <1>4 DEF Nudge, Wakes, RumbleFails, UsbError
<1>5. CASE AirStep
  BY <1>5, AirUnchanged
<1>. QED  BY <1>1, <1>2, <1>3, <1>4, <1>5 DEF Next, Nudge, vars

LEMMA EndingKept ==
  ASSUME Ending, UNCHANGED <<slot, aborted, radio, controllers>>, ~ShuttingDown,
         ~ShuttingDown'
  PROVE  Ending'
BY DEF Ending, ShuttingDown, Destroying

LEMMA EndingStep ==
  ASSUME SlotInv, Ending, [Next]_vars
  PROVE  Ending'
<1>0. /\ HostType /\ ThreadType /\ LocalType /\ MutualExclusion
      /\ WcidCount \in Nat /\ slot \in 0 .. WcidCount
  BY DongleAssumption DEF SlotInv, TypeInv, TypeOK, LocalType
<1>1. CASE UNCHANGED <<slot, aborted, radio, controllers>> /\ pc'[Main] = pc[Main]
  BY <1>1 DEF Ending, ShuttingDown, Destroying
<1>2. ASSUME NEW r \in Endpoint, Acts(r)
      PROVE  Ending'
  <2>1. ~ShuttingDown /\ UNCHANGED <<slot, radio>>
    BY <1>0, <1>2, ReaderUp, ReaderKeeps
  <2>2. radio = "on"
    BY <2>1 DEF Ending, ShuttingDown, Destroying
  <2>3. CASE Abort
    <3>1. pc'[Main] = "exited" /\ aborted' = TRUE
      BY <2>3, Threads DEF Abort
    <3>. QED  BY <2>1, <2>2, <3>1 DEF Ending, ShuttingDown, Destroying
  <2>4. CASE ~Abort
    <3>1. Others(r) /\ UNCHANGED aborted
      BY <1>0, <1>2, <2>4, ReaderOthers, ReaderKeeps
    <3>2. pc'[Main] = pc[Main]
      BY <3>1 DEF Others
    <3>. QED  BY <2>1, <2>2, <3>1, <3>2 DEF Ending, ShuttingDown, Destroying
  <2>. QED  BY <2>3, <2>4
<1>3. ASSUME NEW t \in Thread, PairingStep(t) PROVE Ending'
  <2>1. UNCHANGED <<slot, aborted, radio, controllers>>
    BY <1>3, PairingUnchanged DEF flowVars, hostVars
  <2>2. PICK label : /\ Goto(t, label)
                     /\ t = Main => label \in {"poll", "calibrate", "ledPair"}
    BY <1>3 DEF PairingStep, Beacon, Calibrate, LedPair, PairingError, Return
  <2>3. CASE t = Main
    <3>1. /\ pc[Main] \in {"beacon", "calibrate", "ledPair"}
          /\ pc'[Main] \in {"poll", "calibrate", "ledPair"}
      BY <1>0, <1>3, <2>2, <2>3, GotoLabel
      DEF PairingStep, Beacon, Calibrate, LedPair
    <3>. QED  BY <2>1, <3>1, EndingKept DEF ShuttingDown, Destroying
  <2>4. CASE t # Main
    BY <1>0, <1>1, <2>1, <2>2, <2>4, Threads, GotoLabel
  <2>. QED  BY <2>3, <2>4
<1>4. CASE MainActs
  <2>1. UNCHANGED aborted
    BY <1>0, <1>4, MainOthers
  <2>2. CASE Poll \/ PollFails \/ Stop
    <3>1. /\ UNCHANGED <<slot, radio, controllers>>
          /\ pc[Main] \in {"poll", "stop"} /\ pc'[Main] \in {"beacon", "stop", "join"}
      BY <1>0, <2>2, GotoLabel, Threads DEF Poll, PollFails, Stop, hostVars, chipVars, flowVars
    <3>. QED  BY <2>1, <3>1, EndingKept DEF ShuttingDown, Destroying
  <2>3. CASE Join
    <3>1. /\ UNCHANGED <<slot, radio, controllers>>
          /\ pc[Main] = "join" /\ pc'[Main] = "destroy"
      BY <1>0, <2>3, GotoLabel, Threads DEF Join, hostVars, chipVars, flowVars
    <3>2. slot = WcidCount /\ radio = "on" /\ ~aborted
      BY <3>1 DEF Ending, ShuttingDown, Destroying
    <3>3. \A w \in Wcid : ~ (w > WcidCount)
      BY <1>0 DEF Wcid
    <3>. QED  BY <2>1, <3>1, <3>2, <3>3 DEF Ending, ShuttingDown, Destroying
  <2>4. CASE Destroy
    <3>1. /\ pc[Main] = "destroy" /\ slot > 0 /\ UNCHANGED <<radio, controllers>>
          /\ \/ controllers[slot] = Nobody /\ slot' = slot - 1 /\ pc'[Main] = "destroy"
             \/ controllers[slot] # Nobody /\ slot' = slot /\ pc'[Main] = "stopRumble"
      BY <1>0, <2>4, GotoLabel, Threads DEF Destroy, hostVars, chipVars
    <3>2. \A w \in Wcid : w > slot - 1 => w = slot \/ w > slot
      BY <1>0 DEF Wcid
    <3>3. radio = "on" /\ ~aborted
      BY <3>1 DEF Ending
    <3>. QED  BY <2>1, <3>1, <3>2, <3>3 DEF Ending, ShuttingDown, Destroying
  <2>5. CASE Darken
    <3>1. /\ UNCHANGED <<slot, radio, controllers>> /\ slot = 0
          /\ pc[Main] = "destroy" /\ pc'[Main] = "radioOff"
      BY <1>0, <2>5, GotoLabel, Threads DEF Darken, hostVars, flowVars
    <3>2. \A w \in Wcid : w > slot
      BY <1>0, <3>1 DEF Wcid
    <3>. QED  BY <2>1, <3>1, <3>2 DEF Ending, ShuttingDown, Destroying
  <2>6. CASE RadioOff \/ Close
    <3>1. /\ UNCHANGED <<slot, controllers>>
          /\ pc[Main] \in {"radioOff", "close"} /\ pc'[Main] \in {"close", "exited"}
      BY <1>0, <2>6, GotoLabel, Threads DEF RadioOff, Close, hostVars, flowVars
    <3>. QED  BY <2>1, <3>1 DEF Ending, ShuttingDown, Destroying
  <2>7. CASE StopRumble(Main) \/ CloseInput(Main)
    <3>1. /\ UNCHANGED <<slot, radio, controllers>>
          /\ \/ pc[Main] = "stopRumble" /\ pc'[Main] = "powerOff"
             \/ pc[Main] = "closeInput" /\ pc'[Main] = "destroy"
      BY <1>0, <2>7, GotoLabel, Threads
      DEF StopRumble, CloseInput, hostVars, chipVars, flowVars
    <3>. QED  BY <2>1, <3>1 DEF Ending, ShuttingDown, Destroying
  <2>8. CASE PowerOff(Main)
    <3>1. /\ UNCHANGED <<slot, radio>>
          /\ controllers' = [controllers EXCEPT ![slot] = Nobody]
          /\ pc[Main] = "powerOff" /\ pc'[Main] = "closeInput"
      BY <1>0, <2>8, GotoLabel, Threads, SlotOf
      DEF PowerOff, DestroyController, chipVars, flowVars
    <3>2. \A w \in Wcid : controllers[w] = Nobody => controllers'[w] = Nobody
      BY <1>0, <3>1 DEF HostType
    <3>. QED  BY <2>1, <3>1, <3>2 DEF Ending, ShuttingDown, Destroying
  <2>. QED  BY <1>4, <2>2, <2>3, <2>4, <2>5, <2>6, <2>7, <2>8
            DEF MainActs, MainStep, DestructorStep
<1>5. CASE Nudge \/ AirStep
  BY <1>1, <1>5, AirUnchanged, NudgeUnchanged DEF hostVars, flowVars, chipVars
<1>6. CASE UNCHANGED vars
  BY <1>1, <1>6 DEF vars, hostVars, flowVars, chipVars
<1>. QED  BY <1>2, <1>3, <1>4, <1>5, <1>6, Steps

-----------------------------------------------------------------------------
(* The four views                                                          *)

\* A failure is not forgotten, nor does the dongle come up again.
LEMMA FailedStays ==
  ASSUME SlotInv, [Next]_vars, ~Failed'
  PROVE  ~Failed /\ ~interrupted' /\ ~ShuttingDown'
<1>0. ThreadType /\ MutualExclusion /\ interrupted \in BOOLEAN
  BY DEF SlotInv, TypeInv, TypeOK, LocalType
<1>1. ~interrupted' /\ ~ShuttingDown' /\ ~interrupted
  BY <1>0, InterruptedStays DEF Failed
<1>2. CASE pc'[Main] = pc[Main]
  BY <1>1, <1>2 DEF Failed, ShuttingDown
<1>3. ASSUME NEW r \in Endpoint, Acts(r)
      PROVE  ~ShuttingDown
  BY <1>0, <1>3, ReaderUp
<1>4. ASSUME NEW t \in Thread, PairingStep(t)
      PROVE  ~ShuttingDown
  <2>2. pc[t] \in {"beacon", "calibrate", "ledPair"} /\ \E label : Goto(t, label)
    BY <1>4 DEF PairingStep, Beacon, Calibrate, LedPair, PairingError, Return
  <2>3. pc'[Main] = pc[Main] \/ pc[Main] \in {"beacon", "calibrate", "ledPair"}
    BY <1>0, <2>2, Threads, GotoLabel
  <2>. QED  BY <1>1, <2>3 DEF ShuttingDown, Destroying
<1>5. CASE MainActs
  <2>1. pc[Main] \in {"poll", "stop", "join"} \/ ShuttingDown'
    BY <1>0, <1>5, Threads, GotoLabel
    DEF MainActs, MainStep, PollFails, Poll, Stop, Join, Destroy, Darken, RadioOff, Close,
        DestructorStep, StopRumble, PowerOff, CloseInput, ShuttingDown, Destroying
  <2>. QED  BY <1>1, <2>1 DEF ShuttingDown, Destroying, Failed
<1>6. CASE Nudge \/ AirStep
  BY <1>2, <1>6, AirUnchanged, NudgeUnchanged
<1>7. CASE UNCHANGED vars
  BY <1>2, <1>7 DEF vars
<1>. QED  BY <1>1, <1>2, <1>3, <1>4, <1>5, <1>6, <1>7, Steps DEF Failed

LEMMA AbortFails ==
  ASSUME Abort
  PROVE  Failed'
BY Threads DEF Abort, Failed, ShuttingDown

LEMMA ViewsKept ==
  ASSUME Views, UNCHANGED <<connectedClients, controllers, table, registered>>,
         \A s \in Endpoint :
           \/ pc'[s] \notin Critical /\ pc[s] \notin Critical
           \/ pc'[s] = pc[s] /\ wcid'[s] = wcid[s] /\ frame'[s] = frame[s]
  PROVE  Views'
<1>1. \A w \in Wcid : Agree(w) => Agree(w)'
  BY DEF Agree
<1>2. ASSUME NEW s \in Endpoint, pc'[s] \notin Critical PROVE AtWork(s)'
  BY <1>2 DEF AtWork, Critical, Connecting
<1>3. ASSUME NEW s \in Endpoint, pc'[s] = pc[s], wcid'[s] = wcid[s], frame'[s] = frame[s]
      PROVE  AtWork(s)'
  BY <1>3 DEF Views, AtWork, Agree
<1>. QED  BY <1>1, <1>2, <1>3 DEF Views

\* All the other slots agree while a handler works on one.
LEMMA AgreeOthers ==
  ASSUME Views, MutualExclusion, NEW r \in Endpoint, pc[r] \in Critical
  PROVE  \A v \in Wcid \ {wcid[r]} : Agree(v)
BY Alone DEF Views

LEMMA AgreeAll ==
  ASSUME Views, MutualExclusion, controllerMutex = Nobody
  PROVE  \A v \in Wcid : Agree(v)
BY Threads DEF Views, MutualExclusion

\* A step of a handler that is alone, on slot w.
LEMMA ViewsByOne ==
  ASSUME NEW r \in Endpoint, Others(r), \A s \in Endpoint \ {r} : pc[s] \notin Critical,
         NEW w \in Wcid, \A v \in Wcid \ {w} : Agree(v),
         \A v \in Wcid \ {w} :
           /\ table'[v] = table[v] /\ controllers'[v] = controllers[v]
           /\ v \in registered' <=> v \in registered
           /\ v \in connectedClients' <=> v \in connectedClients,
         Agree(w)' \/ (pc'[r] \in Critical /\ wcid'[r] = w),
         AtWork(r)'
  PROVE  Views'
<1>1. \A v \in Wcid \ {w} : Agree(v)'
  BY DEF Agree
<1>2. \A s \in Endpoint \ {r} : pc'[s] \notin Critical
  BY DEF Others
<1>3. ASSUME NEW s \in Endpoint, pc'[s] \notin Critical PROVE AtWork(s)'
  BY <1>3 DEF AtWork, Critical, Connecting
<1>. QED  BY <1>1, <1>2, <1>3 DEF Views

LEMMA ViewsReader ==
  ASSUME SlotInv, Held, Views, NEW r \in Endpoint, Acts(r), ~Failed'
  PROVE  Views'
<1>0. /\ HostType /\ ThreadType /\ LocalType /\ AirType /\ ChipType /\ WcidInRange
      /\ MutualExclusion /\ SlotHoldsWcid /\ WcidHeld
      /\ Nobody \notin Client
  BY Threads DEF SlotInv, TypeInv, TypeOK
<1>1. Others(r) /\ ~interrupted'
  BY <1>0, ReaderOthers, AbortFails DEF Failed
<1>2. ASSUME pc[r] \notin Critical, pc'[r] \notin Critical,
             UNCHANGED <<connectedClients, controllers, table, registered>>
      PROVE  Views'
  BY <1>1, <1>2, ViewsKept DEF Others
<1>3. CASE BulkData(r)
  <2>1. Handler(Head(inbox[r])) \notin Critical
    BY <1>0, <1>3, Delivered DEF Handler, Critical, Frame, Kind
  <2>2. pc[r] = "bulk" /\ pc'[r] = Handler(Head(inbox[r]))
        /\ UNCHANGED <<connectedClients, controllers, table, registered>>
    BY <1>0, <1>3, Threads, GotoLabel DEF BulkData, hostVars, chipVars
  <2>. QED  BY <1>2, <2>1, <2>2 DEF Critical
<1>4. CASE Connect(r)
  <2>0. controllerMutex = Nobody /\ pc[r] = "connect"
    BY <1>4 DEF Connect
  <2>1. CASE FreeWcids = {}
    <3>1. pc'[r] = "loop" /\ UNCHANGED <<connectedClients, controllers, table, registered>>
      BY <1>0, <1>4, <2>1, Threads, GotoLabel DEF Connect, Return, chipVars
    <3>. QED  BY <1>2, <2>0, <3>1 DEF Critical
  <2>2. CASE FreeWcids # {}
    <3>1. /\ pc'[r] = "writeWcid" /\ wcid'[r] = FirstFree
          /\ connectedClients' = connectedClients \cup {FirstFree}
          /\ UNCHANGED <<controllers, table, registered>>
      BY <1>0, <1>4, <2>2, Threads, GotoLabel DEF Connect, LocalType, chipVars
    <3>2. FirstFree \in Wcid /\ FirstFree \notin connectedClients
      BY <2>2, FirstFreeIsFree DEF FreeWcids
    <3>3. Agree(FirstFree)
      BY <1>0, <2>0, <3>2, AgreeAll
    <3>4. AtWork(r)'
      BY <3>1, <3>2, <3>3 DEF AtWork, Agree, Connecting
    <3>5. \A v \in Wcid : Agree(v)
      BY <1>0, <2>0, AgreeAll
    <3>. QED  BY <1>0, <1>1, <2>0, <3>1, <3>2, <3>4, <3>5, Alone, ViewsByOne DEF Critical
  <2>. QED  BY <2>1, <2>2
<1>5. CASE Disconnect(r)
  <2>0. /\ controllerMutex = Nobody /\ pc[r] = "disconnect"
        /\ pc'[r] \in {"loop", "stopRumble"} /\ wcid'[r] = wcid[r]
        /\ UNCHANGED <<connectedClients, controllers, table, registered>>
    BY <1>0, <1>5, Threads, GotoLabel DEF Disconnect, Return, hostVars, chipVars, flowVars
  <2>1. wcid[r] \in Wcid /\ \A v \in Wcid : Agree(v)
    BY <1>0, <2>0, AgreeAll DEF WcidInRange
  <2>2. Agree(wcid[r])' /\ AtWork(r)'
    BY <2>0, <2>1 DEF Agree, AtWork, Connecting
  <2>. QED  BY <1>0, <1>1, <2>0, <2>1, <2>2, Alone, ViewsByOne
<1>6. ASSUME pc[r] \in Critical, wcid'[r] = wcid[r],
             \A v \in Wcid \ {wcid[r]} :
               /\ table'[v] = table[v] /\ controllers'[v] = controllers[v]
               /\ v \in registered' <=> v \in registered
               /\ v \in connectedClients' <=> v \in connectedClients,
             Agree(wcid[r])' \/ pc'[r] \in Critical,
             AtWork(r)'
      PROVE  Views'
  <2>1. wcid[r] \in Wcid
    BY <1>0, <1>6 DEF WcidInRange
  <2>. QED  BY <1>0, <1>1, <1>6, <2>1, Alone, AgreeOthers, ViewsByOne
<1>7. ASSUME pc[r] \in Critical PROVE wcid[r] \in Wcid /\ AtWork(r)
  BY <1>0, <1>7 DEF WcidInRange, Views
<1>8. CASE WriteWcid(r)
  <2>1. /\ pc[r] = "writeWcid" /\ pc'[r] = "addClient"
        /\ wcid'[r] = wcid[r] /\ frame'[r] = frame[r]
        /\ table' = [table EXCEPT ![wcid[r]] = frame[r].from]
        /\ UNCHANGED <<connectedClients, controllers, registered>>
    BY <1>0, <1>1, <1>8, Threads, GotoLabel
    DEF WriteWcid, GiveUp, UsbError, hostVars, flowVars
  <2>2. wcid[r] \in Wcid /\ AtWork(r)
    BY <1>7, <2>1 DEF Critical
  <2>3. AtWork(r)'
    BY <1>0, <2>1, <2>2 DEF AtWork, Connecting, ChipType
  <2>4. \A v \in Wcid \ {wcid[r]} : table'[v] = table[v]
    BY <1>0, <2>1 DEF ChipType
  <2>. QED  BY <1>6, <2>1, <2>3, <2>4 DEF Critical
<1>9. CASE AddClient(r)
  <2>1. /\ pc[r] = "addClient" /\ pc'[r] = "respond"
        /\ wcid'[r] = wcid[r] /\ frame'[r] = frame[r]
        /\ registered' = registered \cup {wcid[r]}
        /\ UNCHANGED <<connectedClients, controllers, table>>
    BY <1>0, <1>1, <1>9, Threads, GotoLabel
    DEF AddClient, GiveUp, UsbError, hostVars, flowVars
  <2>2. AtWork(r)
    BY <1>7, <2>1 DEF Critical
  <2>3. AtWork(r)'
    BY <2>1, <2>2 DEF AtWork, Connecting
  <2>. QED  BY <1>6, <2>1, <2>3 DEF Critical
<1>10. CASE Respond(r) \/ LedOn(r)
  <2>1. /\ pc[r] \in {"respond", "ledOn"} /\ pc'[r] \in {"ledOn", "newController"}
        /\ wcid'[r] = wcid[r] /\ frame'[r] = frame[r]
        /\ UNCHANGED <<connectedClients, controllers, table, registered>>
    BY <1>0, <1>1, <1>10, Threads, GotoLabel
    DEF Respond, LedOn, GiveUp, UsbError, hostVars, flowVars, chipVars
  <2>2. AtWork(r)
    BY <1>7, <2>1 DEF Critical
  <2>3. AtWork(r)'
    BY <2>1, <2>2 DEF AtWork, Connecting
  <2>. QED  BY <1>6, <2>1, <2>3 DEF Critical
<1>11. CASE NewController(r)
  <2>1. /\ pc[r] = "newController" /\ pc'[r] = "loop"
        /\ wcid'[r] = wcid[r]
        /\ controllers' = [controllers EXCEPT ![wcid[r]] = frame[r].from]
        /\ UNCHANGED <<connectedClients, table, registered>>
    BY <1>0, <1>11, Threads, GotoLabel, AbortFails
    DEF NewController, Unlock, Return, chipVars
  <2>2. wcid[r] \in Wcid /\ AtWork(r) /\ frame[r].from \in Client
    BY <1>7, <2>1 DEF Critical, Held, Connecting
  <2>3. Agree(wcid[r])'
    BY <1>0, <2>1, <2>2 DEF AtWork, Connecting, Agree, HostType
  <2>4. AtWork(r)'
    BY <2>1 DEF AtWork, Connecting
  <2>5. \A v \in Wcid \ {wcid[r]} : controllers'[v] = controllers[v]
    BY <1>0, <2>1 DEF HostType
  <2>. QED  BY <1>6, <2>1, <2>3, <2>4, <2>5 DEF Critical
<1>12. CASE PowerOff(r)
  <2>1. /\ pc[r] = "powerOff" /\ pc'[r] = "closeInput"
        /\ wcid'[r] = wcid[r]
        /\ controllers' = [controllers EXCEPT ![wcid[r]] = Nobody]
        /\ UNCHANGED <<connectedClients, table, registered>>
    BY <1>0, <1>12, Threads, GotoLabel, SlotOf
    DEF PowerOff, DestroyController, chipVars, flowVars
  <2>2. wcid[r] \in Wcid /\ AtWork(r) /\ controllers[wcid[r]] # Nobody
    BY <1>7, <2>1 DEF Critical, Held
  <2>3. AtWork(r)'
    BY <1>0, <2>1, <2>2 DEF AtWork, Connecting, Agree, HostType
  <2>4. \A v \in Wcid \ {wcid[r]} : controllers'[v] = controllers[v]
    BY <1>0, <2>1 DEF HostType
  <2>. QED  BY <1>6, <2>1, <2>3, <2>4 DEF Critical
<1>13. CASE RemoveClient(r)
  <2>1. /\ pc[r] = "removeClient" /\ pc'[r] = "clearWcid"
        /\ wcid'[r] = wcid[r]
        /\ connectedClients' = connectedClients \ {wcid[r]}
        /\ registered' = registered \ {wcid[r]}
        /\ UNCHANGED <<controllers, table>>
    BY <1>0, <1>1, <1>13, Threads, GotoLabel
    DEF RemoveClient, WithoutWcid, UsbError, flowVars
  <2>2. AtWork(r)
    BY <1>7, <2>1 DEF Critical
  <2>3. AtWork(r)'
    BY <2>1, <2>2 DEF AtWork, Connecting
  <2>. QED  BY <1>6, <2>1, <2>3 DEF Critical
<1>14. CASE ClearWcid(r)
  <2>1. /\ pc[r] = "clearWcid" /\ pc'[r] \in {"ledOff", "loop"}
        /\ wcid'[r] = wcid[r]
        /\ table' = [table EXCEPT ![wcid[r]] = Nobody]
        /\ UNCHANGED <<connectedClients, controllers, registered>>
    BY <1>0, <1>1, <1>14, Threads, GotoLabel
    DEF ClearWcid, GiveUp, Unlock, Return, UsbError, hostVars, flowVars
  <2>2. wcid[r] \in Wcid /\ AtWork(r)
    BY <1>7, <2>1 DEF Critical
  <2>3. Agree(wcid[r])'
    BY <1>0, <2>1, <2>2 DEF AtWork, Agree, ChipType
  <2>4. AtWork(r)'
    BY <2>1, <2>3 DEF AtWork, Connecting, Agree
  <2>5. \A v \in Wcid \ {wcid[r]} : table'[v] = table[v]
    BY <1>0, <2>1 DEF ChipType
  <2>. QED  BY <1>6, <2>1, <2>3, <2>4, <2>5 DEF Critical
<1>15. CASE LedOff(r)
  <2>1. /\ pc[r] = "ledOff" /\ pc'[r] = "loop"
        /\ wcid'[r] = wcid[r]
        /\ UNCHANGED <<connectedClients, controllers, table, registered>>
    BY <1>0, <1>1, <1>15, Threads, GotoLabel
    DEF LedOff, GiveUp, Unlock, Return, UsbError, hostVars, flowVars
  <2>2. AtWork(r)
    BY <1>7, <2>1 DEF Critical
  <2>3. Agree(wcid[r])' /\ AtWork(r)'
    BY <2>1, <2>2 DEF AtWork, Connecting, Agree
  <2>. QED  BY <1>6, <2>1, <2>3 DEF Critical
<1>16. CASE Loop(r) \/ BulkTimeout(r) \/ BulkError(r) \/ Pair(r) \/ Packet(r)
  <2>1. /\ pc[r] \in {"loop", "bulk", "pair", "packet"}
        /\ pc'[r] \in {"loop", "exited", "bulk", "beacon"}
        /\ UNCHANGED <<connectedClients, controllers, table, registered>>
    BY <1>0, <1>1, <1>16, Threads, GotoLabel, AbortFails
    DEF Loop, BulkTimeout, BulkError, Pair, PairingError, Packet, Return, hostVars, chipVars
  <2>. QED  BY <1>2, <2>1 DEF Critical
<1>17. CASE StopRumble(r) \/ CloseInput(r)
  <2>1. /\ UNCHANGED <<connectedClients, controllers, table, registered>>
        /\ wcid'[r] = wcid[r]
        /\ \/ pc[r] = "stopRumble" /\ pc'[r] = "powerOff"
           \/ pc[r] = "closeInput" /\ pc'[r] = "removeClient"
    BY <1>0, <1>17, Threads, GotoLabel
    DEF StopRumble, CloseInput, hostVars, chipVars, flowVars
  <2>2. AtWork(r)
    BY <1>7, <2>1 DEF Critical
  <2>3. AtWork(r)'
    BY <2>1, <2>2 DEF AtWork, Connecting, Agree
  <2>. QED  BY <1>6, <2>1, <2>3 DEF Critical
<1>. QED  BY <1>3, <1>4, <1>5, <1>8, <1>9, <1>10, <1>11, <1>12, <1>13, <1>14, <1>15, <1>16,
             <1>17
          DEF Acts, ReaderStep, DestructorStep

\* A step of reader r, as far as the LED is concerned.
LEMMA LitByOne ==
  ASSUME Lit, NEW r \in Endpoint, Others(r),
         led' = "off" => led = "off" \/ connectedClients' = {},
         \A w \in connectedClients' :
           w \in connectedClients \/ (pc'[r] \in Lighting /\ wcid'[r] = w),
         pc[r] \in Lighting => led' # "off" \/ (pc'[r] \in Lighting /\ wcid'[r] = wcid[r]),
         pc'[r] = "ledOff" => connectedClients' = {},
         \A s \in Endpoint \ {r} : pc[s] = "ledOff" => connectedClients' \subseteq connectedClients
  PROVE  Lit'
<1>1. ASSUME led' = "off", NEW w \in connectedClients'
      PROVE  \E s \in Endpoint : pc'[s] \in Lighting /\ wcid'[s] = w
  <2>1. CASE w \in connectedClients
    <3>1. PICK s \in Endpoint : pc[s] \in Lighting /\ wcid[s] = w
      BY <1>1, <2>1 DEF Lit
    <3>. QED  BY <1>1, <3>1 DEF Others
  <2>. QED  BY <2>1
<1>2. ASSUME NEW s \in Endpoint, pc'[s] = "ledOff" PROVE connectedClients' = {}
  BY <1>2 DEF Lit, Others
<1>. QED  BY <1>1, <1>2 DEF Lit

LEMMA LitReader ==
  ASSUME SlotInv, Lit, NEW r \in Endpoint, Acts(r), ~Failed'
  PROVE  Lit'
<1>0. /\ ThreadType /\ LocalType /\ AirType /\ MutualExclusion
  BY DEF SlotInv, TypeInv, TypeOK
<1>1. Others(r) /\ ~interrupted'
  BY <1>0, ReaderOthers, AbortFails DEF Failed
<1>2. CASE BulkData(r)
  <2>1. Handler(Head(inbox[r])) \notin Critical
    BY <1>0, <1>2, Delivered DEF Handler, Critical, Frame, Kind
  <2>2. pc[r] = "bulk" /\ pc'[r] = Handler(Head(inbox[r])) /\ UNCHANGED <<connectedClients, led>>
    BY <1>0, <1>2, Threads, GotoLabel DEF BulkData, hostVars, chipVars
  <2>. QED  BY <1>1, <2>1, <2>2, LitByOne DEF Critical, Lighting
<1>3. CASE Connect(r)
  <2>1. /\ pc[r] = "connect" /\ UNCHANGED led
        /\ \/ pc'[r] = "loop" /\ UNCHANGED connectedClients
           \/ /\ pc'[r] = "writeWcid" /\ wcid'[r] = FirstFree
              /\ connectedClients' = connectedClients \cup {FirstFree}
    BY <1>0, <1>3, Threads, GotoLabel DEF Connect, Return, LocalType, chipVars
  <2>2. \A s \in Endpoint \ {r} : pc[s] \notin Critical
    BY <1>0, <1>3, Alone DEF Connect
  <2>. QED  BY <1>1, <2>1, <2>2, LitByOne DEF Critical, Lighting
<1>4. CASE WriteWcid(r) \/ AddClient(r) \/ Respond(r)
  <2>1. /\ pc[r] \in Lighting /\ pc'[r] \in Lighting /\ wcid'[r] = wcid[r]
        /\ UNCHANGED <<connectedClients, led>>
    BY <1>0, <1>1, <1>4, Threads, GotoLabel
    DEF WriteWcid, AddClient, Respond, GiveUp, UsbError, hostVars, chipVars, flowVars,
        Lighting
  <2>. QED  BY <1>1, <2>1, LitByOne DEF Lighting
<1>5. CASE LedOn(r)
  <2>1. pc'[r] = "newController" /\ led' = "on" /\ UNCHANGED connectedClients
    BY <1>0, <1>1, <1>5, Threads, GotoLabel DEF LedOn, GiveUp, UsbError, hostVars
  <2>. QED  BY <1>1, <2>1, LitByOne DEF Lighting
<1>6. CASE NewController(r) \/ Disconnect(r) \/ RemoveClient(r) \/ StopRumble(r) \/
          PowerOff(r) \/ CloseInput(r)
  <2>1. /\ pc[r] \in {"newController", "disconnect"} \cup Leaving
        /\ pc'[r] \in {"loop", "clearWcid"} \cup Leaving
        /\ connectedClients' \subseteq connectedClients /\ UNCHANGED led
    BY <1>0, <1>1, <1>6, Threads, GotoLabel, AbortFails
    DEF NewController, Disconnect, RemoveClient, WithoutWcid, StopRumble, PowerOff,
        CloseInput, Unlock, Return, UsbError, Leaving, hostVars, chipVars
  <2>. QED  BY <1>1, <2>1, LitByOne DEF Lighting, Leaving
<1>7. CASE ClearWcid(r)
  <2>1. /\ pc[r] = "clearWcid" /\ UNCHANGED <<connectedClients, led>>
        /\ pc'[r] = "loop" \/ (pc'[r] = "ledOff" /\ connectedClients = {})
    BY <1>0, <1>1, <1>7, Threads, GotoLabel
    DEF ClearWcid, GiveUp, Unlock, Return, UsbError, LastClientLeft, hostVars
  <2>. QED  BY <1>1, <2>1, LitByOne DEF Lighting
<1>8. CASE LedOff(r)
  <2>1. pc[r] = "ledOff" /\ pc'[r] = "loop" /\ UNCHANGED connectedClients
    BY <1>0, <1>1, <1>8, Threads, GotoLabel
    DEF LedOff, GiveUp, Unlock, Return, UsbError, hostVars
  <2>2. connectedClients = {}
    BY <2>1 DEF Lit
  <2>. QED  BY <1>1, <2>1, <2>2, LitByOne DEF Lighting
<1>9. CASE Loop(r) \/ BulkTimeout(r) \/ BulkError(r) \/ Pair(r) \/ Packet(r)
  <2>1. /\ pc[r] \in {"loop", "bulk", "pair", "packet"}
        /\ pc'[r] \in {"loop", "exited", "bulk", "beacon"}
        /\ UNCHANGED <<connectedClients, led>>
    BY <1>0, <1>1, <1>9, Threads, GotoLabel, AbortFails
    DEF Loop, BulkTimeout, BulkError, Pair, PairingError, Packet, Return, hostVars, chipVars
  <2>. QED  BY <1>1, <2>1, LitByOne DEF Lighting
<1>. QED  BY <1>2, <1>3, <1>4, <1>5, <1>6, <1>7, <1>8, <1>9
          DEF Acts, ReaderStep, DestructorStep

LEMMA ViewsStep ==
  ASSUME SlotInv, Held, ViewsInv, [Next]_vars
  PROVE  ViewsInv'
<1> SUFFICES ASSUME ~Failed' PROVE Views' /\ Lit'
  BY DEF ViewsInv
<1>0. Views /\ Lit /\ ~ShuttingDown /\ ThreadType
  BY FailedStays DEF ViewsInv, Failed, SlotInv, TypeInv, TypeOK
<1>1. CASE /\ UNCHANGED <<connectedClients, controllers, table, registered, wcid, frame>>
           /\ \A s \in Endpoint :
                \/ pc'[s] = pc[s]
                \/ pc'[s] \notin Critical /\ pc[s] \notin Critical
           /\ led' = "off" => led = "off"
  <2>1. Views'
    BY <1>0, <1>1, ViewsKept
  <2>2. Lit'
    BY <1>0, <1>1 DEF Lit, Lighting, Critical
  <2>. QED  BY <2>1, <2>2
<1>2. ASSUME NEW r \in Endpoint, Acts(r)
      PROVE  Views' /\ Lit'
  BY <1>0, <1>2, ViewsReader, LitReader
<1>3. ASSUME NEW t \in Thread, PairingStep(t) PROVE Views' /\ Lit'
  <2>1. /\ UNCHANGED <<connectedClients, controllers, table, registered, wcid, frame>>
        /\ led' = "off" => led = "off"
    BY <1>3, PairingUnchanged
    DEF flowVars, hostVars, chipVars, PairingStep, Beacon, Calibrate, LedPair, PairingLed,
        PairingError
  <2>2. PICK label : Goto(t, label) /\ label \notin Critical
    BY <1>3 DEF PairingStep, Beacon, Calibrate, LedPair, PairingError, Return, Critical
  <2>3. pc[t] \notin Critical
    BY <1>3 DEF PairingStep, Beacon, Calibrate, LedPair, Critical
  <2>. QED  BY <1>0, <1>1, <2>1, <2>2, <2>3, Threads, GotoLabel
<1>4. CASE MainActs
  <2>1. /\ UNCHANGED <<connectedClients, controllers, table, registered, wcid, frame, led>>
        /\ \A s \in Endpoint : pc'[s] = pc[s]
    <3>1. ~PowerOff(Main) /\ ~Darken
      BY <1>0 DEF PowerOff, Darken, ShuttingDown, Destroying
    <3>2. UNCHANGED led
      BY <1>4, <3>1
      DEF MainActs, MainStep, PollFails, Poll, Stop, Join, Destroy, RadioOff, Close,
          DestructorStep, StopRumble, CloseInput, chipVars
    <3>. QED  BY <1>0, <1>4, <3>1, <3>2, MainOthers
  <2>. QED  BY <1>1, <2>1
<1>5. CASE Nudge \/ AirStep
  BY <1>1, <1>5, AirUnchanged, NudgeUnchanged DEF hostVars, flowVars, chipVars
<1>6. CASE UNCHANGED vars
  BY <1>1, <1>6 DEF vars, hostVars, flowVars, chipVars
<1>. QED  BY <1>2, <1>3, <1>4, <1>5, <1>6, Steps

-----------------------------------------------------------------------------
(* Whoever believes to be connected                                        *)

Connected(a) == client[a] \in {"on", "ready"}

\* The dongle knows of gamepad a.
Known(a) ==
  \/ \E w \in Wcid : controllers[w] = a
  \/ \E r \in Endpoint : pc[r] \in {"ledOn", "newController"} /\ frame[r].from = a

LEMMA KnownStays ==
  ASSUME NEW a, Known(a),
         \A w \in Wcid : controllers[w] = a => controllers'[w] = a,
         \A r \in Endpoint :
           pc[r] \in {"ledOn", "newController"} =>
             pc'[r] \in {"ledOn", "newController"} /\ frame'[r] = frame[r]
  PROVE  Known(a)'
BY DEF Known

LEMMA ClientReader ==
  ASSUME SlotInv, Held, ClientInv, NEW r \in Endpoint, Acts(r),
         ~interrupted, ~aborted, ~interrupted', ~aborted'
  PROVE  \A a \in Client : Connected(a)' => Known(a)'
<1>0. /\ HostType /\ ThreadType /\ LocalType /\ AirType /\ WcidInRange
      /\ MutualExclusion /\ SlotHoldsWcid
      /\ \A a \in Client : Connected(a) => Known(a)
  BY DEF SlotInv, TypeInv, TypeOK, ClientInv, Connected, Known
<1>1. Others(r)
  BY <1>0, ReaderOthers DEF Abort
<1>2. ASSUME UNCHANGED <<client, controllers>>,
             pc[r] \in {"ledOn", "newController"} =>
               pc'[r] \in {"ledOn", "newController"} /\ frame'[r] = frame[r]
      PROVE  \A a \in Client : Connected(a)' => Known(a)'
  BY <1>0, <1>1, <1>2, KnownStays DEF Others, Connected
<1>3. CASE BulkData(r) \/ Connect(r) \/ Loop(r) \/ BulkTimeout(r) \/ BulkError(r) \/
           Pair(r) \/ Packet(r) \/ WriteWcid(r) \/ AddClient(r) \/ Disconnect(r) \/
           RemoveClient(r) \/ ClearWcid(r) \/ LedOff(r) \/ StopRumble(r) \/ CloseInput(r)
  <2>1. /\ UNCHANGED <<client, controllers>>
        /\ pc[r] \notin {"ledOn", "newController"}
    BY <1>3
    DEF BulkData, Connect, Loop, BulkTimeout, BulkError, Pair, PairingError, Packet,
        WriteWcid, AddClient, Disconnect, RemoveClient, ClearWcid, LedOff, StopRumble,
        CloseInput, GiveUp, hostVars, airVars
  <2>. QED  BY <1>2, <2>1
<1>4. CASE Respond(r)
  <2>1. /\ pc[r] = "respond" /\ pc'[r] = "ledOn" /\ frame'[r] = frame[r]
        /\ \A a \in Client : a # frame[r].from => client'[a] = client[a]
        /\ UNCHANGED controllers
    BY <1>0, <1>4, Threads, GotoLabel
    DEF Respond, GiveUp, UsbError, hostVars, flowVars, AirType
  <2>2. ASSUME NEW a \in Client, Connected(a)' PROVE Known(a)'
    <3>1. CASE a = frame[r].from
      BY <2>1, <3>1 DEF Known
    <3>2. CASE a # frame[r].from
      <4>1. Connected(a)
        BY <2>1, <2>2, <3>2 DEF Connected
      <4>. QED  BY <1>0, <1>1, <2>1, <4>1, KnownStays DEF Others
    <3>. QED  BY <3>1, <3>2
  <2>. QED  BY <2>2
<1>5. CASE LedOn(r)
  <2>1. /\ UNCHANGED <<client, controllers>>
        /\ pc'[r] = "newController" /\ frame'[r] = frame[r]
    BY <1>0, <1>5, Threads, GotoLabel DEF LedOn, GiveUp, UsbError, hostVars, flowVars, airVars
  <2>. QED  BY <1>2, <2>1
<1>6. CASE NewController(r)
  <2>1. /\ pc[r] = "newController"
        /\ controllers' = [controllers EXCEPT ![wcid[r]] = frame[r].from]
        /\ UNCHANGED client
    BY <1>6 DEF NewController, Abort, airVars
  <2>2. /\ wcid[r] \in Wcid /\ controllers[wcid[r]] = Nobody
    BY <1>0, <2>1 DEF WcidInRange, Critical, Held, Connecting
  <2>3. ASSUME NEW a \in Client, Connected(a) PROVE Known(a)'
    <3>1. a # Nobody
      BY Threads
    <3>2. CASE \E w \in Wcid : controllers[w] = a
      <4>1. PICK w \in Wcid : controllers[w] = a
        BY <3>2
      <4>2. controllers'[w] = a
        BY <1>0, <2>1, <2>2, <3>1, <4>1 DEF HostType
      <4>. QED  BY <4>2 DEF Known
    <3>3. ASSUME NEW s \in Endpoint, pc[s] \in {"ledOn", "newController"}, frame[s].from = a
          PROVE  Known(a)'
      <4>1. CASE s = r
        <5>1. controllers'[wcid[r]] = a
          BY <1>0, <2>1, <2>2, <3>3, <4>1 DEF HostType
        <5>. QED  BY <2>2, <5>1 DEF Known
      <4>2. CASE s # r
        BY <1>1, <3>3, <4>2 DEF Others, Known
      <4>. QED  BY <4>1, <4>2
    <3>. QED  BY <1>0, <2>3, <3>2, <3>3 DEF Known
  <2>. QED  BY <2>1, <2>3 DEF Connected
<1>7. CASE PowerOff(r)
  <2>1. pc[r] = "powerOff" /\ wcid[r] \in Wcid
    BY <1>0, <1>7 DEF PowerOff, WcidInRange, Critical
  <2>2. wcid[r] \in connectedClients
    BY <1>0, <2>1 DEF Held, SlotHoldsWcid
  <2>3. /\ controllers' = [controllers EXCEPT ![wcid[r]] = Nobody]
        /\ client' = PoweredOff(controllers[wcid[r]])
    BY <1>7, <2>2, SlotOf DEF PowerOff, DestroyController, UsbError
  <2>4. ASSUME NEW a \in Client, Connected(a)' PROVE Known(a)'
    <3>1. Connected(a) /\ a # controllers[wcid[r]]
      BY <1>0, <2>3, <2>4 DEF PoweredOff, AirType, Connected
    <3>2. \A w \in Wcid : controllers[w] = a => controllers'[w] = a
      BY <1>0, <2>3, <3>1 DEF HostType
    <3>. QED  BY <1>0, <1>1, <2>1, <3>1, <3>2, KnownStays DEF Others
  <2>. QED  BY <2>4
<1>. QED  BY <1>3, <1>4, <1>5, <1>6, <1>7 DEF Acts, ReaderStep, DestructorStep

LEMMA FlagsStay ==
  ASSUME SlotInv, [Next]_vars, ~interrupted', ~aborted'
  PROVE  ~interrupted /\ ~aborted
<1>0. ThreadType /\ LocalType
  BY DEF SlotInv, TypeInv, TypeOK
<1>1. ~interrupted
  BY <1>0, InterruptedStays DEF LocalType
<1>2. aborted' = aborted
  <2>1. ASSUME NEW r \in Endpoint, Acts(r) PROVE aborted' = aborted
    BY <2>1, ReaderKeeps DEF Abort
  <2>2. ASSUME NEW t \in Thread, PairingStep(t) PROVE aborted' = aborted
    BY <2>2, PairingUnchanged DEF flowVars
  <2>3. CASE MainActs
    BY <1>0, <2>3, MainOthers
  <2>4. CASE Nudge \/ AirStep \/ UNCHANGED vars
    BY <2>4, NudgeUnchanged, AirUnchanged DEF vars, flowVars
  <2>. QED  BY <2>1, <2>2, <2>3, <2>4, Steps
<1>. QED  BY <1>1, <1>2

LEMMA ClientStep ==
  ASSUME SlotInv, Held, Ending, ClientInv, [Next]_vars
  PROVE  ClientInv'
<1> SUFFICES ASSUME ~interrupted', ~aborted'
             PROVE  \A a \in Client : Connected(a)' => Known(a)'
  BY DEF ClientInv, Connected, Known
<1>0. /\ ~interrupted /\ ~aborted
      /\ HostType /\ ThreadType /\ AirType /\ SlotHoldsWcid /\ ChipType
      /\ \A a \in Client : Connected(a) => Known(a)
  BY FlagsStay DEF ClientInv, Connected, Known, SlotInv, TypeInv, TypeOK
<1>1. ASSUME UNCHANGED <<controllers, frame>>,
             \A a \in Client : Connected(a)' => Connected(a),
             \A s \in Endpoint : pc'[s] = pc[s] \/ pc[s] \notin {"ledOn", "newController"}
      PROVE  \A a \in Client : Connected(a)' => Known(a)'
  BY <1>0, <1>1, KnownStays
<1>2. ASSUME NEW r \in Endpoint, Acts(r)
      PROVE  \A a \in Client : Connected(a)' => Known(a)'
  BY <1>0, <1>2, ClientReader
<1>3. ASSUME NEW t \in Thread, PairingStep(t)
      PROVE  \A a \in Client : Connected(a)' => Known(a)'
  <2>1. UNCHANGED <<controllers, frame, client>>
    BY <1>3, PairingUnchanged DEF flowVars, hostVars, airVars
  <2>2. PICK label : Goto(t, label)
    BY <1>3 DEF PairingStep, Beacon, Calibrate, LedPair, PairingError, Return
  <2>3. pc[t] \notin {"ledOn", "newController"}
    BY <1>3 DEF PairingStep, Beacon, Calibrate, LedPair
  <2>. QED  BY <1>0, <1>1, <2>1, <2>2, <2>3, Threads, GotoLabel DEF Connected
<1>4. CASE MainActs
  <2>1. /\ UNCHANGED frame
        /\ \A s \in Endpoint : pc'[s] = pc[s]
    BY <1>0, <1>4, MainOthers
  <2>2. CASE PowerOff(Main)
    <3>1. slot \in Wcid
      BY <2>2 DEF PowerOff, SlotInv, TypeInv, SlotInRange
    <3>2. slot \in connectedClients
      BY <1>0, <2>2, <3>1 DEF SlotHoldsWcid, PowerOff, Ending
    <3>3. /\ controllers' = [controllers EXCEPT ![slot] = Nobody]
          /\ client' = PoweredOff(controllers[slot])
      BY <2>2, <3>2, SlotOf DEF PowerOff, DestroyController, UsbError
    <3>4. ASSUME NEW a \in Client, Connected(a)' PROVE Known(a)'
      <4>1. Connected(a) /\ a # controllers[slot]
        BY <1>0, <3>3, <3>4 DEF PoweredOff, AirType, Connected
      <4>2. \A w \in Wcid : controllers[w] = a => controllers'[w] = a
        BY <1>0, <3>3, <4>1 DEF HostType
      <4>. QED  BY <1>0, <2>1, <4>1, <4>2, KnownStays
    <3>. QED  BY <3>4
  <2>3. CASE ~PowerOff(Main)
    <3>1. UNCHANGED <<controllers, client>>
      BY <1>0, <1>4, <2>3, MainOthers
    <3>. QED  BY <1>1, <2>1, <3>1 DEF Connected
  <2>. QED  BY <2>2, <2>3
<1>5. CASE AirStep
  <2>1. UNCHANGED <<controllers, frame, pc>>
    BY <1>5, AirUnchanged DEF hostVars, flowVars
  <2>2. ASSUME NEW a \in Client, Connected(a)' PROVE Connected(a)
    BY <1>0, <1>5, <2>2
    DEF AirStep, Associate, AskAgain, Announce, AnnounceAgain, Input, Disassociate, Vanish,
        AskToPair, LoseClient, PressButton, Signal, Becomes, Connected, AirType
  <2>. QED  BY <1>1, <2>1, <2>2
<1>6. CASE Nudge
  BY <1>1, <1>6, NudgeUnchanged DEF flowVars, airVars, Connected
<1>7. CASE UNCHANGED vars
  BY <1>1, <1>7 DEF vars, hostVars, flowVars, airVars, Connected
<1>. QED  BY <1>2, <1>3, <1>4, <1>5, <1>6, <1>7, Steps

LEMMA ViewInit == Init => ViewInv
<1> SUFFICES ASSUME Init PROVE ViewInv
  OBVIOUS
<1> USE DongleAssumption
<1>1. SlotInv
  <2>1. MutualExclusion
    BY DEF Init, MutualExclusion, ShuttingDown, Destroying, Thread, Critical
  <2>2. SlotHoldsWcid /\ WcidHeld
    BY DEF Init, SlotHoldsWcid, WcidHeld, Thread, Connecting
  <2>. QED  BY <2>1, <2>2, TypeInit DEF SlotInv
<1>2. \A r \in Endpoint : pc[r] = "loop"
  BY DEF Init, Thread
<1>3. pc[Main] = "poll"
  BY DEF Init, Thread
<1>4. Senders
  BY DEF Init, Senders
<1>5. Held
  BY <1>2 DEF Held, Connecting
<1>6. Ending
  BY <1>3 DEF Init, Ending
<1>9. Told
  BY <1>2 DEF Init, Told, Connecting
<1>7. ViewsInv
  BY <1>2 DEF Init, ViewsInv, Views, Agree, AtWork, Connecting, Lit
<1>8. ClientInv
  BY DEF Init, ClientInv
<1>. QED  BY <1>1, <1>4, <1>5, <1>6, <1>7, <1>8, <1>9 DEF ViewInv

LEMMA ViewNext == ViewInv /\ [Next]_vars => ViewInv'
<1> SUFFICES ASSUME ViewInv, [Next]_vars PROVE ViewInv'
  OBVIOUS
<1>1. SlotInv'
  BY SlotStep, MutualExclusionStep, HostTypeStep, ThreadTypeStep, LocalTypeStep,
     ChipTypeStep, AirTypeStep, WcidInRangeStep, SlotInRangeStep
  DEF ViewInv, SlotInv, TypeInv, TypeOK
<1>2. Senders'
  BY SendersStep DEF ViewInv, SlotInv
<1>. QED  BY <1>1, <1>2, HeldStep, ToldStep, EndingStep, ViewsStep, ClientStep DEF ViewInv

-----------------------------------------------------------------------------
(* Theorems                                                                *)

\* What the handlers, the destructors and the gamepads know of each other is
\* kept by every step.
THEOREM ViewInvariant == Spec => []ViewInv
BY ViewInit, ViewNext, PTL DEF Spec

\* The chip knows the gamepad of every Controller, also after failures in the middle
\* of handlers; and between two handlers connectedClients, the controllers, the WCID
\* table and the firmware's clients agree, unless a USB command has failed.
THEOREM FourViewsAgree == Spec => []ViewsAgree
<1>1. ViewInv => ViewsAgree
  <2> SUFFICES ASSUME ViewInv, controllerMutex = Nobody, ~interrupted, ~ShuttingDown
               PROVE  /\ table = controllers
                      /\ registered = connectedClients
                      /\ connectedClients = {w \in Wcid : controllers[w] # Nobody}
    BY DEF ViewsAgree, ViewInv, Told
  <2>1. Views /\ MutualExclusion /\ HostType /\ ChipType
    BY DEF ViewInv, ViewsInv, Failed, SlotInv, TypeInv, TypeOK
  <2>2. \A w \in Wcid : Agree(w)
    BY <2>1, AgreeAll
  <2>. QED  BY <2>1, <2>2 DEF Agree, HostType, ChipType
<1>. QED  BY <1>1, ViewInvariant, PTL

\* The LED is not dark while a gamepad is connected, in whatever order readers
\* light and darken it and the pairing status is set.
THEOREM ConnectedIsLit == Spec => []LitWhileConnected
<1>1. ViewInv => LitWhileConnected
  <2> SUFFICES ASSUME ViewInv, controllerMutex = Nobody, ~interrupted, ~ShuttingDown,
                      NEW w \in connectedClients
               PROVE  led # "off"
    BY DEF LitWhileConnected
  <2>1. Lit /\ MutualExclusion
    BY DEF ViewInv, ViewsInv, Failed, SlotInv
  <2>2. \A r \in Endpoint : pc[r] \notin Lighting
    BY <2>1, Threads DEF MutualExclusion, Critical, Lighting
  <2>. QED  BY <2>1, <2>2 DEF Lit
<1>. QED  BY <1>1, ViewInvariant, PTL

\* When ~Mt76() has switched the radio off, every gamepad that was connected has
\* been powered off, unless a USB command has failed.
THEOREM NobodyIsLeftOn == Spec => []PoweredOffAtExit
<1>1. ViewInv => PoweredOffAtExit
  <2> SUFFICES ASSUME ViewInv, radio # "on", ~interrupted, NEW a \in Client, Connected(a)
               PROVE  FALSE
    BY DEF PoweredOffAtExit, Connected
  <2>1. pc[Main] \in {"close", "exited"} /\ ~aborted /\ \A w \in Wcid : controllers[w] = Nobody
    BY DEF ViewInv, Ending
  <2>2. \A r \in Endpoint : pc[r] = "exited"
    BY <2>1 DEF ViewInv, SlotInv, MutualExclusion, ShuttingDown, Destroying
  <2>. QED  BY <2>1, <2>2, Threads DEF ViewInv, ClientInv, Connected
<1>. QED  BY <1>1, ViewInvariant, PTL

-----------------------------------------------------------------------------
(* The dongle implements the access point                                  *)

Slots  == [w \in Wcid |-> Content(w)]
Faulty == interrupted \/ aborted

\* The steps of the access point, in the words of the dongle.
LEMMA PromisedStutter ==
  ASSUME Slots' = Slots, Faulty' = Faulty, Phase' = Phase
  PROVE  UNCHANGED Promise!vars
BY DEF Slots, Faulty, Promise!vars

LEMMA PromisedFail ==
  ASSUME Slots' = Slots, Faulty', Phase' = Phase
  PROVE  Promise!Next
BY DEF Slots, Faulty, Promise!Next, Promise!Fail

LEMMA PromisedCrash ==
  ASSUME Slots' = Slots, Faulty', Phase = "up", Phase' = "closed"
  PROVE  Promise!Next
BY DEF Slots, Faulty, Promise!Next, Promise!Crash

LEMMA PromisedReserve ==
  ASSUME NEW w \in Wcid, Phase = "up", Phase' = Phase, Faulty' = Faulty,
         Faulty \/ \A v \in Wcid : Content(v) # "reserved",
         Content(w) = "free", \A v \in Wcid : v < w => Content(v) # "free",
         Slots' = [Slots EXCEPT ![w] = "reserved"]
  PROVE  Promise!Next
<1>1. Promise!FirstFree(w)
  BY DEF Promise!FirstFree, Promise!Slot, Wcid
<1>2. Promise!Undisturbed
  BY DEF Promise!Undisturbed, Promise!Slot, Wcid, Faulty
<1>3. Promise!Reserve(w)
  BY <1>1, <1>2 DEF Promise!Reserve, Promise!Becomes, Slots, Faulty
<1>. QED  BY <1>3 DEF Promise!Next, Promise!Slot, Wcid

LEMMA PromisedAdmit ==
  ASSUME NEW w \in Wcid, NEW a \in Client, Phase = "up", Phase' = Phase, Faulty' = Faulty,
         Content(w) = "reserved", Slots' = [Slots EXCEPT ![w] = a]
  PROVE  Promise!Next
<1>1. Promise!Admit(w)
  BY DEF Promise!Admit, Promise!Becomes, Slots, Faulty
<1>. QED  BY <1>1 DEF Promise!Next, Promise!Slot, Wcid

LEMMA PromisedDismiss ==
  ASSUME NEW w \in Wcid, Phase' = Phase, Faulty => Faulty',
         \/ Phase = "up" /\ (Faulty \/ \A v \in Wcid : Content(v) # "reserved")
         \/ Phase = "closing",
         Content(w) \in Client, Slots' = [Slots EXCEPT ![w] = "reserved"]
  PROVE  Promise!Next
<1>1. Promise!MayFail
  BY DEF Promise!MayFail, Faulty
<1>2. (Phase = "up" /\ Promise!Undisturbed) \/ Phase = "closing"
  BY DEF Promise!Undisturbed, Promise!Slot, Wcid, Faulty
<1>3. Promise!Dismiss(w)
  BY <1>1, <1>2 DEF Promise!Dismiss, Promise!Becomes, Slots, Faulty
<1>. QED  BY <1>3 DEF Promise!Next, Promise!Slot, Wcid

LEMMA PromisedRelease ==
  ASSUME NEW w \in Wcid, Phase = "up", Phase' = Phase, Faulty => Faulty',
         Content(w) = "reserved", Slots' = [Slots EXCEPT ![w] = "free"]
  PROVE  Promise!Next
<1>1. Promise!MayFail
  BY DEF Promise!MayFail, Faulty
<1>2. Promise!Release(w)
  BY <1>1 DEF Promise!Release, Promise!Becomes, Slots, Faulty
<1>. QED  BY <1>2 DEF Promise!Next, Promise!Slot, Wcid

LEMMA PromisedClose ==
  ASSUME Phase = "up", Phase' = "closing", Slots' = Slots, Faulty' = Faulty,
         Faulty \/ \A v \in Wcid : Content(v) # "reserved"
  PROVE  Promise!Next
<1>1. Promise!Undisturbed
  BY DEF Promise!Undisturbed, Promise!Slot, Wcid, Faulty
<1>. QED  BY <1>1 DEF Promise!Next, Promise!Close, Slots, Faulty

LEMMA PromisedEnd ==
  ASSUME Phase = "closing", Phase' = "closed", Slots' = Slots, Faulty' = Faulty,
         \A w \in Wcid : Content(w) \notin Client
  PROVE  Promise!Next
BY DEF Promise!Next, Promise!End, Promise!Slot, Wcid, Slots, Faulty

LEMMA SlotsAt ==
  ASSUME NEW w \in Wcid, NEW c, Content(w)' = c,
         \A v \in Wcid \ {w} :
           /\ controllers'[v] = controllers[v]
           /\ v \in connectedClients' <=> v \in connectedClients
  PROVE  Slots' = [Slots EXCEPT ![w] = c]
BY DEF Slots, Content

LEMMA SlotsSame ==
  ASSUME UNCHANGED <<controllers, connectedClients>>
  PROVE  Slots' = Slots
BY DEF Slots, Content

\* While nothing has failed and no handler works, no slot is reserved.
LEMMA NoneReserved ==
  ASSUME HostType, \A v \in Wcid : Agree(v)
  PROVE  \A v \in Wcid : Content(v) # "reserved"
BY DongleAssumption DEF HostType, Owner, Agree, Content

LEMMA UpIs ==
  ASSUME ~ShuttingDown
  PROVE  Phase = "up"
BY DEF ShuttingDown, Destroying, Phase

LEMMA RefineReader ==
  ASSUME ViewInv, NEW r \in Endpoint, Acts(r)
  PROVE  Promise!Next \/ UNCHANGED Promise!vars
<1>0. /\ HostType /\ ThreadType /\ LocalType /\ AirType /\ WcidInRange
      /\ MutualExclusion /\ SlotHoldsWcid /\ WcidHeld /\ Held
      /\ Nobody \notin Client /\ "reserved" \notin Client /\ "free" \notin Client
  BY Threads, DongleAssumption DEF ViewInv, SlotInv, TypeInv, TypeOK
<1>1. ~ShuttingDown /\ Phase = "up" /\ ~aborted
  <2>1. ~ShuttingDown
    BY <1>0, ReaderUp
  <2>2. ~aborted
    BY <2>1 DEF ViewInv, Ending, ShuttingDown
  <2>. QED  BY <2>1, <2>2, UpIs
<1>2. CASE Abort
  <2>1. UNCHANGED <<controllers, connectedClients>>
    <3>1. pc'[Main] = "exited" /\ pc[Main] # "exited"
      BY <1>1, <1>2, Threads DEF Abort, ShuttingDown
    <3>2. ~Others(r)
      BY <3>1 DEF Others
    <3>. QED  BY <1>0, <3>2, ReaderOthers
  <2>2. Phase' = "closed" /\ Faulty'
    BY <1>2, Threads DEF Abort, Phase, Destroying, Faulty
  <2>. QED  BY <1>1, <2>1, <2>2, SlotsSame, PromisedCrash
<1>3. CASE ~Abort
  <2>0. Others(r) /\ UNCHANGED aborted
    BY <1>0, <1>3, ReaderOthers, ReaderKeeps
  <2>1. Phase' = Phase
    BY <2>0 DEF Others, Phase
  <2>2. interrupted' = interrupted \/ interrupted' = TRUE
    BY InterruptedStays DEF Acts, Next, Thread
  <2>3. Faulty' = Faulty \/ Faulty'
    BY <2>0, <2>2 DEF Faulty
  <2>4. Faulty => Faulty'
    BY <2>0, <2>2 DEF Faulty
  <2>5. ASSUME ~Faulty PROVE Views
    BY <1>1, <2>5 DEF Faulty, ViewInv, ViewsInv, Failed
  <2>6. ASSUME UNCHANGED <<controllers, connectedClients>>
        PROVE  Promise!Next \/ UNCHANGED Promise!vars
    BY <2>1, <2>3, <2>6, SlotsSame, PromisedStutter, PromisedFail
  <2>7. ASSUME NEW w \in Wcid, controllers[w] # Nobody, w \in connectedClients
        PROVE  Content(w) \in Client
    BY <1>0, <2>7 DEF HostType, Owner, Content
  <2>8. CASE Connect(r)
    <3>1. CASE FreeWcids = {}
      BY <2>6, <2>8, <3>1 DEF Connect
    <3>2. CASE FreeWcids # {}
      <4>1. PICK w \in Wcid : w = FirstFree
        BY <3>2, FirstFreeIsFree DEF FreeWcids
      <4>2. /\ connectedClients' = connectedClients \cup {w}
            /\ UNCHANGED <<controllers, interrupted>> /\ controllerMutex = Nobody
        BY <2>8, <3>2, <4>1 DEF Connect
      <4>3. /\ w \notin connectedClients
            /\ controllers[w] = Nobody
        BY <1>0, <3>2, <4>1, FirstFreeIsFree DEF FreeWcids, SlotHoldsWcid
      <4>4. Content(w) = "free" /\ Content(w)' = "reserved"
        BY <4>2, <4>3 DEF Content
      <4>5. \A v \in Wcid : v < w => Content(v) # "free"
        <5> SUFFICES ASSUME NEW v \in Wcid, v < w PROVE Content(v) # "free"
          OBVIOUS
        <5>1. v \in connectedClients
          <6>1. v \in Nat /\ w \in Nat
            BY DongleAssumption DEF Wcid
          <6>2. ~ (w <= v)
            BY <6>1
          <6>. QED  BY <3>2, <4>1, <6>2, FirstFreeIsFree DEF FreeWcids
        <5>2. controllers[v] # Nobody => controllers[v] # "free"
          BY <1>0 DEF HostType, Owner
        <5>. QED  BY <5>1, <5>2 DEF Content
      <4>6. ASSUME ~Faulty PROVE \A v \in Wcid : Content(v) # "reserved"
        <5>1. Views /\ \A e \in Endpoint : pc[e] \notin Critical
          BY <1>0, <2>5, <4>2, <4>6, Threads DEF MutualExclusion
        <5>. QED  BY <1>0, <4>2, <5>1, AgreeAll, NoneReserved
      <4>7. Faulty' = Faulty
        BY <2>0, <4>2 DEF Faulty
      <4>8. Slots' = [Slots EXCEPT ![w] = "reserved"]
        BY <4>2, <4>4, SlotsAt
      <4>. QED  BY <1>1, <2>1, <4>4, <4>5, <4>6, <4>7, <4>8, PromisedReserve
    <3>. QED  BY <3>1, <3>2
  <2>9. CASE NewController(r)
    <3>1. /\ pc[r] = "newController"
          /\ controllers' = [controllers EXCEPT ![wcid[r]] = frame[r].from]
          /\ UNCHANGED <<connectedClients, interrupted>>
      BY <1>3, <2>9 DEF NewController
    <3>2. /\ wcid[r] \in Wcid /\ controllers[wcid[r]] = Nobody
          /\ wcid[r] \in connectedClients /\ frame[r].from \in Client
      BY <1>0, <3>1 DEF WcidInRange, WcidHeld, Critical, Held, Connecting
    <3>3. PICK w \in Wcid : w = wcid[r]
      BY <3>2
    <3>4. PICK a \in Client : a = frame[r].from
      BY <3>2
    <3>5. Content(w) = "reserved" /\ Content(w)' = a
      BY <1>0, <3>1, <3>2, <3>3, <3>4 DEF Content, HostType
    <3>6. \A v \in Wcid \ {w} : controllers'[v] = controllers[v]
      BY <1>0, <3>1, <3>3 DEF HostType
    <3>7. Slots' = [Slots EXCEPT ![w] = a]
      BY <3>1, <3>5, <3>6, SlotsAt
    <3>8. Faulty' = Faulty
      BY <2>0, <3>1 DEF Faulty
    <3>. QED  BY <1>1, <2>1, <3>5, <3>7, <3>8, PromisedAdmit
  <2>10. CASE PowerOff(r)
    <3>1. /\ pc[r] = "powerOff"
          /\ controllers' = [controllers EXCEPT ![wcid[r]] = Nobody]
          /\ UNCHANGED connectedClients
      BY <2>10, SlotOf DEF PowerOff, DestroyController
    <3>2. /\ wcid[r] \in Wcid /\ controllers[wcid[r]] # Nobody
          /\ wcid[r] \in connectedClients /\ pc[r] \in Critical
      BY <1>0, <3>1 DEF WcidInRange, Critical, Held, SlotHoldsWcid
    <3>3. PICK w \in Wcid : w = wcid[r]
      BY <3>2
    <3>4. Content(w) \in Client
      BY <2>7, <3>2, <3>3
    <3>5. Content(w)' = "reserved"
      BY <1>0, <3>1, <3>2, <3>3 DEF Content, HostType
    <3>6. \A v \in Wcid \ {w} : controllers'[v] = controllers[v]
      BY <1>0, <3>1, <3>3 DEF HostType
    <3>7. Slots' = [Slots EXCEPT ![w] = "reserved"]
      BY <3>1, <3>5, <3>6, SlotsAt
    <3>8. ASSUME ~Faulty PROVE \A v \in Wcid : Content(v) # "reserved"
      <4>1. Views
        BY <2>5, <3>8
      <4>2. AtWork(r)
        BY <4>1 DEF Views
      <4>3. Agree(wcid[r])
        BY <3>1, <4>2 DEF AtWork
      <4>4. \A v \in Wcid : Agree(v)
        BY <1>0, <3>2, <4>1, <4>3, AgreeOthers
      <4>. QED  BY <1>0, <4>4, NoneReserved
    <3>. QED  BY <1>1, <2>1, <2>4, <3>4, <3>7, <3>8, PromisedDismiss
  <2>11. CASE RemoveClient(r)
    <3>1. /\ pc[r] = "removeClient"
          /\ connectedClients' = connectedClients \ {wcid[r]}
          /\ UNCHANGED controllers
      BY <2>11 DEF RemoveClient, WithoutWcid
    <3>2. /\ wcid[r] \in Wcid /\ controllers[wcid[r]] = Nobody
          /\ wcid[r] \in connectedClients
      BY <1>0, <3>1 DEF WcidInRange, Critical, Held, WcidHeld
    <3>3. PICK w \in Wcid : w = wcid[r]
      BY <3>2
    <3>4. Content(w) = "reserved" /\ Content(w)' = "free"
      BY <3>1, <3>2, <3>3 DEF Content
    <3>5. Slots' = [Slots EXCEPT ![w] = "free"]
      BY <3>1, <3>3, <3>4, SlotsAt
    <3>. QED  BY <1>1, <2>1, <2>4, <3>4, <3>5, PromisedRelease
  <2>12. CASE BulkData(r) \/ Loop(r) \/ BulkTimeout(r) \/ BulkError(r) \/ Pair(r) \/
              Packet(r) \/ WriteWcid(r) \/ AddClient(r) \/ Respond(r) \/ LedOn(r) \/
              Disconnect(r) \/ ClearWcid(r) \/ LedOff(r) \/ StopRumble(r) \/ CloseInput(r)
    <3>1. UNCHANGED <<controllers, connectedClients>>
      BY <2>12
      DEF BulkData, Loop, BulkTimeout, BulkError, Pair, PairingError, Packet, WriteWcid,
          AddClient, Respond, LedOn, Disconnect, ClearWcid, LedOff, StopRumble, CloseInput,
          GiveUp, hostVars
    <3>. QED  BY <2>6, <3>1
  <2>. QED  BY <2>8, <2>9, <2>10, <2>11, <2>12 DEF Acts, ReaderStep, DestructorStep
<1>. QED  BY <1>2, <1>3

LEMMA RefineMain ==
  ASSUME ViewInv, MainActs
  PROVE  Promise!Next \/ UNCHANGED Promise!vars
<1>0. /\ HostType /\ ThreadType /\ MutualExclusion /\ SlotHoldsWcid /\ Ending
      /\ Nobody \notin Client /\ "reserved" \notin Client /\ "free" \notin Client
      /\ UNCHANGED <<aborted, connectedClients>>
  BY Threads, DongleAssumption, MainOthers DEF ViewInv, SlotInv, TypeInv, TypeOK
<1>1. ASSUME UNCHANGED controllers, Phase' = Phase,
             interrupted' = interrupted \/ interrupted' = TRUE
      PROVE  Promise!Next \/ UNCHANGED Promise!vars
  <2>1. Faulty' = Faulty \/ Faulty'
    BY <1>0, <1>1 DEF Faulty
  <2>. QED  BY <1>0, <1>1, <2>1, SlotsSame, PromisedStutter, PromisedFail
<1>2. CASE Poll \/ PollFails \/ Stop
  <2>1. /\ UNCHANGED <<controllers, interrupted>>
        /\ pc[Main] \in {"poll", "stop"} /\ pc'[Main] \in {"beacon", "stop", "join"}
    BY <1>0, <1>2, GotoLabel, Threads DEF Poll, PollFails, Stop, hostVars
  <2>2. Phase' = Phase
    BY <2>1 DEF Phase, Destroying
  <2>. QED  BY <1>1, <2>1, <2>2
<1>3. CASE Join
  <2>1. /\ UNCHANGED <<controllers, interrupted>>
        /\ pc[Main] = "join" /\ pc'[Main] = "destroy"
    BY <1>0, <1>3, GotoLabel, Threads DEF Join, hostVars
  <2>2. Phase = "up" /\ Phase' = "closing"
    BY <2>1 DEF Phase, Destroying
  <2>3. controllerMutex = Nobody
    BY <1>0, <1>3 DEF Join, Joined, MutualExclusion, ThreadType, Critical
  <2>4. ASSUME ~Faulty PROVE Views
    BY <2>1, <2>4 DEF Faulty, ViewInv, ViewsInv, Failed, ShuttingDown, Destroying
  <2>5. Faulty \/ \A v \in Wcid : Content(v) # "reserved"
    BY <1>0, <2>3, <2>4, AgreeAll, NoneReserved
  <2>6. Faulty' = Faulty
    BY <1>0, <2>1 DEF Faulty
  <2>. QED  BY <1>0, <2>1, <2>2, <2>5, <2>6, SlotsSame, PromisedClose
<1>4. CASE PowerOff(Main)
  <2>0. pc[Main] = "powerOff" /\ pc'[Main] = "closeInput"
    BY <1>0, <1>4, GotoLabel, Threads DEF PowerOff
  <2>1. Phase = "closing" /\ Phase' = Phase
    BY <2>0 DEF Phase, Destroying
  <2>2. /\ controllers' = [controllers EXCEPT ![slot] = Nobody]
        /\ (interrupted' = interrupted \/ interrupted' = TRUE)
    BY <1>4, SlotOf DEF PowerOff, DestroyController, UsbError
  <2>3. slot \in Wcid
    BY <2>0 DEF ViewInv, SlotInv, TypeInv, SlotInRange
  <2>4. controllers[slot] # Nobody /\ slot \in connectedClients
    BY <1>0, <2>0, <2>3 DEF Ending, SlotHoldsWcid
  <2>5. Content(slot) \in Client
    BY <1>0, <2>4, <2>3 DEF Content, HostType, Owner
  <2>6. \A c \in Wcid : c = slot =>
          /\ Content(c)' = "reserved"
          /\ \A v \in Wcid \ {c} : controllers'[v] = controllers[v]
    BY <1>0, <2>2, <2>3, <2>4 DEF Content, HostType
  <2>7. PICK w \in Wcid : w = slot
    BY <2>3
  <2>8. Slots' = [Slots EXCEPT ![w] = "reserved"]
    BY <1>0, <2>6, <2>7, SlotsAt
  <2>9. Faulty => Faulty'
    BY <1>0, <2>2 DEF Faulty
  <2>. QED  BY <2>1, <2>5, <2>7, <2>8, <2>9, PromisedDismiss
<1>7. CASE Destroy \/ StopRumble(Main) \/ CloseInput(Main)
  <2>1. /\ UNCHANGED <<controllers, interrupted>>
        /\ pc[Main] \in {"destroy", "stopRumble", "closeInput"}
        /\ pc'[Main] \in {"destroy", "stopRumble", "powerOff"}
    BY <1>0, <1>7, GotoLabel, Threads DEF Destroy, StopRumble, CloseInput, hostVars
  <2>2. Phase' = Phase
    BY <2>1 DEF Phase, Destroying
  <2>. QED  BY <1>1, <2>1, <2>2
<1>5. CASE Darken \/ RadioOff
  <2>1. /\ UNCHANGED controllers /\ (interrupted' = interrupted \/ interrupted' = TRUE)
        /\ pc[Main] \in {"destroy", "radioOff"} /\ pc'[Main] \in {"radioOff", "close"}
    BY <1>0, <1>5, GotoLabel, Threads DEF Darken, RadioOff, UsbError, hostVars
  <2>2. Phase' = Phase
    BY <2>1 DEF Phase, Destroying
  <2>. QED  BY <1>1, <2>1, <2>2
<1>6. CASE Close
  <2>1. /\ UNCHANGED <<controllers, interrupted>>
        /\ pc[Main] = "close" /\ pc'[Main] = "exited"
    BY <1>0, <1>6, GotoLabel, Threads DEF Close, hostVars
  <2>2. Phase = "closing" /\ Phase' = "closed"
    BY <2>1 DEF Phase, Destroying
  <2>3. \A w \in Wcid : Content(w) \notin Client
    BY <1>0, <2>1 DEF Ending, Content
  <2>4. Faulty' = Faulty
    BY <1>0, <2>1 DEF Faulty
  <2>. QED  BY <1>0, <2>1, <2>2, <2>3, <2>4, SlotsSame, PromisedEnd
<1>. QED  BY <1>2, <1>3, <1>4, <1>5, <1>6, <1>7 DEF MainActs, MainStep, DestructorStep

LEMMA RefineNext == ViewInv /\ [Next]_vars => [Promise!Next]_(Promise!vars)
<1> SUFFICES ASSUME ViewInv, [Next]_vars PROVE Promise!Next \/ UNCHANGED Promise!vars
  OBVIOUS
<1>0. ThreadType
  BY DEF ViewInv, SlotInv, TypeInv, TypeOK
<1>1. ASSUME NEW t \in Thread, PairingStep(t)
      PROVE  Promise!Next \/ UNCHANGED Promise!vars
  <2>1. /\ UNCHANGED <<controllers, connectedClients, aborted>>
        /\ (interrupted' = interrupted \/ interrupted' = TRUE)
    BY <1>1, PairingUnchanged
    DEF PairingStep, Beacon, Calibrate, LedPair, PairingError, UsbError, flowVars, hostVars
  <2>2. PICK label : Goto(t, label) /\ (t = Main => label \in {"poll", "calibrate", "ledPair"})
    BY <1>1 DEF PairingStep, Beacon, Calibrate, LedPair, PairingError, Return
  <2>3. pc[t] \in {"beacon", "calibrate", "ledPair"}
    BY <1>1 DEF PairingStep, Beacon, Calibrate, LedPair
  <2>4. \/ pc'[Main] = pc[Main]
        \/ /\ pc[Main] \in {"beacon", "calibrate", "ledPair"}
           /\ pc'[Main] \in {"poll", "calibrate", "ledPair"}
    BY <1>0, <2>2, <2>3, Threads, GotoLabel
  <2>5. Phase' = Phase
    BY <2>4 DEF Phase, Destroying
  <2>6. Faulty' = Faulty \/ Faulty'
    BY <2>1 DEF Faulty
  <2>. QED  BY <2>1, <2>5, <2>6, SlotsSame, PromisedStutter, PromisedFail
<1>2. CASE AirStep \/ UNCHANGED vars
  <2>1. UNCHANGED <<controllers, connectedClients, aborted, interrupted, pc>>
    BY <1>2, AirUnchanged DEF vars, hostVars, flowVars
  <2>2. Phase' = Phase /\ Faulty' = Faulty
    BY <2>1 DEF Phase, Faulty
  <2>. QED  BY <2>1, <2>2, SlotsSame, PromisedStutter
<1>3. CASE Nudge
  <2>1. UNCHANGED <<controllers, connectedClients, aborted, pc>>
    BY <1>3, NudgeUnchanged DEF flowVars
  <2>3. interrupted' = interrupted \/ interrupted' = TRUE
    BY InterruptedStays
  <2>2. Phase' = Phase /\ (Faulty' = Faulty \/ Faulty')
    BY <2>1, <2>3 DEF Phase, Faulty
  <2>. QED  BY <2>1, <2>2, SlotsSame, PromisedStutter, PromisedFail
<1>. QED  BY <1>1, <1>2, <1>3, RefineReader, RefineMain, Steps

LEMMA RefineInit == Init => Promise!Init
<1> SUFFICES ASSUME Init PROVE Promise!Init
  OBVIOUS
<1>1. \A w \in Wcid : Content(w) = "free"
  BY DEF Init, Content
<1>2. Phase = "up"
  BY DongleAssumption DEF Init, Phase, Destroying, Thread
<1>. QED  BY <1>1, <1>2 DEF Init, Promise!Init, Promise!Slot, Wcid

\* Though every command is a step of its own and may fail, the readers and the
\* main thread together are an access point, for any number of slots and
\* gamepads.
THEOREM AccessPointIsImplemented == Spec => ImplementsAccessPoint
BY ViewInvariant, RefineInit, RefineNext, PTL
DEF Spec, ImplementsAccessPoint, Promise!Spec

-----------------------------------------------------------------------------
(* Only the reuse of a WCID misleads a frame                               *)

\* The entry that a frame was stamped with was written anew since, or it still holds
\* the address of the sender, or none.
Matches(f, entry, use) ==
  f.wcid # NoWcid =>
    /\ f.use <= use[f.wcid]
    /\ f.use = use[f.wcid] => entry[f.wcid] \in {Nobody, f.from}

Fresh ==
  /\ \A e \in Endpoint : \A i \in 1 .. Len(inbox[e]) : Matches(inbox[e][i], table, uses)
  /\ \A r \in Endpoint : Matches(frame[r], table, uses)
  /\ \A r \in Endpoint : pc[r] \in {"disconnect", "packet"} => frame[r].wcid = wcid[r]

\* How the entries of the WCID table change.
Rewritten(w) == /\ \E a \in Owner : table' = [table EXCEPT ![w] = a]
                /\ uses' = [uses EXCEPT ![w] = @ + 1]
Cleared(w)   == table' = [table EXCEPT ![w] = Nobody] /\ UNCHANGED uses
EntryStep == UNCHANGED <<table, uses>> \/ \E w \in Wcid : Rewritten(w) \/ Cleared(w)

LEMMA Entries ==
  ASSUME TypeInv, [Next]_vars
  PROVE  EntryStep
<1>0. ThreadType /\ LocalType /\ WcidInRange
  BY DEF TypeInv, TypeOK
<1>1. ASSUME NEW r \in Endpoint, Acts(r) PROVE EntryStep
  <2>1. CASE WriteWcid(r)
    <3>1. wcid[r] \in Wcid /\ frame[r].from \in Owner
      BY <1>0, <2>1 DEF WriteWcid, WcidInRange, Critical, LocalType, Frame
    <3>2. UNCHANGED <<table, uses>> \/ Rewritten(wcid[r])
      BY <2>1, <3>1 DEF WriteWcid, GiveUp, chipVars, Rewritten
    <3>. QED  BY <3>1, <3>2 DEF EntryStep
  <2>2. CASE ClearWcid(r)
    <3>1. wcid[r] \in Wcid
      BY <1>0, <2>2 DEF ClearWcid, WcidInRange, Critical
    <3>2. UNCHANGED <<table, uses>> \/ Cleared(wcid[r])
      BY <2>2 DEF ClearWcid, GiveUp, chipVars, Cleared
    <3>. QED  BY <3>1, <3>2 DEF EntryStep
  <2>3. CASE ~WriteWcid(r) /\ ~ClearWcid(r)
    BY <1>1, <2>3
    DEF Acts, ReaderStep, Loop, BulkData, BulkTimeout, BulkError, Connect, AddClient, Respond,
        LedOn, NewController, Disconnect, RemoveClient, LedOff, Packet, Pair, PairingError,
        GiveUp, DestructorStep, StopRumble, PowerOff, CloseInput, chipVars, EntryStep
  <2>. QED  BY <2>1, <2>2, <2>3
<1>2. ASSUME NEW t \in Thread, PairingStep(t) PROVE EntryStep
  BY <1>2, PairingUnchanged DEF EntryStep
<1>3. CASE MainActs
  BY <1>0, <1>3, MainOthers DEF EntryStep
<1>4. CASE Nudge \/ AirStep \/ UNCHANGED vars
  BY <1>4, NudgeUnchanged, AirUnchanged DEF vars, chipVars, EntryStep
<1>. QED  BY <1>1, <1>2, <1>3, <1>4, Steps

LEMMA MatchesStays ==
  ASSUME ChipType, EntryStep, NEW f \in Frame, Matches(f, table, uses)
  PROVE  Matches(f, table', uses')
<1> SUFFICES ASSUME f.wcid # NoWcid
             PROVE  /\ f.use <= uses'[f.wcid]
                    /\ f.use = uses'[f.wcid] => table'[f.wcid] \in {Nobody, f.from}
  BY DEF Matches
<1>0. /\ f.wcid \in Wcid /\ f.use \in Nat /\ uses[f.wcid] \in Nat
      /\ f.use <= uses[f.wcid]
      /\ f.use = uses[f.wcid] => table[f.wcid] \in {Nobody, f.from}
  BY DEF Frame, Matches, ChipType
<1>1. CASE UNCHANGED <<table, uses>>
  BY <1>0, <1>1
<1>2. ASSUME NEW w \in Wcid, Rewritten(w)
      PROVE  /\ f.use <= uses'[f.wcid]
             /\ f.use = uses'[f.wcid] => table'[f.wcid] \in {Nobody, f.from}
  <2>1. CASE w = f.wcid
    <3>1. uses'[f.wcid] = uses[f.wcid] + 1
      BY <1>0, <1>2, <2>1 DEF Rewritten, ChipType
    <3>. QED  BY <1>0, <3>1
  <2>2. CASE w # f.wcid
    <3>1. uses'[f.wcid] = uses[f.wcid] /\ table'[f.wcid] = table[f.wcid]
      BY <1>0, <1>2, <2>2 DEF Rewritten, ChipType
    <3>. QED  BY <1>0, <3>1
  <2>. QED  BY <2>1, <2>2
<1>3. ASSUME NEW w \in Wcid, Cleared(w)
      PROVE  /\ f.use <= uses'[f.wcid]
             /\ f.use = uses'[f.wcid] => table'[f.wcid] \in {Nobody, f.from}
  <2>1. uses' = uses /\ table'[f.wcid] \in {Nobody, table[f.wcid]}
    BY <1>0, <1>3 DEF Cleared, ChipType
  <2>. QED  BY <1>0, <2>1
<1>. QED  BY <1>1, <1>2, <1>3 DEF EntryStep

\* What is in an inbox after a step was there before, or was just delivered and bears
\* the number of the present use.
LEMMA InboxStep ==
  ASSUME TypeInv, [Next]_vars, NEW e \in Endpoint, NEW i \in 1 .. Len(inbox'[e])
  PROVE  \/ \E j \in 1 .. Len(inbox[e]) : inbox'[e][i] = inbox[e][j]
         \/ Matches(inbox'[e][i], table', uses')
<1>0. AirType /\ ChipType /\ ThreadType
  BY DEF TypeInv, TypeOK
<1> DEFINE Old == \E j \in 1 .. Len(inbox[e]) : inbox'[e][i] = inbox[e][j]
           New == Matches(inbox'[e][i], table', uses')
<1>1. CASE UNCHANGED inbox
  BY <1>1
<1>2. ASSUME NEW r \in Endpoint, BulkData(r) PROVE Old
  <2>1. inbox' = [inbox EXCEPT ![r] = Tail(inbox[r])] /\ inbox[r] # <<>>
    BY <1>2 DEF BulkData
  <2>2. inbox[r] \in Seq(Frame)
    BY <1>0 DEF AirType
  <2>3. \A k \in 1 .. Len(Tail(inbox[r])) :
          k + 1 \in 1 .. Len(inbox[r]) /\ Tail(inbox[r])[k] = inbox[r][k + 1]
    BY <2>1, <2>2
  <2>4. inbox'[e] = IF e = r THEN Tail(inbox[r]) ELSE inbox[e]
    BY <1>0, <2>1 DEF AirType
  <2>. QED  BY <2>3, <2>4
<1>3. ASSUME NEW r \in Endpoint, Acts(r), ~BulkData(r) PROVE Old
  BY <1>1, <1>3
  DEF Acts, ReaderStep, Loop, BulkTimeout, BulkError, Pair, PairingError, Connect, WriteWcid,
      AddClient, Respond, LedOn, NewController, Disconnect, RemoveClient, ClearWcid, LedOff,
      Packet, DestructorStep, StopRumble, PowerOff, CloseInput, GiveUp, airVars
<1>4. ASSUME NEW t \in Thread, PairingStep(t) PROVE Old
  BY <1>1, <1>4, PairingUnchanged DEF airVars
<1>5. ASSUME MainActs PROVE Old
  BY <1>0, <1>1, <1>5, MainOthers
<1>6. ASSUME Nudge \/ UNCHANGED vars PROVE Old
  BY <1>1, <1>6, NudgeUnchanged DEF vars, airVars
<1>7. ASSUME AirStep PROVE Old \/ New
  <2>0. UNCHANGED <<table, uses>>
    BY <1>7, AirUnchanged DEF chipVars
  <2>1. ASSUME NEW d \in Endpoint, NEW kind, NEW a, NEW w \in Wcid \cup {NoWcid},
               Deliver(d, kind, a, w), w # NoWcid => table[w] = a
        PROVE  Old \/ New
    <3> DEFINE f == [kind |-> kind, from |-> a, wcid |-> w,
                     use |-> IF w = NoWcid THEN 0 ELSE uses[w]]
    <3>1. inbox' = [inbox EXCEPT ![d] = Append(@, f)] /\ inbox[d] \in Seq(Frame)
      BY <1>0, <2>1 DEF Deliver, AirType
    <3>2. ASSUME w # NoWcid
          PROVE  f.use = uses[w] /\ uses[w] \in Nat /\ f.wcid = w /\ f.from = a
      BY <1>0, <3>2 DEF ChipType
    <3>3. Matches(f, table', uses')
      <4>1. f.wcid = w
        OBVIOUS
      <4>. QED  BY <2>0, <2>1, <3>2, <4>1 DEF Matches
    <3> HIDE DEF f
    <3>4. inbox'[e] = IF e = d THEN Append(inbox[d], f) ELSE inbox[e]
      BY <1>0, <3>1 DEF AirType
    <3>5. Old \/ inbox'[e][i] = f
      BY <3>1, <3>4
    <3>. QED  BY <3>3, <3>5
  <2>2. FrameEndpoints \subseteq Endpoint /\ EventEndpoint \in Endpoint
    BY DongleAssumption
  <2>3. ASSUME NEW a \in Client, NEW w \in Stamps(a)
        PROVE  w \in Wcid \cup {NoWcid} /\ (w # NoWcid => table[w] = a)
    BY DEF Stamps
  <2>4. ASSUME NEW a \in Client,
               Announce(a) \/ AnnounceAgain(a) \/ Input(a) \/ Disassociate(a)
        PROVE  Old \/ New
    BY <2>1, <2>2, <2>3, <2>4 DEF Announce, AnnounceAgain, Input, Disassociate
  <2>5. ASSUME NEW a \in Client, Associate(a) \/ AskAgain(a) \/ AskToPair(a)
        PROVE  Old \/ New
    BY <2>1, <2>2, <2>5 DEF Associate, AskAgain, AskToPair
  <2>6. ASSUME NEW w \in Wcid, LoseClient(w) PROVE Old \/ New
    BY <2>1, <2>2, <2>6 DEF LoseClient
  <2>7. CASE PressButton
    BY <2>1, <2>2, <2>7 DEF PressButton
  <2>8. ASSUME NEW a \in Client, Vanish(a) PROVE Old
    BY <1>1, <2>8 DEF Vanish
  <2>9. ASSUME NEW s \in Signals, Signal(s) PROVE Old
    BY <1>1, <2>9 DEF Signal
  <2> HIDE DEF Old, New
  <2>. QED  BY <1>7, <2>4, <2>5, <2>6, <2>7, <2>8, <2>9 DEF AirStep
<1> HIDE DEF Old, New
<1>8. Old \/ New
  BY <1>2, <1>3, <1>4, <1>5, <1>6, <1>7, Steps
<1>. QED  BY <1>8 DEF Old, New

\* What a reader has in hand, it had before, or took from the head of its inbox.
LEMMA FrameStep ==
  ASSUME TypeInv, [Next]_vars, NEW r \in Endpoint
  PROVE  \/ /\ frame'[r] = frame[r]
            /\ pc'[r] \in {"disconnect", "packet"} =>
                 pc[r] \in {"disconnect", "packet"} /\ wcid'[r] = wcid[r]
         \/ /\ inbox[r] # <<>> /\ frame'[r] = Head(inbox[r]) /\ wcid'[r] = frame'[r].wcid
<1>0. ThreadType /\ LocalType /\ AirType
  BY DEF TypeInv, TypeOK
<1> DEFINE Same == /\ frame'[r] = frame[r]
                   /\ pc'[r] \in {"disconnect", "packet"} =>
                        pc[r] \in {"disconnect", "packet"} /\ wcid'[r] = wcid[r]
<1>1. CASE UNCHANGED <<frame, wcid>> /\ pc'[r] = pc[r]
  BY <1>1
<1>2. ASSUME NEW s \in Endpoint, Acts(s), s # r PROVE Same
  BY <1>0, <1>2, ReaderOthers DEF Others, Abort, Thread
<1>3. CASE BulkData(r)
  BY <1>0, <1>3 DEF BulkData, LocalType
<1>4. CASE Acts(r) /\ ~BulkData(r)
  <2>1. frame' = frame
    BY <1>4
    DEF Acts, ReaderStep, Loop, BulkTimeout, BulkError, Pair, PairingError, Connect, WriteWcid,
        AddClient, Respond, LedOn, NewController, Disconnect, RemoveClient, ClearWcid, LedOff,
        Packet, DestructorStep, StopRumble, PowerOff, CloseInput, GiveUp, flowVars
  <2>2. pc'[r] \notin {"disconnect", "packet"}
    BY <1>0, <1>4, Threads, GotoLabel
    DEF Acts, ReaderStep, Loop, BulkTimeout, BulkError, Pair, PairingError, Connect, WriteWcid,
        AddClient, Respond, LedOn, NewController, Disconnect, RemoveClient, ClearWcid, LedOff,
        Packet, DestructorStep, StopRumble, PowerOff, CloseInput, GiveUp, Unlock, Return, Abort
  <2>. QED  BY <2>1, <2>2
<1>5. ASSUME NEW t \in Thread, PairingStep(t) PROVE Same
  <2>1. UNCHANGED <<frame, wcid>>
    BY <1>5, PairingUnchanged DEF flowVars
  <2>2. PICK label : Goto(t, label) /\ label \notin {"disconnect", "packet"}
    BY <1>5 DEF PairingStep, Beacon, Calibrate, LedPair, PairingError, Return
  <2>. QED  BY <1>0, <2>1, <2>2, Threads, GotoLabel
<1>6. CASE MainActs
  BY <1>0, <1>1, <1>6, MainOthers
<1>7. CASE Nudge \/ AirStep \/ UNCHANGED vars
  BY <1>1, <1>7, NudgeUnchanged, AirUnchanged DEF vars, flowVars
<1>. QED  BY <1>2, <1>3, <1>4, <1>5, <1>6, <1>7, Steps

LEMMA FreshStep ==
  ASSUME TypeInv, Fresh, [Next]_vars
  PROVE  Fresh'
<1>0. ChipType /\ AirType /\ LocalType /\ EntryStep
  BY Entries DEF TypeInv, TypeOK
<1>1. \A f \in Frame : Matches(f, table, uses) => Matches(f, table', uses')
  BY <1>0, MatchesStays
<1>2. ASSUME NEW e \in Endpoint, NEW i \in 1 .. Len(inbox'[e])
      PROVE  Matches(inbox'[e][i], table', uses')
  <2>1. CASE \E j \in 1 .. Len(inbox[e]) : inbox'[e][i] = inbox[e][j]
    <3>1. PICK j \in 1 .. Len(inbox[e]) : inbox'[e][i] = inbox[e][j]
      BY <2>1
    <3>2. inbox[e][j] \in Frame /\ Matches(inbox[e][j], table, uses)
      BY <1>0 DEF AirType, Fresh
    <3>. QED  BY <1>1, <3>1, <3>2
  <2>2. CASE Matches(inbox'[e][i], table', uses')
    BY <2>2
  <2>. QED  BY <2>1, <2>2, InboxStep
<1>3. ASSUME NEW r \in Endpoint
      PROVE  /\ Matches(frame'[r], table', uses')
             /\ pc'[r] \in {"disconnect", "packet"} => frame'[r].wcid = wcid'[r]
  <2>1. CASE inbox[r] # <<>> /\ frame'[r] = Head(inbox[r]) /\ wcid'[r] = frame'[r].wcid
    <3>1. 1 \in 1 .. Len(inbox[r]) /\ Head(inbox[r]) = inbox[r][1] /\ Head(inbox[r]) \in Frame
      BY <1>0, <2>1 DEF AirType
    <3>2. Matches(frame'[r], table', uses')
      BY <1>1, <2>1, <3>1 DEF Fresh
    <3>. QED  BY <2>1, <3>2
  <2>2. CASE /\ frame'[r] = frame[r]
             /\ pc'[r] \in {"disconnect", "packet"} =>
                  pc[r] \in {"disconnect", "packet"} /\ wcid'[r] = wcid[r]
    <3>1. frame[r] \in Frame /\ Matches(frame[r], table, uses)
      BY <1>0 DEF LocalType, Fresh
    <3>2. Matches(frame'[r], table', uses')
      BY <1>1, <2>2, <3>1
    <3>. QED  BY <2>2, <3>2 DEF Fresh
  <2>. QED  BY <2>1, <2>2, FrameStep
<1>. QED  BY <1>2, <1>3 DEF Fresh

\* Whatever fails, and in whatever order the two endpoints deliver and the readers
\* get the mutex, a frame or an event reaches the Controller of another gamepad only
\* if the WCID it bears was given away anew while it waited.
THEOREM OnlyReuseMisleadsFrames == Spec => []OnlyReuseMisleads
<1>1. Init => Fresh
  BY DongleAssumption DEF Init, Fresh, Matches, Thread
<1>2. ViewInv /\ Fresh /\ [Next]_vars => Fresh'
  BY FreshStep DEF ViewInv, SlotInv
<1>3. ViewInv /\ Fresh => OnlyReuseMisleads
  <2> SUFFICES ASSUME ViewInv, Fresh, NEW r \in Endpoint, pc[r] \in {"disconnect", "packet"},
                      frame[r].use = uses[wcid[r]]
               PROVE  controllers[wcid[r]] \in {Nobody, frame[r].from}
    BY DEF OnlyReuseMisleads
  <2>1. wcid[r] \in Wcid /\ frame[r].wcid = wcid[r]
    BY DEF ViewInv, SlotInv, TypeInv, WcidInRange, Fresh
  <2>2. wcid[r] # NoWcid
    BY <2>1, DongleAssumption DEF Wcid, NoWcid
  <2>3. table[wcid[r]] \in {Nobody, frame[r].from}
    BY <2>1, <2>2 DEF Fresh, Matches
  <2>4. controllers[wcid[r]] # Nobody => table[wcid[r]] = controllers[wcid[r]]
    BY <2>1 DEF ViewInv, Told
  <2>. QED  BY <2>3, <2>4
<1>. QED  BY <1>1, <1>2, <1>3, ViewInvariant, PTL DEF Spec
=============================================================================
