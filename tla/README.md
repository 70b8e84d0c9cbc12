# xow in TLA+

xow is a user-mode driver for the Xbox One wireless dongle: it loads the
firmware of the MT76 chip in the dongle over USB, runs the chip as an access
point that gamepads associate with, turns what they send into events of uinput
devices, and turns what games play on those devices into rumble packets.

This directory holds TLA+ modules that model the program, configurations that
check them with TLC, and proofs for TLAPS. `PROJECT.json` lists every run,
theorem, hazard and finding, and maps each definition to the lines it models.

    tlc -config DongleClients.cfg MCDongle       # a run
    tlapm DongleProofs.tla                       # proofs

## 1. Inventory of the system

**Threads.** `main` (the signal loop); two USB readers, one for each bulk
endpoint; for every connected gamepad a uinput *event thread* and a *rumble
thread*; the threads of libusb.

| Component | State | Operations | Interacts through |
|---|---|---|---|
| `xow.cpp` | signal masks, signalfd | start, find the dongle, loop, shut down | `InterruptibleReader`, `Dongle` |
| `dongle/usb.cpp` | device handle, hotplug callbacks | `getDevice`, control and bulk transfers | calls `terminate` on each failed transfer |
| `dongle/mt76.cpp` | `connectedClients`, MAC address; on the chip: WCID table, clients, LED, beacon, radio | firmware upload, registers, channels; `associateClient`, `removeClient`, `pairClient`, `sendClientPacket`, `setPairingStatus` | USB commands |
| `dongle/dongle.cpp` | `controllers[16]`, `controllerMutex`, `stopThreads` | two readers, one handler for each kind of frame or event | `Mt76`, `Controller` |
| `controller/controller.cpp` | rumble thread, buffer, condition, `stopRumbleThread` | announcement, inputs, effects, destruction | `InputDevice`, `GipDevice`, `Buffer` |
| `controller/input.cpp` | uinput file, event thread, `effect`, `effectGain` | create, emit, upload, erase, play | callback into `Controller` |
| `controller/gip.cpp` | `sequence`, `accessorySequence` | dispatch, acknowledge, send | `sendPacket`, from several threads |
| `utils/buffer.h` | three blocks, `queued` | `put`, `get` without a lock | event thread, rumble thread |
| `utils/reader.cpp` | pipe, `prepared` | `prepare`, `read`, `interrupt` | main and event threads |
| `utils/bytes.h` | a vector of bytes | append, pad, cut, overlay of structures | every handler and command |
| `utils/log.*`, `Makefile`, `install/` | none of their own | output, scripts | not modelled |

**What is hard here.** Frames of one gamepad arrive on two endpoints and are
handled by two threads; identifiers (WCIDs) are reused; every command to the
chip is a USB transfer that may fail in the middle of an operation, and nothing
is undone; three threads meet in a `Controller` whose destructor has to end two
of them; a lock-free buffer and a sequence number shared without a lock; a stop
request that must not be lost, whatever it overtakes; a chip that works on its
own while the host polls; headers, end markers and two kinds of padding that every
handler has to skip by the right number of bytes.

**What makes each part correct.** The host and the chip agree on who is connected;
a frame goes to the Controller of its sender; every gamepad that was connected is
told to power off, and hears nothing after that; buffers never race and lose no
newest value; threads end when they are told to and use nothing that is gone; the
firmware arrives whole; values of the EFUSE are decoded from their own place; a
handler sees the bytes its sender meant; signals and failures end the process, in
every phase.

## 2. Modules

| Module | Models | Extends or uses |
|---|---|---|
| `Mailbox` | the promise of `utils/buffer.h`: values, and a flag that changes apart from them | - |
| `Buffer` | `put()` and `get()`, each atomic operation a step, each copy an interval | implements `Mailbox` |
| `AccessPoint` | the promise of the dongle: numbered slots that are free, reserved or hold a gamepad | - |
| `Dongle` | both readers, all handlers, the client operations of `Mt76`, `main()`'s loop and the shutdown | implements `AccessPoint` |
| `Controller` | announcement, rumble and event thread, destruction, GIP sequence numbers, the interruptible reader | uses `Mailbox` as its buffer |
| `Rumble` | uinput events to rumble requests, with the arithmetic | - |
| `Startup` | `main()` from its start to its end: signal masks, hotplug, the pipe of `signalReader`, the constructor of `Mt76` with its failures, the destructors in outline | - |
| `Firmware` | `loadFirmware()` and a chip that copies, in whatever state an earlier process has left it | - |
| `Efuse` | `efuseRead()` and the EFUSE controller of the chip | - |
| `Registers` | the constructor of `Mt76` from the firmware to the channels: radio, trim of the crystal, address, calibrations | extends `Efuse` |
| `Channels` | `initChannels()`: power tables, candidates, and the beacon that ends the constructor | extends `Registers` |
| `Framing` | the layout of every command and packet that is written, and what the chip transmits of it | - |
| `Inputs` | `inputReceived()`, `guideButtonPressed()`, the keys and axes of `initInput()` | - |
| `Gip` | a transfer on its way through `handleBulkData()`, `handleWlanPacket()`, `handleControllerPacket()`, `handlePacket()`, and the messages in answer | extends `Framing`, `Inputs` |
| `MC...` | values of constants for TLC | the module of that name |
| `BufferProofs`, `DongleProofs`, `ControllerProofs`, `RumbleProofs`, `FirmwareProofs`, `StartupProofs`, `ChannelsProofs`, `GipProofs` | theorems | the module of that name |

How they fit: `Startup` stops where the main loop of `Dongle` begins, and takes
the firmware upload, which is `Firmware`, and each part of the constructor, which
are `Registers` and `Channels`, as single steps; so it does with the destruction of the
dongle, which may hang. `Dongle` constructs a Controller in one step and destroys it in
three, the notification of its rumble thread and the two joins; what happens inside is
`Controller`, whose owner is the thread that `Dongle` shows to be alone
(`MutualExclusion`). What `ControllerJoin` shows of those joins, that they may wait for
ever, `Dongle` takes over as a set: `deaf` are the Controllers that have a thread which
was not told to end. `Controller` uses `Mailbox` for its
buffer, which `BufferProofs` shows `Buffer` to implement, and numbers its requests; what is in
a request is `Rumble`. `Dongle` says to *which* Controller a frame goes and when; `Gip`
says *what* the handlers see of its bytes.

### Correspondence

*Dongle.* A reader's `pc` is the command it executes next: `connect`, `writeWcid`,
`addClient`, `respond`, `ledOn`, `newController` are `handleControllerConnect()`
with `associateClient()`; `disconnect`, `stopRumble`, `powerOff`, `closeInput`,
`removeClient`, `clearWcid`, `ledOff` are `handleControllerDisconnect()` with
`~Controller()`, which the main thread runs too when the array of controllers is
destroyed, and `removeClient()`; `packet` is `handleControllerPacket()`; `pair`, `beacon`,
`calibrate`, `ledPair` are `handleControllerPair()` and `setPairingStatus()`, which
`main()` runs too. `connectedClients` is the set of the bits that are set. Each
command either succeeds or (`GiveUp`) interrupts the main thread and returns from
the handler. A thread of a Controller in `deaf` ends only when something else wakes it
(`Wakes`), and until then the destructor waits, with the mutex if it is a reader's.
`uses` counts how often an entry of the chip's table was written with an address, and
each frame carries the count at the time it was sent, so that a property can say of a
frame that its WCID was given away anew. `table`, `registered`, `led`, `beacon` and `radio` are what the chip
holds of these commands. An exception that leaves a thread ends the process
(`Abort`).

*AccessPoint* sees of that only the slots: one whose bit is set and that has no
Controller is reserved (`Content`), an interruption is a fault, and the labels of the
main thread are phases.

*Controller.* `owner` walks through the announcement and through the
destructors, `rumble` through `processRumble()`, `event` through
`InputDevice::readEvents()` and the callback. `getSequence()` is two steps, the
look for zero and the increment, because nothing keeps the threads apart; `overtaken`
are the threads between the two while another takes its number, and `raced` says whether
the last packet was sent by one of them. `stopLost` says that the stop signal could not
be written to the pipe of the event thread. `alive`
is the set of members that are not destroyed, and `UseDestroyed` lets their use be
fatal or go unnoticed.

*Firmware, Efuse, Registers, Channels.* A control transfer that fails is not told to
the caller: reads give zero, writes are lost, and the procedure goes on, while the
main thread has been asked to stop. A command that fails ends the constructor, but
for `configureChannel()`, whose result is ignored. The chip's copying and reading are
steps of their own. `efuseRead()` is called with the name of its purpose (`by`), so
that the history `disturbed` can tell whose reading something has failed in. The
sixty registers that get constants are one step, `WriteRegisters`. `Restart` ends or kills
the process that loads the firmware at any place and starts another one, which finds the
registers and the memory of the chip as they are; `misled` says that its check of
`MT_FCE_DMA_ADDR` found a chip whose register does not show what it does (`Misleading`).

*Startup.* `ConstructorSteps` is the order of the constructor of `Mt76` with the
ways each step may fail. `broken` says that the pipe of `signalReader` could not be made
(`prepare()` returns, and `main()` goes on with a reader whose `interrupt()` does
nothing) or could not be written to. `Destroy` stands for `~Dongle()`, and `Hang` for
one that waits for a thread of a Controller; whether it is ever back (`Resume`) is left
open.

*Framing, Gip.* A byte is the structure it belongs to and its place in it, never a
value. So `Bytes` is modelled by what it does: cutting is `SubSeq`, padding appends
bytes called zero, and `toStruct()` gives the bytes that really are there, or
`Beyond`. The fields that handlers branch on (type, subtype, port, WCID, command,
device, flag, length) are fields of the transfer. One handler is one action; what
it writes is put in `outgoing` and written message by message, each of which may
fail. `looked` records what was looked at and what was found there.

## 3. Runs

Passing runs. `FairSpec` is named where fairness is used.

| Run | Instance | Shows |
|---|---|---|
| `Buffer` | 4 puts | `NoDataRace`, `NewestDelivered`, `ImplementsMailbox` |
| `DongleClients` | 2 slots, 2 gamepads, 2 readers, 4 occurrences, USB failures | `TypeOK`; a Controller and its rumble thread are only in a slot whose WCID is taken; the chip knows the gamepad of every Controller, and host and chip agree between handlers; the LED is not dark while somebody is connected; everybody was powered off when the radio is; only a WCID given away anew misleads a frame; all of it implements the access point |
| `DongleLive` (`FairSpec`) | 1 slot, 2 readers, all traffic, all signals, all failures, 3 occurrences | the process ends once it was told to; a WCID that is taken gets a Controller or is free again; both unless a destructor hangs |
| `ControllerAll` (`FairSpec`) | 2 announcements, 3 plays, 3 sequence numbers, all failures | a packet has the number zero only if two threads met in `getSequence()`, nothing follows POWER_OFF, no thread outlives its Controller, `~InputDevice()` returns |
| `RumbleAll` | 5 events, largest magnitude, three gains, durations beyond a byte, all failures | motor powers stay in range; a request is made of the effect and gain in force at the play; times; erased effects are quiet |
| `FirmwareLoad` (`FairSpec`) | parts of 3 and 2 bytes, chunks of 2, 3 processes | complete and in place, never under a running firmware, no register changes under a copy, loading ends; the first three unless the check was misled |
| `StartupAll` (`FairSpec`) | 3 dongles of 2 ids, 2 signals, all failures, those of the pipe included | signals kill only before the chip is touched, no failure is forgotten, a dongle is found, the process ends when asked; the second and the last unless the pipe failed, or a destructor hangs |
| `ChannelsInit` | the 12 channels, 72 contents of the EFUSE, one failure of any kind anywhere | every channel gets the power of its own table, the crystal the trim that is meant, the chip one address; a dongle that is ready is complete |
| `GipTransfers` | transfers of every kind and size, 16 WCIDs, failing writes | handlers look at the structures they mean, a transfer is taken for what it means and acknowledged first, the chip transmits what was put in, events are ones the device was created with |

Runs that find a violation, each of a sentence in the repository (`findings` in
`PROJECT.json` quotes it):

| Run | What happens |
|---|---|
| `DongleStale` | a frame waits for the mutex in one reader while the other frees its WCID and gives it to another gamepad |
| `DonglePairing` | the reader that ends pairing and `main()`, which begins it on SIGUSR1, are in `setPairingStatus()` at once: the LED blinks and the beacon announces nothing |
| `ControllerJoin` | the destructor notifies between the rumble thread's check and its wait, and joins for ever |

Further configurations are kept beside these runs for what the code does not promise,
and for one counterpart. Each is started like a run, `tlc -config BufferOrder.cfg
MCBuffer`:

| Configuration | Module | Outcome |
|---|---|---|
| `BufferOrder` | `MCBuffer` | `NeverGoesBack` is violated: `get()` takes a value between `put()`'s exchange and its store of the flag (`buffer.h:42`); the next `get()` swaps an older block back in |
| `DonglePairingSerial` | `MCDongle` | `BlinkIsPairing` holds with one endpoint and no SIGUSR1: two callers are the cause of `DonglePairing` |
| `DongleAbort` | `MCDongle` | `NoAbort` is violated: an input overtakes the announcement on the other endpoint, and the exception ends the process (`input.cpp:61`); with one endpoint a second announcement does it |
| `ControllerMembers` | `MCController` | `NoUseAfterDestroy` is violated: the event thread is in the callback while buffer and condition are destroyed; the device, which waits for it, was declared first and goes last (`controller.h:61`) |
| `ControllerWakeup` | `MCController` | `RumbleTaken` is violated: a request is queued between check and wait and stays (`controller.cpp:264`) |
| `ControllerReannounced` | `MCController` | `NeverZero` is violated: a second announcement makes two threads send, and one counts the number to zero under the other (`gip.cpp:248`) |
| `RumbleShort` | `Rumble` | `DurationKept` is violated: 1 to 9 ms become 2550 ms (`controller.cpp:352`) |
| `RumbleMany` | `Rumble` | `PlayedIsNotStopped` is violated: 256 repetitions become none (`input.h:40`) |
| `FirmwareRestart` | `Firmware` | `RestartSafe` is violated: a process that dies after it has started the firmware and before that has put its mark in `MT_FCE_DMA_ADDR`, or between a reset and its first chunk, misleads the check of the next one (`mt76.cpp:1433`) |
| `ChannelsLimits` | `MCChannels` | `WithinLimits` is violated: a target without an offset is not limited (`mt76.cpp:1799`). With `INVARIANT TrimInField` instead that is violated: an offset that makes the trim negative or too large sets bits of `MT_XO_CTRL5` beyond its field (`mt76.cpp:1352`) |

Every property of a passing run has a mutant in `PROJECT.json`: a definition of
the code changed as a plausible bug would, which TLC then finds. The mutated forms
stand in a section of each module.

### Bounds

- `WcidCount`, `Client`: two slots and two gamepads let every WCID be reused by
  another gamepad, and one slot is full with one; sixteen add nothing but names
  (the theorems hold for every number).
- `Endpoint`: always the two of the dongle, but for `DonglePairingSerial`.
- `MaxFrames` in `Dongle` bounds frames, events and signals together. A stale
  frame needs four (associate, a frame, disassociate, associate), which is what
  `DongleClients` has (1.5 million states). `DongleLive` has one slot and one gamepad,
  because with every kind of occurrence and failure three of them are 500 000 states;
  a handshake, a disconnection and a signal are three.
- `MaxPuts = 4`: a block is back with the producer after three.
- `SequenceCount = 3` and three plays let a number wrap; 256 would need 256 packets.
- `MaxAnnounces = 2`: one that creates the device, and one that meets the threads of the
  first; at the latest the second creation ends the process. More plays only repeat the
  loop.
- `MaxEvents` in `Rumble`: upload, gain, play, upload, erase.
- `WordMax = 32767`: the integers of TLC have 31 bits, and a product of two 16-bit
  values does not fit. The formulas are the same, the rounding they are checked
  for does not depend on the 16th bit, and `RumbleProofs` has no such bound.
- `ShareMax`: sine and cosine are any multiple of 1/`ShareMax`, a superset of what
  an angle can give.
- `Firmware`: one part that the chunk size divides and one it does not. `MaxRestarts =
  2`: a process that leaves the chip running, one that dies in the middle of the reset and
  upload that this makes necessary, and one that meets what the two have left.
- `Contents` in `MCChannels`: targets at both limits and between, and the one from
  which the eight-bit sum could overflow; shifts that are off, or on with either sign
  and the least and the largest size; trim values that are there, missing in either
  way, or have their eighth bit set; an address of the vendor and one of another.
- `MaxFailures = 1` in `Channels`: a failure at any step; that it does not spoil what
  comes after is the question. `ChannelsProofs` has no bound.
- `Arriving` in `MCGip`: whole packets of each command with every length up to two
  bytes beyond the largest, and whole transfers cut to every size.
- `MaxSignals = 2` in `Startup`: one that is pending and one that follows.

`CHECK_DEADLOCK FALSE` is set for `Controller` (runs that look for a join that never
returns stop there), `Rumble` and `Channels` (the games and the initialisation are
at an end). In `Dongle`, `Firmware` and `Startup` the process that has ended stutters,
`Gip` always reads on, and deadlock is checked.

### Fairness

Threads are scheduled: a thread that can run does (`WF` for each thread). USB
transfers end, if only by their timeouts, so a command either succeeds or fails.
Nothing is assumed of gamepads, games, the user, failures or spurious wakeups:
none of them ever has to happen, and no fair action consists of a failure alone.
In particular nothing is assumed of what would wake a thread that was not told to end
(`Wakes` in `Dongle`, `Resume` and `PollUnset` in `Startup`): a destructor that waits for
such a thread may wait for ever, and `Ends`, `SlotsSettle` and `EndsWhenAsked` say
explicitly that they are about executions in which none does.
The chip is not fair in `Firmware`; loading ends because time passes (`Timeout`). In
`Startup` an arrival is reported by libusb once `main()` handles events.

### Assumptions about what is outside

The modules name external parts: the chip, the gamepads, the kernel, libusb.

- A USB command that is reported as failed had no effect on the chip.
- The chip stamps a frame with the WCID under which its table holds the sender;
  identifiers that the handlers reject are one value.
- A gamepad that vanishes comes back only after the chip has reported it lost, and
  only clients that were added are reported.
- The kernel handles one upload or erasure at a time and stops an effect before
  it erases it.
- The chip copies a chunk to where `MT_FCE_DMA_ADDR` points when it copies; the
  EFUSE controller serves the block it was asked for last.
- The chip puts a header and an end marker around what it delivers, aligned to four
  bytes, and finds the frame of a message behind `TxWi`.
- Signals of one kind coalesce.
- Resetting the USB device (`usb.cpp:40`) drops the chunks that the chip has not copied
  and changes nothing else of the chip.
- The chip shows the end of a reset, and a firmware that runs, in `MT_FCE_DMA_ADDR`, some
  time after it was told to reset or start.

## 4. Proofs

The proofs are for every value of the constants that satisfies the assumptions named
in the modules (`DongleAssumption` and so on): any number of slots, gamepads,
endpoints, puts, plays, signals, failures, and parts and chunks of any length. Each
module of proofs states its inductive invariant first and shows that it holds
initially and is kept by each action; the theorems come last.

*`BufferProofs`*. The inductive invariant is `TypeOK` with
`Exclusive`: the block of the producer, the middle one and the block of the consumer
are three different ones, where the block of a side is `previous` while it is
between its exchange and its store. Without that clause the claim is false in the
middle of `put()` and is not inductive. From it follow `NoRace`
(`NoDataRace`), `NewestIsDelivered` (with a clause that says where the newest value is
while the flag is on its way), and `BufferImplementsMailbox`: each step of `Buffer` is
a step of `Mailbox` or changes none of its variables, because a copy into the
producer's block does not touch the other two.

*`DongleProofs`*. `TypeCorrect` needs that the bit `associateClient()` takes is a slot's:
`FirstFreeIsFree` says that a non-empty set of free WCIDs has a least one.
`Exclusion` is an invariant by itself beside the types: a label between lock and
unlock is held exactly by the thread in `controllerMutex`. `SlotsHoldWcids` builds on both:
only a thread that has the mutex changes `controllers` or `connectedClients`, and
between `stopRumble` and `removeClient`, and between `connect` and `newController`, a clause
says what the WCID at hand is. The other two readers' steps cannot disturb it because
of `Exclusion`.

Who is connected: `ViewInv` strengthens that by what each handler knows of the slot it
works on whatever has failed (`Held`), and by what the chip was told of the gamepad of each
Controller and of each one that is about to get one (`Told`), which no failure takes back:
this is the first half of `ViewsAgree`. As long as nothing has failed, `AtWork` says label by
label which of the four views a handler has changed already; by where the LED is on its way to (`Lit`); by where every gamepad that
believes to be connected is (`ClientInv`); and by how far the destructor has come
(`Ending`). `FourViewsAgree`, `ConnectedIsLit` and `NobodyIsLeftOn` are what is left of it when no
handler is under way, or at the end. `AccessPointIsImplemented` shows that each step of a thread
is a step of `AccessPoint` or leaves the slots alone. The step that needs most is
`Reserve`: that no other slot is reserved follows from `Views` and `Exclusion`, or else
something has failed; and that the bit is the first that is free, from the lemma above.

The last part, `OnlyReuseMisleadsFrames`, is about every frame and event, those included that
wait in a line, in any number of endpoints: `Fresh` says that the entry a frame was stamped
with was either written anew since (its count in `uses` is larger), or still holds the
address of the sender, or was cleared. Entries are only ever written with a count that grows
or cleared (`EntryStep`), so that no step of any thread breaks it; and since by `Told` the
Controller in a slot is that of the address in its entry, a frame whose entry was not
written anew meets its own Controller or none. No assumption is made of the order of
delivery, of the threads or of failures.

*`ControllerProofs`*. `Joins` says what has ended by the time the owner is at which of its
destructors, from which `ThreadsAreGone` and `NothingFollowsPowerOff` follow.
`NumbersAreValid` holds for any number of announcements: a number that was looked at is not zero
until another thread takes it, that is, as long as its thread is not in `overtaken`
(`Checked`), so that a zero is only sent by a thread that was. That nobody is overtaken up to the
first announcement is `Once`, with `Alone`: the handshake comes before the rumble thread is
started, which has ended before POWER_OFF. With a second announcement two threads do
meet (`ControllerReannounced`).

*`RumbleProofs`*. The lemmas on arithmetic bound a product that is divided by the bound of one
of its factors, for all integers. The invariant describes the queue of events: which
effect and gain are in force at each place of it, and that an erasure waits right
behind a stop. `EffectIsPassed` and `ErasedStaysQuiet` follow from
what is at its head.

*`FirmwareProofs`*. The induction over the chunks of a part is in `MemoryInv`: the first
`chunk` bytes are in their place, and `DmaInv` and `CopyInv` say what is on its way. All of
it is under the condition that no transfer has failed in this process and that its check was
not misled (`Clean`); that a process is not misled is needed once, for `ChipInv`, which says what
the chip does at each place of the host after the check. Before the check nothing is known of
the chip but that the USB reset has dropped what it had not copied (`StartInv`), whatever
earlier processes did and wherever they died. That the second part does not
overwrite the first follows from the assumption that they do not overlap.

*`StartupProofs`*. One invariant: signals that were blocked for good stay blocked in the thread
that libusb started under the mask; and from `prepare()` on, which comes before the first
transfer, the reader can be interrupted, or was already, or its pipe does not work
(`broken`).

*`ChannelsProofs`*. `ReadInv` is that a reading which nothing disturbed holds the bytes of its
own address: it asked for its block, waited for it, and takes registers in order.
It holds in the whole constructor whatever failed before. On it rest `PowersAreOfOwnTables` (if the
targets are at most 64, as beyond it target and offset overflow eight bits),
`CrystalIsTrimmed`, and `AddressIsOne` (if an address that begins with 62 is of the range
62:45:bx, because the code corrects the others only).

`ReadyDongleIsComplete` says that nothing is missing at the end: `ToldInv` ties every
place of the constructor to the set of the commands that were obeyed until then, `ReadyInv`
says that all channels before the current one have a power, and that enabling was not
lost, unless the failure of a control transfer, which nobody is told of, has interrupted
the process.

*`GipProofs`*. It assumes of the transfers only that they are laid out as chip and gamepads
lay them out (`TransfersAssumption`, which TLC evaluates for those of `MCGip`): the bytes
agree with `Layout` as far as both go, and a transfer that is not cut has all of the layout and
an end marker. Lengths, identifiers, inputs and what follows are arbitrary, and a
transfer may be cut anywhere. For the messages even that is not needed: `WrittenInv` says
that nothing is written but a finite set of forms, and for each form, with a packet of any
length, lemmas follow the offset of each structure through the concatenations and paddings
to where the chip looks for it (`ClientPacketIsTransmitted`, `WlanPacketIsTransmitted`,
`BeaconIsTransmitted`). For the transfers `PlaceInv` says behind how many bytes the window of each
handler begins, and for which transfers it is called at all: the clause without which a
handler could look for a structure that is not there. `LooksAreRight` follows, and
with it `TransfersAreUnderstood`: `Meaning` says, without regard to sizes, offsets or the order of
calls, what the sender wants, and `HeardInv` how much of it the handlers have done, so that
none of their checks of a size can turn a whole transfer away. `EventsArePassed` is about
the values: every input packet, with the sticks at either end of sixteen bits, gives
events within the ranges of the axes.

Every invariant that a passing run checks is also a theorem. Liveness is out of the
prover's reach and stays with TLC (`Ends`, `SlotsSettle`, `DeviceCloses`, `LoadEnds`,
`DongleFound`, `EndsWhenAsked`).

## 5. Not modelled

- The values of fields that are written into structures (addresses, flags, rates,
  keys); their layout and lengths are in `Framing`.
- The values of the sixty registers that `initRegisters()` sets to constants.
- Logs, and `statusReceived()`, `serialReceived()` and `announceReceived()` as far as they only log.
- Fuzz and flatness of the axes, the identity of the input device and the
  compatibility mode.
- `rumbleMutex` (one thread uses it) and `RUMBLE_DELAY` (merged with the sending).
- Libusb devices that are unplugged while they are opened; libusb itself.
- The members of a Controller in `Dongle` (`Controller` has them), and which of its two
  threads a destructor waits for.
- A game that plays without pause (the inner loop of `processRumble()`,
  `controller.cpp:266`): the number of plays is bounded.
- The build rules and the scripts for installation.

## 6. Plan

Built, most important first: `Buffer`, `Dongle`, `Controller`, `Rumble`, `Firmware`,
`Startup`, `Channels`; then `AccessPoint` with its refinement, `Efuse`, `Registers`, `Framing`,
`Inputs`, `Gip`; and the proofs of all of them. Left:

1. What a gamepad that repeats its association request, and so has two entries, may
   meet: `OnlyReuseMisleads` speaks of each entry by itself.
2. The safety part of what is only checked as liveness: that whoever waits for
   `controllerMutex` or for a join waits for a thread that has a step of its own.
3. A composition of `Dongle` with `Controller` for one slot. `Dongle` takes over from
   `Controller` that a destructor may hang, as the set `deaf`; that its three steps of a
   destructor abstract those of `Controller` is argued here and not checked.
