# Verification project for DesignLab

DesignLab is an Arduino IDE (Java) together with the runtime libraries it
compiles into a sketch (C and C++, for AVR, SAM and the ZPUino soft core) and
the firmware of the boards. The IDE serves one user at one screen; the logic
that is hard to get right is in the runtime, where a sketch shares memory with
interrupt handlers, a board talks to a host over a line that loses bytes, and
tasks share one CPU. This directory models that logic in TLA+, checks it with
TLC and proves part of it with TLAPS.

    tlasany M.tla                        parse a module
    tlc -config serial_tx.cfg MCHardwareSerial.tla
    tlapm HardwareSerialProofs.tla       check the proofs

`PROJECT.json` lists the components, the runs, for every property a mutated
definition that breaks it, the source lines of every definition, the findings,
the hazards of the code, and the theorems.

## 1. Inventory

Paths are under `src/`.

| Component | State it keeps | Operations | Interaction | What is hard | What makes it correct |
|---|---|---|---|---|---|
| **AVR HardwareSerial**: `hardware/arduino/avr/cores/arduino/HardwareSerial.cpp`, `HardwareSerial_private.h` | a transmit and a receive ring (head, tail, bytes), `_written`, the USART's flags | `begin` `end` `write` `flush` `available` `peek` `read`, two interrupt handlers | handlers share the rings with the sketch; `write` and `flush` poll the transmit handler when interrupts are off | an interrupt between any two steps of a call; full and empty rings; TXC and UDRIE, which say when a handler is needed and when a flush is over | bytes leave in order, each once; a queued byte always has a handler coming; `flush` ends only when the line is quiet; the receive side is a FIFO that drops only when full |
| **SerPro3 HDLC link**: `hardware/zpuino/libraries/SerPro3/serpro/SerProHDLC.h` | master: `txQueue` (8 slots, a window of one), an input queue, two timers, `rxNextSeqNum`, link flag; slave: `txSeqNum`, `rxNextSeqNum`, link flag; both: frame buffer, CRC | `queueTransmit`, `startLink`, timer callbacks, one handler per kind of frame, `processData` | frames over the serial port; upcalls to SerPro | lost, corrupted and repeated frames; numbers modulo 8; timers racing answers; setting the link up a second time; a slave that restarts | every packet reaches the application once, in order; a packet is freed only when it has; none is forgotten; the link comes up |
| **SerPro3 calls**: `.../serpro/SerPro.h` | callback table, table of replies, packet being parsed | `connect`, `send`, `wait`, `callFunction`, `deferReply` | above the link; `wait` runs the event loop inside a call | late replies kept for a later call of the same function; nested waits | each call gets its own reply |
| **AVR two-wire driver**: `hardware/arduino/avr/libraries/Wire/utility/twi.c` | `twi_state`, error, three buffers with indices, `twi_sendStop`, `twi_inRepStart` | `twi_readFrom` `twi_writeTo` `twi_transmit`, a handler with 27 statuses | the calls spin on state the handler changes; slave callbacks run in the handler; other masters on the bus | claiming the driver in two steps; lost arbitration; refused bytes; full buffers; repeated starts | a call tells the truth about the bus, reads and writes no byte more or less, and returns; a slave transfer is served whole |
| **Wire library**: `.../Wire/Wire.cpp` | one receive and one transmit buffer, `transmitting`, user callbacks | `requestFrom` `beginTransmission` `endTransmission` `write` `read`, two services called by the driver | calls and is called by the driver | a slave callback in the middle of a `requestFrom` | data of a read is not overwritten before it is taken |
| **ZRT**: `hardware/zpuino/zpu20/cores/zpuino/zrt_task.c` | list of tasks, current task, mutexes with wait queues | `zrt_createTask`, `zrt_schedule`, `zrt_mutex_lock`, `_unlock`, `zrt_sleep` | timer interrupt switches tasks | a wake-up that comes before the sleeper joins its queue; a tick in the middle of a switch | mutual exclusion; no lost wake-up |
| **ZPUino timers**: `.../cores/zpuino/Timer.cpp` | two timers, one `m_intrTimer` per handler class | `acquire`, `singleShot`, `periodic`, `cancel` | handlers call user functions | a timer forgotten but not released; two timers, one variable | a timer in use is not given away; one released is available |
| **SAM serial ports**: `hardware/arduino/sam/cores/arduino/{RingBuffer,UARTClass,USARTClass}.cpp` | one receive ring | as AVR, with a polled transmitter | interrupt handler | as the AVR receive side | as the AVR receive side |
| **USB device stacks**: `.../USBCore.cpp`, `CDC.cpp` | endpoint FIFOs, configuration, line state | control requests, `Send`, `Recv` | interrupt handler | endpoint shared by sketch and handler | bytes in order |
| **AVR core**: `wiring.c`, `WInterrupts.c`, `Tone.cpp` | tick counters, handler table, tone state | `millis` `micros` `attachInterrupt` `tone` | timer interrupt | multi-byte counters read while they change | time does not go back |
| **Other AVR libraries** (`SoftwareSerial`, SPI, EEPROM, ...) | little | register sequences | - | exact timing | - |
| **Bootloaders and firmwares** (`optiboot`, `stk500v2`, `Caterina`) | page buffer, address | command loop | host programmer | watchdog, partial pages | a page is written as sent |
| **IDE: upload and discovery** (`SerialUploader.java`, `NetworkDiscovery.java`) | list of ports, process handles | upload, 1200-baud touch, service callbacks | threads, timers, child processes | a port that disappears and returns | the right port is used |
| **IDE: editor, compiler driver, preferences** | documents, settings | user actions | Swing | user interface | - |
| **ZPUino libraries and sketches** (`cbuffer`, players, drivers) | rings, decoders | - | - | - | - |
| **VHDL, toolchains, CMSIS, lwIP, javadoc, build scripts** | vendored, generated, or not software | - | - | - | - |

The serial port, the link with its framing, the two-wire driver, the Wire
library and ZRT are modelled, the first completely, the others but for the
parts `PROJECT.json` names. Section 7 says why the rest is not, and section 8
what comes next.

## 2. Modules

| Module | Models | Checked by | Proved in |
|---|---|---|---|
| `Rings` | index arithmetic of the ring buffers | through `HardwareSerial` | `HardwareSerialProofs` |
| `LossyFifo` | abstract: a bounded FIFO that drops an element only when full | `serial_duplex` | `HardwareSerialProofs` |
| `HardwareSerial` | the AVR serial port | `serial_*` | `HardwareSerialProofs` |
| `PacketChannel` | abstract: packets delivered in order, each once, and confirmed only if delivered | `link_safety` | `HDLCLinkProofs` |
| `HDLCLink` | both ends of the SerPro3 link and the line between them, frame by frame | `link_*` | `HDLCLinkProofs` |
| `HDLCFraming` | how one end of that link finds frames in the bytes it receives | `hdlc_framing` | `HDLCFramingProofs` |
| `Twi` | the two-wire driver, its bus, a foreign master | `twi_*` | `TwiProofs` |
| `Wire` | the Wire library: its buffers, the sketch's calls and the two callbacks | `wire` | `WireProofs` |
| `Zrt` | tasks, mutexes, sleep and the tick | `zrt` | `ZrtLists`, `ZrtProofs` |

`Induction` holds lemmas for the proofs: induction over the numbers up to a bound, and
functions defined by recursion.

`HDLCFraming` justifies the line of `HDLCLink`: it shows that bytes lost or
changed, and frames sent in the middle of a received one, do no more than lose
frames, which is what `HDLCLink` assumes. `Wire` takes from `Twi` that a call
waits and then copies, and that the callbacks come from the handler, so at any
moment. Neither pair is composed in one run: the product of their steps would
be too large for bounds that mean anything.

The `MC` modules give TLC a root of their own for each component; the constants
have their values in the `.cfg` files. Data are numbers that make loss,
repetition and reordering visible: the n-th byte, packet or call carries n.
Variables called *history* in a module are read by no guard of the code's
actions: they record what a property needs.

### HardwareSerial

`pc` is the place of the main thread in a call. A call is split where it reads
or writes something a handler also touches: `write()` is `WriteTestEmpty`,
`WriteTestUdre`, `WriteDirect`, `WriteClearTxc` (the shortcut, lines 205-209),
`WriteWait` and `WriteRoom` (the loop, 214-224), `WriteStore` (227),
`WritePublish` (228) and `WriteEnable` (230, with `_written`). `flush()` is
`FlushTestWritten`, `FlushPoll` and `FlushReturn`, `read()` is `ReadTestEmpty`,
`ReadTake` and `ReadAdvance`. `begin()` is `Begin` (up to line 131) and then four
changes of UCSRB (132-135), `end()` is `EndDrained` (141), four changes
(144-147) and `EndDiscard` (150). Such a change is a load and a store of the
register (`UcsrbLoad`, `UcsrbStore`), so a handler that clears UDRIE in between
finds it set again; that matters when `begin()` is called on an open port. A
handler is one step, because the AVR does not nest interrupts; it may come
between any two steps of a call while `sregI` is set. Where `write()` and `flush()`
call the handler themselves, `TxUdrEmptyIrq` is part of their step. Head and tail
are one byte wide for rings up to 256 slots, so one access is atomic.

External: the USART. `LoadShift` and `ShiftDone` move a byte through the data
and the shift register and set TXC; `Arrive` puts a byte in the two-deep
receiver or, when that is full, loses it. `ShiftDone` does not come between the
two instructions of the shortcut unless an interrupt delays the second: a frame
takes thousands of cycles.

`raced` (history) records that UDRIE was set on an empty ring, by `write()` (see
the finding of `serial_drie`) or by a change of UCSRB in `begin()`; `TxFifo`,
`NoStall`, `WriteReturns` and `EndReturns` are about executions where that has not
happened. `wiped` (history) records that line 207 cleared the TXC of a byte that had
left, until the next byte is stored; it is the one thing that keeps `flush()` from
returning. Arithmetic of the baud rate is left out.

One more behaviour a reader should know of: the shortcut at lines 205-209 does
not set `_written`, so a `flush()` after a single byte returns at once though the
byte is still being sent (`FlushTestWritten`, line 184).

### HDLCLink

Each end runs to completion on one frame or one timer, so a handler is one
step together with everything it sends. The master's `Submit` is
`queueTransmit()`, `StartLink` `startLink()`, `LinkExpired` and
`RetransmitTimerExpired` its two timer callbacks; `MasterInformation`,
`MasterReceiverReady`, `MasterReject`, `MasterUnnumberedAck`, `MasterCrcError` and
the slave's counterparts are the branches of `preProcessPacket()` and the
handlers it calls. `Queue`, `AckUpTo`, `CheckXmit` and `StartXmit` translate the
queue's functions; `AckUpTo` is a set of slots, those that the code's loop walks
over modulo 8. The slave's application answers a packet at once (`"info"`), lets
the link acknowledge it (`"ack"`), or defers the reply (`"defer"`, sent by
`SendDeferred`).

Abstracted: a frame is good or `"BAD"` (its CRC fails); out-of-band frames are
received and dropped by the link. Slot 7, which `txQueue`'s constructor does
not clear, is NULL because the queue has static storage. `linkReady` is written
and never read. DM and unknown unnumbered frames are sent by neither end.
`sendCommandPacket` with its own numbering (lines 697-705) is called from
nowhere and is not modelled.

External: the line. It keeps the order of frames and loses or corrupts at most
`MaxLosses` of them, in the directions `Lossy`. `answerLost` (history) records
that a frame to the master was lost.

### HDLCFraming

`ProcessData` is `processData()` on one byte: `FrameFlag` (lines 1003-1017), with
`PreProcessPacket` as its call of `preProcessPacket()`, and `Store` (1024-1033).
`SendOwn` is any frame the station sends between two received bytes: it goes
through `startPacket()`, which resets the pointer and the CRC that reception is
using. A handler called by `preProcessPacket()` may send a frame too.
`clear` (history) counts the frames that have arrived undisturbed.

A byte is a tuple: flag, escape, or data. The CRC is ideal: the generator *is*
the sequence of bytes it was fed, and the two bytes at the end of a frame say
for which content they stand. So nothing is shown of errors that a 16-bit CRC
cannot see. `BytesAssumption`: a data byte is not mistaken for half of a CRC. The run's
`OwnContents` are not beginnings of the peer's contents; see the preconditions.
External: the line (`Noise`).

### Twi

`twi_readFrom` and `twi_writeTo` share the shape of a call: `WaitReady` (the test
of `twi_state`), `Claim` (state, error, index, length, data), `Start` (the write of
TWCR for a start condition or, after a repeated start, that of TWDR, and then
`SendOn`, that of TWCR), `Return` (the end of the loop and the result). An
interrupt may come between any two of these. The
handler is one step per group of statuses. The callbacks of slave mode belong
to the handler's step; the transmit callback offers a length of
`SlaveReplies` through `twi_transmit`.

`masterLength` is the code's eight-bit `length-1`, so a length of zero gives 255.
`TxBytes` lets a read beyond the transmit buffer give any value.

External: the unit (`SendStart`, `SendAddress`, `SendByte`, `ReceiveByte`), the
addressed device, which acknowledges or refuses what it likes, and a foreign
master (`Addressed`, `LoseArbitration`, `ForeignWrites`, `ForeignReads`). `mode` is
what the unit is engaged in. The unit stands still while TWINT is set.

A call after a repeated start does not wait until that start is on the bus
("@@@ we hope"), and neither does the model. Before it is, the unit ignores the write
to TWDR (a write collision), and the write of TWCR either withdraws the start
or comes too late for that; what the unit does is not documented, so both are
possible (`SendOn`). `restart` (history) says how that went: `"collided"` if TWDR was
written too early, until the handler writes it again, and `"lost"` if a bus error had
ended the repeated start unseen. As an address, the byte left in TWDR may say
read or write.

Assumed: interrupts are enabled (with them off every call spins for ever), and an
enabled pending interrupt is served before the main thread's next step.
`twi_init` and the setters are the initial state. `wait` is always true, as in the
one caller.

`intruded` (history) records that a call wrote TWCR while a foreign master's
transfer was under way, and is reset by the next transfer. `Refused` says that
the last status was a byte refused in slave mode.

### Wire

`requestFrom()` is `RequestFrom` (up to the end of the driver's wait), `CopyByte` (the
loop at the end of `twi_readFrom`, which copies into `rxBuffer` with interrupts
enabled), `ResetIndex` and `SetLength`; `write()` is `WriteTest` (line 165),
`WriteStore` (170), `WriteIndex` (171) and `WriteLength` (173), where the compiler may
keep the index in a register (`held`) or load it again, since it is not volatile;
`endTransmission()` is `EndTransmission` (the arguments are read), `WriteTo` (the
driver's copy, after its wait) and `Transmitted`. `OnReceiveService` and
`OnRequestService` may come between any two of these. The onReceive callback reads as
many bytes as it likes, and the onRequest callback writes as many, up to the buffer. A
byte is named by its transfer and its place in it, so a mixture of two transfers shows.

Histories: `mixed`, a receive callback came during the copy; `asked`, a request
callback came since `beginTransmission()`; `torn`, it came between two steps of
`write()`. A callback that fills the buffer after `write()` has found room makes it
store behind `txBuffer` and leaves index and length at one more than the buffer
has; `WithinBuffers` says that this is the only way out of the buffer, and how far.

### Zrt

A step is what happens between two points where the tick can come. The code
between `__disable_interrupts` and `__enable_interrupts` is one step (`Lock`,
`Unlock`, `Schedule`, `Create`); where interrupts are enabled every statement that touches
the run list or the wait queue is one: `Join` and `Enqueue`
(`zrt_waitqueue_add`), `Suspend` (the five statements of `zrt_suspend`),
`TakeQueue`, `EmptyQueue`, `Wake`, `Insert` (four statements of
`zrt_insertTask`) and `NextEntry` (`zrt_waitqueue_wakeup`), `Sleep` and
`AddTimer`. `Create` is `zrt_createTask`: at the start only the idle task and
`_premain` exist, and any running task may create another. `Switch` is `___switch_to` after
`___switch_to_and_enable_interrupts` has enabled interrupts, up to the store of
`zrt_currentTask` (`start.S` 149-174), and `Arrive` what follows, up to the jump to
the other task (175-190). `Tick` is `__zrt_tick`: it runs the timers, picks a task
and switches. Lists are links, as in the code, so they can break. Entries of the
wait queue and timers lie on the stack of their task and are named by it.

`hung` ends the model where the code has no course of its own any more: a walk
does not end or meets NULL, an entry is read on the stack of a task that has left
the call, or a context is lost. The last is `LoseContext`: between `Switch` and
`Arrive` (`Straddling`) the processor is still on the stack of the task that leaves, and
a tick saves that stack and program counter in the TCB of the task that comes. The two
then run one stack, and nothing can be said of either. A tick a few instructions
before (at `"switch"`) may overwrite the context that is being saved, or not; both are
modelled. Not modelled are the words `_memreg` saved with a context, for which lines
176-179 store the address of the saved copy and not what it holds.

The code runs the list operations with interrupts enabled, and a tick there breaks them.
`Exposed` names eight places, the middle of the switch is a ninth, `races` (history)
counts the ticks that came there, and `RunListSound`, `NobodyForgotten` and
`PicksHighest` are about executions with none. Each of the eight is necessary: without
any one of them TLC finds a broken list or a task that nothing will wake.
`MutualExclusion` does not mind broken lists: it holds until `hung`. `misplaced`
(history) are the sleepers whose timer `zrt_timerAdd` has put before one that ends
earlier, which `zrt_timerRun` drops.

## 3. Runs

States are distinct states; every passing run is exhaustive within its bounds.

| Run | Constants that matter | Properties | What it shows |
|---|---|---|---|
| `serial_tx` | 3 slots, 5 writes, interrupts on and off, `begin()` on a closed port only | `TxFifo` `NoStall` `FlushComplete` `WriteReturns` `FlushReturns` `EndReturns` | the transmit side keeps the bytes in order, never leaves one without a handler to send it, and its calls return |
| `serial_duplex` | 3 slots, 2 writes, 5 arrivals, parity errors, `begin()` on an open port | `TypeOK` `TxFifo` `FlushComplete` `AvailablePromise` `RxIsLossyFifo` | the two directions do not disturb each other; the receive side is a FIFO of two bytes, and what `available()` promised can be read |
| `serial_drie` | 3 slots, 3 writes | `DrieImpliesData` | **violated**: finding 1 |
| `link_safety` | 9 packets, 2 losses each way, a slave reset | `TypeOK` `NeverForgotten` `SequencesAgree` `ImplementsChannel` | packets arrive once and in order across the wrap of the numbers |
| `link_live` | 3 packets, 2 calls of `connect()`, 2 losses in either direction | `EveryPacketConfirmed` `LinkComesUp` | the link timer sets the link up whatever is lost, and retransmission gets every packet through if answers are not lost and `connect()` is called once |
| `link_relink` | 2 packets, 2 connects, no loss | `SequencesAgree` | **violated**: finding 2 |
| `hdlc_framing` | 4 frames, 2 bytes lost or changed, 1 frame of our own, a buffer of 6 bytes | `TypeOK` `OnlySentFrames` `Resynchronises` | no frame is made up of parts, and reception recovers |
| `twi_master` | 3 calls, bus errors, stops and repeated starts, no other master | `WriteHonest` `ReadHonest` `NoExtraByte` `FitsBuffer` `BusReleased` | a call does what it says and says what it did, unless it came too early for its repeated start |
| `twi_multi` | 2 calls, bus errors and repeated starts, among 2 foreign transfers of up to twice the buffer | `TypeOK` `SlaveTransmitExact` `AckedBytesKept` `CallReturns` `SlaveLeaves` | calls and slave transfers interleave: what is lost, and when a call is stuck, is exactly what the properties name |
| `twi_arbitration` | 1 write, 1 foreign transfer | `WriteHonest` | **violated**: finding 3 |
| `wire` | 3 calls, 2 foreign transfers, buffers of 2 bytes, callbacks that read and write 0 to 2 | `WithinBuffers` `RequestIntact` `TransmissionIntact` | an index leaves its buffer by one at most, and only if a callback interrupts `write()`; the callbacks disturb the sketch's data in the two recorded cases only |
| `zrt` | 3 tasks of 2 priorities created at any time, sleeps of 1 and 2 ticks, one tick at an exposed place | `TypeOK` `MutualExclusion` `RunListSound` `NobodyForgotten` `PicksHighest` | the scheduler is right until a tick comes at one of nine places, and the mutex excludes also after that, until a list or a context is lost |

### Bounds, and why they are enough

- Rings of three slots hold two bytes, so order within the ring shows, and are
  empty, one short of full, full and wrapped within five bytes. The two writes of
  `serial_duplex` take the shortcut and the ring. The proofs cover every size.
- Nine packets take the eight sequence numbers once round and reuse the first.
  Two losses suffice to lose a packet and its retransmission, or a packet and an
  answer. `ChanBound` keeps timers from filling the line: a timer that expires
  with four frames under way adds a fifth equal to one of them.
  `link_live` allows two frames, which is a window of one packet and its answer.
- A two-byte buffer for the two-wire driver is below, at and above its limit with
  transfers of one to four bytes. Three calls give every pair of endings
  followed by a third call that may find leftovers of both. In `twi_multi` two calls,
  a read of two bytes and a write of one, joined or not, meet two foreign transfers.
- Four frames, one of which fills the buffer and one of which needs escapes, are
  one more than a disturbance and the two frames after it take; two changed
  bytes turn one frame into two or two into one.
- Three calls and two foreign transfers put a callback of each kind into any
  call; a two-byte buffer is asked for less, as much and more than it holds.
- Three tasks of two priorities give an owner, two waiters in the queue, and a
  task above its equals. Sleeps of one and two ticks give every order of two
  timers. With `MaxRaces = 0` the list properties would be checked on a subset of
  the same states; one racing tick, and what the tasks do with the list it broke,
  is what `MutualExclusion` is tried against.
- `MaxWrites`, `MaxArrivals`, `MaxPackets`, `MaxConnects`, `MaxResets`, `MaxLosses`,
  `MaxCalls`, `MaxTransfers`, `MaxForeignBytes`, `MaxFrames`, `MaxOwn`, `MaxNoise` and
  `MaxRaces` are bounds of the models, not of
  the code, and stand in the guards of the actions that count.
- `CHECK_DEADLOCK FALSE` stands where the system may stop: when the bounded
  calls are used up and, in `serial_tx` and `serial_duplex`, in an `end()` that was
  called with interrupts disabled.

### Fairness

- `HardwareSerial`: weak fairness of the steps inside a call (the CPU runs), of
  the transmit interrupt (served while enabled and pending) and of the shift
  register (it runs on its clock). Nothing is assumed of the sketch or of the
  line.
- `HDLCLink`: weak fairness of both ends' receiving (each polls its port), strong
  fairness of the expiry of an armed timer and of a deferred reply. The code
  needs no strong fairness: it makes up for `LineHasRoom`, which disables these
  three actions now and then. Losses are bounded, so from some point on the
  line loses nothing.
- `Twi`: weak fairness of the main thread, of the handler and of the bus; every
  device on it goes on.
- `HDLCFraming`, `Wire` and `Zrt` state safety only. For `Zrt` no fairness would make
  a task run: one that does not sleep or block is preempted only by its equals
  and betters.

### Preconditions of the properties

Some properties hold only under a condition that the property itself names, or
for constants the run chooses, because of what the code does. Each of these is a
weakness of the code, shown by removing the condition:

- `EveryPacketConfirmed`, `answerLost`: when an answer to the master is lost the
  slave rejects the retransmission, the master only logs a REJ (line 744) and
  retransmits the same packet for ever.
- `EveryPacketConfirmed`, `connects > 1`: after a second `connect()` the slave expects
  number 0 and rejects the rest likewise (finding 2).
- `NeverForgotten` fails with `SubmitEarly`: the retransmit timer expires while the
  link is down and is not armed again (line 561), and `checkXmit()` at link-up
  finds the slot taken.
- `FitsBuffer` of `Twi` fails with `0 \in ReadLengths`: the handler stores bytes
  until its eight-bit index has gone round. It is checked without a foreign
  master: two calls that overlap after an intrusion can move the index too far.
- `AckedBytesKept` counts up to the buffer's length: the byte after that is
  acknowledged and not handed over. With one more, `Refused`: the unit does not
  report the stop after a refused byte, `twi_state` stays `TWI_SRX` (line 479) and
  every later call waits for ever.
- `SlaveTransmitExact`, `intruded`: a foreign read that begins between the test of
  `twi_state` and the write of TWCR has its state overwritten (lines 125-129), and
  the foreign master reads past the reply.
- `CallReturns`, `StartLost`: the interrupt is off between two calls joined by a
  repeated start (line 390), so a bus error there is not seen by the next call, which
  clears it by its write of TWCR and waits for ever.
- `WriteHonest`, `ReadHonest`, `NoExtraByte`, `FitsBuffer`, `Collided`: a call that writes its
  address before the repeated start is on the bus (lines 154 and 233) has it ignored,
  and the unit sends the last byte of the call before as an address.
- `WithinBuffers`, `torn`: an onRequest callback between the test for room and the store
  of `write()` (`Wire.cpp:165-171`) takes index and length one past the buffer. `twi_writeTo()`
  refuses that length, so the damage is the one byte behind `txBuffer`.
- `FlushReturns`, `wiped`: a byte that ends between the store to UDR and the clearing of
  TXC (`HardwareSerial.cpp:206-207`), which takes an interrupt in between, leaves
  `flush()` waiting for a flag nobody sets.
- `TxFifo`, `NoStall`, `WriteReturns`, `EndReturns`, `raced`: see finding 1; `begin()` on an open
  port is another way to it.
- `RequestIntact`, `mixed`: the guard of `onReceiveService` (`Wire.cpp:253`) looks at
  indices that are set only after the copy.
- `TransmissionIntact`, `asked`: the reply of a request callback during a
  transmission goes to the sketch's buffer (`Wire.cpp:277`).
- `OnlySentFrames` fails when a frame the station sends equals the beginning of one
  it is receiving: it resets the pointer and leaves its own bytes in the CRC
  generator (`startPacket()`), so if as many received bytes are lost the rest of
  the frame completes it, and the CRC agrees. `FramesEndAsSent` says that no more
  than this can happen.
- `RunListSound`, `NobodyForgotten`, `PicksHighest`, `races`; `NobodyForgotten`,
  `misplaced`; `MutualExclusion`, `hung`: see Zrt above.

## 4. Findings

1. `serial_drie`. `write()` publishes the new head and enables the interrupt in
   two steps (`HardwareSerial.cpp:228-230`). If the handler is still enabled and
   drains the ring in between, `write()` enables it on an empty ring; it then
   sends an old slot and takes the tail past the head. The handler's comment
   (lines 83-84) says that cannot be.
2. `link_relink`. On UA the master clears `txSeqNum` (`SerProHDLC.h:807`), which
   it does not send with; `txQueue.tx` keeps its value. After a second `connect()`
   the slave expects 0 and rejects everything.
3. `twi_arbitration`. A board that is addressed as a slave while `twi_writeTo()`
   waits for its start leaves the loop with no error set and returns 0, success,
   with nothing sent (`twi.c:440-446`).

## 5. Proofs

`HardwareSerialProofs` proves, for every buffer size of at least two, any
number of writes and arrivals and any choice of the other constants
(`BufferSizeAssumption`, `BoundsAssumption`):

| Theorem | States |
|---|---|
| `TypeCorrect` | `Spec => []TypeOK` |
| `TxFifoCorrect` | `Spec => []TxFifo`: bytes on the wire in order, each once |
| `NoStallCorrect` | `Spec => []NoStall`: a queued byte has its interrupt |
| `FlushCorrect` | `Spec => []FlushComplete`: `flush()` ends on a quiet line |
| `AvailableCorrect` | `Spec => []AvailablePromise` |
| `RxRefinement` | `Spec => RxIsLossyFifo`: the receive side implements `LossyFifo` |

**Transmit side.** `TxFifo` is not inductive: it counts the bytes in the ring but
says nothing of which they are. `TxInv == TypeOK /\ TxRing /\ SignalInv` is.
`Queued` adds that the k-th slot after the tail holds byte `Len(wire) + 1 + k`, so
that the handler sends the next byte; `WriteKnows` records what each test in
`write()` established for the steps after it (the ring is empty in the shortcut,
there is room at the store, the slot holds the byte at the publication); the
last conjunct of `TxRing` rules out a handler on an empty ring.
`SignalInv` relates the flags to the ring: TXC set means an idle transmitter
unless `write()` is about to clear it, and queued bytes have UDRIE set unless
`write()` is about to set it. `FlushComplete` and `NoStall` follow from it.

**Receive side.** `RxInv` says what `read()` knows between its steps (the ring is
not empty, `c` is the byte at the tail) and that the bytes waiting in the
receiver are newer than any taken before, in order. With it, each step maps to a
step or a stutter of `LossyFifo` under the mapping
`q <- Contents(rxBuf, rxHead, rxTail)`: `RxIrqStep` to `Offer`, `AdvanceStep` to
`Read`, `EndStep` to `Clear`.

**Rings.** The first lemmas state once what the index arithmetic does: a push adds
one to the count and appends to the contents, a pop removes the head, slots
between tail and head are apart from the slot being written.

### The link

`HDLCLinkProofs` proves, for any number of packets, losses and resets of the slave
and any behaviour of its application (`LinkAssumption`), under `OnceUp`
(`MaxConnects <= 1` and no packets before the link is up; `link_relink` and the
preconditions above show why both are needed):

| Theorem | States |
|---|---|
| `LinkDelivers` | `Spec => ImplementsChannel`: the link implements `PacketChannel` |
| `LinkRemembers` | `Spec => []NeverForgotten` |
| `LinkAgrees` | `Spec => []SequencesAgree` |
| `LinkTypes` | `Spec => []TypeOK` |

The invariant is `LinkInv`. Its heart is what may be on the lines: with `L` packets
delivered, `confirmed` acknowledged and `Sent` taken from the input queue, these
three differ by one at most, in this order; information frames on the line carry
packet `L` or `Sent`, with the number that belongs to it, and once the newer one
is on the line the older does not follow it (`ToSlaveOK`); acknowledgements
carry `confirmed` or `L` modulo 8, again in this order (`ToMasterOK`). So a frame in
sequence can only be packet `L + 1` (`InSequenceIsNext`), and an acknowledgement
frees the packet under way or nothing (`QueueAckOld`, `QueueAckNew`, `AckKeeps`):
eight numbers cannot confuse a window of one. `Window` gives the whole content
of `txQueue` and its timer, `Delivered` the packets received. `SetUp` says that a
SNURM is on the line only before the first packet. One lemma per action shows
that it keeps `LinkInv` and is a step or a stutter of the channel.

### The framing

`HDLCFramingProofs` proves, for every packet size of at least four, any number of
frames, of bytes lost or changed and of frames of our own:

| Theorem | States |
|---|---|
| `FramesEndAsSent` | what a handler is given is the content of a sent frame, or what is left of one behind a frame of our own; in order, each at most once |
| `FramesAreSent` | `Spec => []OnlySentFrames`, if no frame of our own is the beginning of one received (`OwnUnlike`) |
| `FramesAreFoundAgain` | `Spec => Resynchronises` |
| `FramingTypeCorrect` | `Spec => []TypeOK` |

First, what `Framed` puts on the line: `Stuffed` gives the bytes sent for the first k
bytes of a content with its CRC, `FrameByte` where byte k is in the frame, `FrameHi`
that a frame has one high CRC byte. `FlattenSeq` is recursive, so this goes by
induction; `Induction` states it of sets of numbers, for the provers cannot
instantiate the library's theorems, which take a predicate.

`OnlySentFrames` is not inductive. `StationInv` and `GotSound` add where a high
byte can be: one at most is on the line, that of the newest frame (`LineSound`); one in
the buffer has left the line (`HiStored`); and no content was handed on whose high byte
is still to come (`Handed`). Inside a packet the generator holds the buffer, behind one
frame of our own at most (`BufferSound`). So a CRC that agrees names the content it
stands for, and no content is handed on twice.

`Resynchronises` needs `InStep`: while nothing disturbs a frame, the line is the rest of
it, and the receiver has taken its first k bytes and perhaps an escape (`Before`); if
the frame before came undisturbed too, the buffer and the generator are these k
bytes. `NextByte` gives the three kinds of byte that can follow.

### The scheduler

`ZrtProofs` proves, for any number of tasks, any priorities, any naps and any ticks:

| Theorem | States |
|---|---|
| `MutexHolds` | `Spec => []MutualExclusion` |
| `SchedulerTypeCorrect` | `Spec => []TypeOK` |
| `RunListIsSound` | `Spec => []RunListSound` |
| `NobodyIsForgotten` | `Spec => []NobodyForgotten` |
| `TickPicksHighest` | `Spec => PicksHighest` |

`SchedulerTypeCorrect` holds wherever the tick comes, `MutexHolds` until `hung`, the others
until the tick comes at an exposed place.

**Mutex.** The invariant `Exclusion` adds that `val` is at most
1, and at most 0 while a task is between lock and unlock: `Lock` enters only when
it brought `val` to 0, so from 1, and only the task inside sets it back. Nothing is said
of the lists, so the theorem holds though they may break. It says nothing of executions
in which a context is lost, because the model ends there.

**Types.** They are not obvious for the same reason: `Sane` adds what a task is about to
use (`Ready`), the entry and the place of `zrt_insertTask` and the task to switch to,
and that `zrt_pickTask` gives a task whenever it returns, from any list whatever. `Walk`
and `WakeDue` are recursive functions: `Induction` gives the function, and then what
every step of it keeps.

**Lists.** `ZrtLists` reads a run list as a sequence: `Strung` says that links, back links
and head of `l` are those of `s[1]`, ..., `s[m]`, with the idle task last, and `Sorted`
adds that the other tasks have no links and that priorities descend behind the
head. Then each operation has its lemma: `PlaceIs` (where `zrt_insertTask` stops),
`InsertSorted`, `SuspendSorted`, `WakeDueSorted` and `PickSorted` say that the result is
sorted and of which tasks, and `ListBounded` (pigeonhole) and `LinkedWalk` that a walk
ends. `PickSorted` also has the priority of the task picked, if the running
task was the head.

**The scheduler.** `RunListSound` is not inductive: in the middle of `zrt_suspend` the list
is broken, and whether `zrt_insertTask` is given a task that is not in the list depends on
the wait queue. The invariant `Scheduled` has four more things. `ListInv` is about
the list before the first statement of the operation in progress, and `Suspending`
and `Inserting` say what has become of it since. `ChainInv` reads `qnext` as chains: the
wait queue, and for each task those it has taken out of it and not yet woken,
all disjoint. `MutexInv` says that somebody will empty the queue: while it is not empty
some task is between lock and the end of the wakeup, and while `val` is not
positive some task is inside. `TimerInv` says which sleepers are misplaced. They are tied
together by `Whereabouts`: a task is out of the list, or about to be, exactly if it
is in a chain, has a timer or had a misplaced one; and by `Local`, what a task
has read of queue and timers is still so. That nobody but the running task is
at an exposed place is what makes every other task stand still (`OtherStands`).

### Wire

`WireProofs` proves, for every buffer length of at least one (`WireAssumption`) and
any calls and transfers, `BuffersHold` (`[]WithinBuffers`), `RequestHolds`
(`[]RequestIntact`) and `TransmissionHolds` (`[]TransmissionIntact`). The invariant
says what is in the buffers at each place of a call: between `CopyByte` steps the
first `copied` bytes are the device's unless `mixed`; while unread bytes remain the
guard of `onReceiveService` keeps them; between `WriteStore` and `WriteLength` the
buffer holds `written`, with index and length one behind, unless `asked`. For
`WithinBuffers` the invariant `Bounds` says how far index, length and register may be
at each of these places (`TxLimit`, `TxRoom`).

### The two-wire driver

`TwiProofs` proves the five invariants of `twi_master` for every buffer length
below 255, any number of calls, bus errors, stops and repeated starts
(`TwiAssumption`), under `OneMaster`: `MaxTransfers = 0` (with a foreign master
`WriteHonest` fails, finding 3, and the others likewise) and `0 \notin ReadLengths`
(a read of no bytes overruns the buffer, see the preconditions).

| Theorem | States |
|---|---|
| `WritesHonestly` | `Spec => []WriteHonest` |
| `ReadsHonestly` | `Spec => []ReadHonest` |
| `ReadsNoExtra` | `Spec => []NoExtraByte` |
| `StaysInBuffer` | `Spec => []FitsBuffer` |
| `ReleasesBus` | `Spec => []BusReleased` |

The invariant, `MasterInv`, follows `pc`. Between calls the bus is `Free`: at `Rest`, or
`Joint` (a repeated start is coming, with the interrupt off), so that no handler
runs and the bus can only repeat the start or fail (`FreeBus`). `Addressing` is a call
between its writes to TWDR and TWCR, which says whether the address is in TWDR. During
a call `Writing` and `ReadingBytes` list where the unit can be and how far the handler
is behind the device, at most one byte: `SentFirst` and `ReadFirst` give the bytes on
each side. A call that came too early for its repeated start is `Astray`: nothing is
known of its bytes, but handler and unit still come to the end of a transfer together,
so that the next call finds the bus free. One lemma per action of the handler, and
`BusStep` and `AstrayBus` for the bus, keep it.

It is also about the slave, with any number of foreign transfers, whatever the
main thread does meanwhile: `ReceiveKeeps` (`Spec => AckedBytesKept`) and
`TransmitsExactly` (`Spec => []SlaveTransmitExact`). Both rest on `UnitSound`: a status
that waits for the handler belongs to the mode the unit is in, so a main thread that
writes TWCR hides no status of a slave transfer. `ReceiveSound` counts `rxIndex` against the
acknowledged bytes in each state of the unit; `TransmitSound` does the same for the
byte in TWDR and for TWEA, and says that the driver leaves `STX` when the unit does.

`DriverTypeCorrect` (`Spec => []TypeOK`) holds among any number of masters too, if no
read of no bytes is asked for (`NoEmptyRead`). That what the handler stores, sends as a
slave or hands on is a byte needs to know when TWDR holds an address (`DriverInv`).
`rxIndex` and `txLength` stay within their buffers; of `masterIndex` and `txIndex` it
says only that they are bytes, since calls that overlap after an intrusion may take them
further.

### What is only model-checked

The liveness properties (the prover has no rules for fairness and ENABLED):
`WriteReturns`, `FlushReturns`, `EndReturns`, `EveryPacketConfirmed`, `LinkComesUp`,
`CallReturns` and `SlaveLeaves`. Every safety property of a passing run is proved too,
under the assumptions its section names.

## 6. Hazards

`PROJECT.json` lists what is hard to test in this code, each at its line, with the
properties that would catch it going wrong; a hazard without one says why.

## 7. Not modelled, and why

- The reply table of SerPro (`SerPro.h`): one reply is kept for each function,
  and nothing tells a late reply from the one awaited, so there is no promise to
  state beyond one call at a time.
- `Timer.cpp`: one `m_intrTimer` serves two timers (line 126), so its promises hold
  for one timer at a time, where nothing is concurrent.
- ZRT: stack allocation and limits, the words saved with a context, the wrap of `zrt_now`.
- The SAM ports: the receive ring is the AVR's, the transmitter is polled.
- USB stacks, `wiring.c`, `Tone.cpp`, bootloaders: register sequences and command
  loops; later candidates.
- `SoftwareSerial` depends on cycle counts, which a model of steps cannot express.
- The IDE's user interface: its state lives in Swing and the file system.
- Vendored, generated and hardware description code.

## 8. Plan

Done: `Rings`, `LossyFifo`, `HardwareSerial` with proofs; `PacketChannel` and
`HDLCLink`, `HDLCFraming`, `Twi`, `Wire` and `Zrt` with proofs. Next, in
this order:

1. **SerProCalls**: the reply table and `wait()` for one call at a time, on top of
   `PacketChannel`.
2. **Timers**, **AvrTime** (`millis()` and `micros()` against the overflow
   interrupt), and the SAM receive ring, reusing `Rings` and `LossyFifo`.
