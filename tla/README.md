# dedich32 in TLA+

A verification project for `dedich32`, the CH32V307 firmware that emulates a
DediProg SF600 SPI flash programmer. It models the firmware's tasks and the
state they share, checks the models with TLC on small instances, and proves
the properties that matter most with TLAPS for every value of the constants.
All paths are relative to the repository; `main.rs` stands for
`src/main.rs`, and so on.

## The system

The firmware runs one cooperative embassy executor. Its parts:

| Part | Code | State | Operations |
|---|---|---|---|
| control request handler | `usb_handler.rs` | buffered answer of TRANSCEIVE, LEDs, `configured` | one synchronous callback per control request |
| bulk worker | `main.rs` `bulk_worker_task` | the operation, the double buffer, the flash while it owns it | waits for a signal, takes operation and flash, runs a pipeline, returns the flash |
| bulk pipelines | `main.rs` (the two `join`s) | a zero-copy channel of two slots, loop counters, result | SPI arm and USB arm, polled by one `join` |
| SPI flash driver | `spi_flash.rs` | CS and pin modes, clock, `force_busy_until` | blocking transactions for the handler, asynchronous reads and page programs for the worker |
| shared state | `main.rs` statics | `SPI_FLASH`, `BULK_OP`, `BULK_SIGNAL` | take, return, replace, signal, under critical sections |
| auxiliary GPIO | `aux.rs` | directions, outputs, the pulse | set direction, set output, pulse low, finish |
| auxiliary tasks | `aux_usb.rs` | `UART_RX`, `UART_TX`, `UART_BAUD`, the UART batch, its deadline | `aux_task`, `uart_rx_task`, `uart_tx_task` |
| packet parsing | `protocol.rs`, `aux_protocol.rs` | none | pure functions from setup packets to operations, framing of aux packets |
| LEDs, constants | `leds.rs`, `config.rs` | three pins | one assignment per request |
| start-up | `main.rs` `main` | the pins before any task runs | straight-line initialisation, descriptors |

**How they interact.** The handler answers every request at once. For a bulk
request it only stores the operation in `BULK_OP` and sets `BULK_SIGNAL`; the
worker takes both later. Handler and worker exclude each other from the bus by
moving the driver out of `SPI_FLASH` (`take()` while an operation runs). The
handler does not wait for the driver: while it is out, requests are accepted
and dropped. The two arms of a pipeline share slots of a zero-copy channel.
`aux_task` has its own endpoints and meets the UART tasks at two queues and a
signal.

**What is hard here.** Callbacks come in at every `await` of the worker;
timers replace what a chip does not show (it is late with WIP, and late with
its contents); USB may fail in the middle of a pipeline, which must drain and
not hang; ownership of the driver has to survive every path; an aux packet
write may block for as long as the host likes. `PROJECT.json` lists these
hazards with their lines.

**What makes each part correct.**

- pipelines: blocks in order and without gaps; no slot used from both sides;
  nothing after a failure; the end is always reached; pages at their addresses;
- worker and handler: one operation at a time and each whole, the last one
  that was asked for; no interference on the bus or the clock; no lost wake-up; no accepted operation dropped for a missing driver; the driver
  comes back;
- driver: the window after an erase holds operations off; no page program is
  sent to a busy chip; reads after writes see the new contents; the chip is
  selected for frames only, and the device leaves the bus alone otherwise;
- control requests: a reply belongs to the last transaction; the chip gets the
  command, address and dummy bytes the host asked for;
- auxiliary GPIO: a pulse is an overlay that leaves the configuration alone;
  the host's picture of the pins is true, though pulses end by themselves;
- auxiliary tasks: bytes in order, once, lost only where the code says so;
  accepted writes whole; batches and pulses end.

## Modules

| Module | Models | Correspondence |
|---|---|---|
| `ZeroCopyChannel` | `embassy_sync::zerocopy_channel` (external, from its use) | `front`, `inFlight`; `CanSend`/`CanReceive` are what `send()`/`receive()` wait for, `SendDone`/`ReceiveDone` the publishing calls |
| `BlockTransfer` | the contract of a bulk operation (abstract) | blocks move one by one in order; a failure stops them; an end without failure means all have moved |
| `BulkQueue` | the contract of handler and worker for a host's operations (abstract) | one operation waits, one runs; its blocks go into a buffer of two and out of it; it ends when all are out |
| `BulkRead` | the join of a bulk read, `main.rs:289-329` | `spi` and `usb` are where the two arms are suspended; a block is named by its position behind the start address |
| `BulkWrite` | the join of a bulk write, `main.rs:346-396` | half blocks are the unit of data: block *b* is units *2b* (the page) and *2b+1* (the padding) |
| `FlashSession` | handler, worker, driver and chip | one action per callback, one per stretch of the worker between two awaits; `wpc` names the await |
| `PinOverlay` | what a pulse promises (abstract) | configuration, overlay, driven pins |
| `BoardGpio` | `aux.rs` | a `u8` of pin bits is a set of bits; its definitions are named `Gpio...` where `AuxBoard` has its own |
| `AuxTask` | `aux_usb.rs` | `pc` names the await of `aux_task`; the UART tasks are actions of their own; a byte on the RX line is under way between `RxStart` and `RxByte`, when `rx.read` may be cancelled |
| `AuxBoard` | GPIO requests from packet to report: `aux_protocol.rs`, `handle_packet`, `state()`, over `BoardGpio` | the packet loop of `aux_task` with the pins and the host's picture of them |
| `ControlEndpoint` | `control_out`, `control_in`, `leds.rs`, the clock codes | one action per kind of request; the number of a transaction stands for its answer |
| `SetupPackets` | `protocol.rs`, the setup handlers, the command bytes of `spi_flash.rs` | a u32 is a tuple of four bytes; a packet is a function from byte index to value |
| `FlashBus` | pin modes and CS of `spi_flash.rs`, boot | `todo` is the register writes a call has left; `Write` does one |
| `*Proofs` | theorems about the module of that name | |
| `MC*` | bounds and model values for TLC | |

`BulkRead` and `BulkWrite` EXTEND `ZeroCopyChannel` and implement
`BlockTransfer`; `FlashSession` implements `BulkQueue`, and every step of the
two pipelines is a step of `BulkQueue` as well, which is what joins them with
`FlashSession`. `BoardGpio` implements `PinOverlay`; `AuxBoard` EXTENDS
`BoardGpio` and adds the packet loop, and implements `PinOverlay` still. `AuxTask` and
`AuxBoard` are two views of one loop: the UART with the deadline of a pulse,
and the GPIO commands with the pins. The driver is cut the same way:
`FlashSession` has who uses the bus and when, `FlashBus` the pins inside a
call, `SetupPackets` the bytes, `ControlEndpoint` the replies. `FlashSession` counts
the blocks of an operation only, with the two slots as a bound on how far the
arms may be apart; the pipelines have slots and data. In the pipelines
`write_page` and `read_block` are one step each; `FlashSession` has their
steps.

**Time.** `FlashSession`, `BoardGpio` and `AuxTask` count deadlines down with
a `Tick` action. A timer that is at zero may be served at any later time, and
what is not timed (DMA, USB, the executor) may take any time. This covers
every relative speed of firmware, chip and host. In `FlashSession` only
relations between delays matter, and these are its assumptions.

**The chip** is external: write enable latch, a busy time chosen freely up to
a bound, WIP shown after a lag of at most `WipLag`, new contents shown at most
`StaleLag` after the end of a program or an erase. A busy chip ignores
everything but status reads. Some of its erases need not be in the table of
`erase_busy_duration`: they have no window (`EraseWindow` is `NoWindow`).
`LagAssumption` says what the comments of `spi_flash.rs` (lines 32-35, 252-256,
300-308) and `main.rs` (384-387) say the delays are for: the head start and the
window of each erase in the table last at least `WipLag`, the settle time at
least `StaleLag`. A `PoliteHost` sends no short programs, sends erases of the
table only and without a read phase (the driver sets no window otherwise),
polls the status after an erase until WIP is clear, and lets an operation have
its blocks before its next command. This is how flashprog drives a programmer.
With `PoliteHost` FALSE the host sends any request at any time.

## Runs

Bounds are definitions of the `MC` modules or constants of the `.cfg` files.

- `bulk_read` (`MCBulkRead`): up to 6 blocks with 2 slots, so that the ring
  wraps three times, any interleaving of DMA and USB, a failure at any block.
  A seventh block adds no new configuration of slots and arms. Invariants:
  order of delivery, contents of the slots in flight, no shared slot.
  Properties: the operation ends; `BlockTransfer` is implemented.
- `bulk_write` (`MCBulkWrite`): up to 4 blocks, packets of half and whole
  blocks, an address space of four pages with a start in its first and its
  third page, the latter unaligned and wrapping. Page data, page addresses, no
  shared slot, the end, `BlockTransfer`.
- `setup_packets` (`MCSetupPackets`): every read and page command of a chip,
  in every form a V2 or V3 host may ask for it, at every address; bytes of
  three values, so that an address has 81 values and carries go through every
  byte; 0 to 4 blocks, where 4 needs the second byte of the count; up to 40
  dummy clocks. The code treats bytes alike whatever their range. A panic of
  `start_read` would show as a deadlock.
- `setup_dummy_overflow`: expected violation, see Findings.
- `control_endpoint` (`MCControlEndpoint`): three transactions, so that one can
  be done, one dropped and one come after, or an erase open its window, a status
  read fall into it and one come after; data of 0, 1, 16 and 17 bytes, replies
  cut short or asked too long; every clock code, every set of LEDs. A window may
  end at any time: how long it lasts is in `FlashSession`.
- `flash_bus` (`MCFlashBus`): every order of frames, SET_CS and resets with a
  controller that comes and goes, one register write at a time. A frame is a
  counter of bytes up to 16, the longest transaction of the handler.
- `flash_session` (`MCFlashSession`): any host; operations of no block or two
  (one page after another), erases with a short window, a long one and none, two
  clocks, delays of 1 tick and chip times of up to 2. Bus, clock, window,
  wake-up and page properties; an operation hands the bus back released;
  `BulkQueue` is implemented; pending operations are taken and the flash comes
  back (`FairSpec`).
- `flash_session_polite`: a polite host, operations of 0 to 2 blocks, chip
  times of up to 3, and a lag and settle time of 2 ticks so that contents are
  late across several steps. All pages land, reads are fresh. This is where
  operations follow erases and each other.
- `flash_transaction_dropped`: expected violation, see Findings.
- `board_gpio` (`MCBoardGpio`): both switch pins and one other bit, all masks
  and values, durations of 0 to 2 ticks. One other bit is enough since every
  bit that is no switch pin is treated alike.
- `aux_task` (`MCAuxTask`): queues and batches of 2 bytes, 4 bytes on the RX
  line, so that one still comes after `UART_RX` was full, two requests of any
  kind (two writes overfill the queue, two rates replace each other, and
  `set_config` refuses one of them), line errors, `tx.write`s that fail, a baud
  change that may or may not cost the byte under reception, the device
  configured and deconfigured at any time. Both queues and the batch fill up. Safety, and that pulses end and
  bytes leave (`FairSpec`).
- `aux_board` (`MCAuxBoard`): the two switch pins, masks of none, one or both,
  pulses that are due at once or later, packets that promise or carry one byte
  too few or too many, two requests without an answer, ids that are used again
  after two. The ids a host has in flight at once must differ, so there are
  as many as requests.

The type invariants are proved; TLC checks the one that bounds something a slip
in the code would exceed (queues and baud rates in `AuxTask`).

Deadlock checking is off only in the pipelines' runs, which end with their
operation; `EventuallyEnds` shows there that they do not stop before. In the
other models the host can always send another request, so deadlock checking
says little, and the liveness properties say what must not get stuck.

## Fairness

- Pipelines: each arm is polled when woken (the executor runs woken tasks, and
  `join` polls both futures), a DMA completes, and a USB transfer ends with
  success or an error. The last is a premise on the host: it goes on with the
  transfer or resets the bus. The code has no timeout, so a host that stops in
  the middle holds the flash for ever; this hazard is listed.
- `FlashSession`: the worker, the arm of the pipeline that moves blocks, and
  time. Nothing makes the host configure the device or send requests, so the
  liveness properties have `<>[]enabled` as a premise (`wait_enabled`).
- `AuxTask`: the tasks, time, and the host's reads of EP4. `select4` polls its
  arms in order, and so does the model (`ReadReady`). Requests and RX bytes
  are bounded (`MaxRequests`, `MaxBytes`), so weak fairness of the loop is
  enough: a host that floods EP3 for ever is excluded by the bound, and for it
  the code gives no guarantee that a pulse ends.
- `AuxBoard`, `ControlEndpoint`, `SetupPackets`, `FlashBus`: none, only safety
  is stated.

## What is proved

TLAPS checks these for every value of the constants that the `ASSUME`s allow.
Every invariant the passing runs check is a theorem, and so are the action
properties and the refinements of `BlockTransfer`, `BulkQueue` and
`PinOverlay`.

- `BulkReadProofs`: `TypeCorrect`, `OrderedDelivery`, `SlotsHoldNext`,
  `SlotsNotShared`, `Refinement`, `ArmsKeepTheQueue`. The inductive invariant
  adds to the type invariant that the slots in flight hold the next blocks of
  the stream, that the arms' counters differ by the number of slots in flight,
  and that what was delivered is a prefix of the stream that is complete as
  long as no write has failed. `DeliveredInOrder` alone is not inductive: it
  says nothing of the slots the next block will come from. Lemmas about the
  ring say that the sender's slot is not in flight and what publishing and
  freeing do to the slots in flight.
- `BulkWriteProofs`: `TypeCorrect`, `PageData`, `PagesInRange`,
  `SlotsNotShared`, `Refinement`, `ArmsKeepTheQueue`. The invariant relates
  units sent, offset in the block that is received, blocks received whole
  (`good`) and the slots in flight, over the same ring lemmas. In the mapping
  to `BlockTransfer` the failure shows when the last whole block is programmed,
  since pages that were received before it still count.
- `FlashSessionProofs`: `TypeCorrect`, `BusHandedOver`, `NoLostWakeUp`,
  `WindowIsHonoured`, `PagesLand`, `FreshReads`, `ClockIsStable`,
  `ConsumedOpsRun`, `BusIsReturned`, `QueueRefinement`. The invariant `IInv`
  has five parts: who owns the flash and where the worker is for which kind of
  operation (`Ownership`), where no window can be set (`WindowGone`), how the
  chip's delays relate to the worker's timers (`Delays`: WIP is hidden for no
  longer than the head start lasts), where the chip is idle (`IdleChip`), and
  what a polite host leaves behind (`Politeness`). The refinement needs
  `Counts` on top of it: the SPI is ahead of the endpoint in a read and behind
  it in a write, by two blocks at most, and a page under way has its block.
  Assumptions used: `TimingAssumption`, `LagAssumption`, `CommandsAssumption`,
  `BlockCountsAssumption`. There is no bound on block counts, windows, delays
  or the number of requests.
- **One account of a bulk operation.** `FlashSession` has two counters in the
  place of a pipeline. `QueueRefinement` and the two `ArmsKeepTheQueue` show
  that both keep the same abstract queue: the blocks that went into the buffer
  and those that left it move by the same rules, and the operation ends by the
  same one.
- `FlashBusProofs`: `ChipSelectIsNeverSpurious`, `EveryFrameIsACommand`,
  `BusIsLeftToTheController`, for frames of any length. The properties speak of
  the pins at all times, so the invariant has to say how far a call may have
  come: for every tail of the register writes of `bus_idle`, `cs_assert` and
  the constructors, what the pins and the output level are by then
  (`Releasing`, `Asserting`, `Booting`). With it go that a controller waits for
  an idle device (`ControllerWaits`) and that the chip has counted exactly the
  bytes of the frame (`BytesOfFrame`).
- `SetupPacketsProofs`: `ReadsAreAsAsked`, `PagesAreAsAsked`, `ShortReadsFit`,
  for bytes of any range, all block counts and all dummy clocks a V3 host may
  name. The invariant says that the operation is the request (`OpMatches`),
  but for reads whose clocks saturate, which do not fit the command buffer
  anyway, and that the next page is in its place unless the last one is written
  and its address may have wrapped (`PagesUnderWay`). The lemmas are what the
  parsers make of a packet (`FieldsOfPacket`, `TablesInvertFields`), the shape
  of the command bytes (`CommandShape`) and the carries of `wrapping_add`
  (`NextPageIsBehind`). `ShortReadsFit` gives the exact bound of finding 1.
  Assumptions: `BaseAssumption`, `CountAssumption`, `CyclesAssumption`, and
  `VendorAssumption`, which says that the vendor's opcode is in no table.
- `AuxBoardProofs`: `GpioTypeCorrect`, `GpioRefinement` about `BoardGpio`, and
  `TypeCorrect`, `ViewCorrect`, `AllAnswered`, `AnswersCorrect`,
  `PinsTypeCorrect`, `BoardImplementsOverlay` about the whole. For the pins the
  invariant says that a pulse has only added its pins to the directions and
  removed them from the outputs, so restoring the pulsed bits gives back
  exactly what was there; every step of the packet loop does to the pins a step
  of `BoardGpio` or none (`PinStep`), which carries the refinement over. For
  the host it says which requests can still be unanswered at each place of the
  loop (`OnlyWaiting`, `OutIsLast`), that the packet under way belongs to the
  oldest of them (`Written`) and tells the state of the pins (`PacketTells`),
  since nothing changes them while `aux_task` awaits the write, and that the
  host knows the pins unless it is being told or waits for a request that
  changes them (`View`).
- `AuxTaskProofs`: `TypeCorrect`, `BatchIsArmed`, `BaudIsLast`,
  `WritesAreSent`, `BytesInOrder`, for every queue size, payload length, baud
  range and number of requests and bytes. The invariant adds to the properties
  that a batch is armed also while something else is written (`BatchReady`),
  and that everything that is in the queues was numbered before the byte the
  line is at (`StreamOrdered`), so that the next byte goes behind all others.
- `ControlEndpointProofs`: `TypeCorrect`, `SettingsAreHeld`, `ReplyBelongs`.
  The loop invariant ties the reply buffer to the last acknowledged
  transaction (`BufferIsOfLast`); the property itself is about the step that
  reads the buffer. It says for each of the three who may have done that
  transaction, the chip, the driver alone or nobody, what it is answered with.

Only model-checked: liveness under fairness (`EventuallyEnds`,
`PendingOpRuns`, `FlashReturned`, `PulseEnds`, `BytesLeave`), which is out of
the prover's reach, and the two runs that find the code at odds with a comment.

## Findings

1. `spi_flash.rs:179`, "1 opcode + 4 addr + 5 dummy max": a V3 packet may ask
   for up to 32 dummy bytes, and six with a four-byte address index past the
   buffer (`setup_dummy_overflow`). Up to five are sent as asked, and nothing
   that fits the buffer panics (`ShortReadsFit`).
2. `usb_handler.rs:39`, "We do the full SPI transaction": a transaction that
   comes in while the worker has the flash is accepted and dropped, also after
   the last block of the operation has moved (`flash_transaction_dropped`).
   A status read inside an erase window then answers zeros, which read as
   ready, though `spi_flash.rs:32` says that status reads report WIP.

Two more things are plain from the models and have no run of their own. After
an error of `ep_out.read` the write pipeline programs the slots it still has
(`PassSlot`, `UsbReadErr`), so an unplugged cable leaves zero or repeated pages
in the range; they stay inside it (`PagesInCommandedRange`). And at boot the
HAL's constructors drive the flash pins until `SpiFlash::new` releases them
(`HalNew`); afterwards the device leaves the bus to an in-system controller
(`NeverFights`).

## Not modelled, and why

- Errors of the SPI peripheral: the code drops them (`.ok()`), and what the
  HAL has done to the peripheral and the slot by then is not part of this
  repository; the models let transfers succeed.
- Results the code ignores on the UART side are in the model: `tx.write` may
  fail and cost a byte (`TxErr`), `rx.set_config` may refuse a rate and leaves
  the old one in force (`Settable`). That a refusal depends on the rate alone and
  changes nothing is how the HAL is modelled, not something this code shows.
- The level a pin has inside a call of `BoardGpio`: a request during a pulse
  first gives the pins back (`finish_pulse`, `aux.rs:51`, `57`, `63`) and then
  drives them anew, within the same call and without an `await`.
- What `embassy-usb`, its driver and the HAL do when a future is cancelled:
  a packet in EP3 stays for the next read, a byte under reception may or may
  not be lost (`SetBaud` allows both). That a baud change reaches the USART in
  the middle of a byte that is being sent is left out for the same reason.
- The levels of the input pins in a state report: the board's, not the
  firmware's. The text of identity strings, USB ids and descriptors: data.
- The rest of start-up (clocks, UART, USB, spawning): one straight line
  before any task runs. Of it only the flash pins can meet another actor.
- A host that stops in the middle of an operation: the code has no timeout
  (`main.rs:235`), so there is nothing to promise.
- Dead code (`all_off`, `set_busy`), logging, build and CI files.
- A page program or a read inside a USB failure is not cut short: `join`
  always runs both arms to their end.

## Plan

Done, in this order: the pipelines against `BlockTransfer`; `FlashSession`;
`BoardGpio` against `PinOverlay`; `AuxTask`; `SetupPackets`; `FlashBus`;
`ControlEndpoint`; `AuxBoard`; the proofs of all of them; `BulkQueue` and what
ties `FlashSession` and the pipelines to it; the pins of `AuxBoard` against
`PinOverlay`. Worth doing next:

1. The driver as one: that the calls of `FlashSession` (`cs` low or high, who
   holds the bus) are what the register writes of `FlashBus` add up to.
2. The UART of `AuxTask` against an abstract pair of byte queues, with the
   batch as a stage of one of them.
3. `FlashSession` with a host that waits for its answers and retries, so that
   what a dropped transaction does to a whole session (erase, write, verify)
   can be stated from the host's side.
