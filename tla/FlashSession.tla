---------------------------- MODULE FlashSession ----------------------------
(***************************************************************************)
(* The two users of the flash bus and the flash between them: the control  *)
(* request handler (usb_handler.rs), the bulk worker (main.rs), the driver *)
(* they share through SPI_FLASH (spi_flash.rs) and the chip (external).    *)
(*                                                                         *)
(* The executor is cooperative.  A handler callback is one action; a       *)
(* worker action is the code between two awaits, so callbacks come in at   *)
(* every await of the worker.  Time is Tick: every timer, window and chip  *)
(* delay counts down, and whatever is not timed may take any time.         *)
(*                                                                         *)
(* The blocks of an operation are counted only: BulkRead and BulkWrite     *)
(* have the slots and the data.                                            *)
(***************************************************************************)
EXTENDS Integers

CONSTANTS
  Erases,       \* the erase commands
  EraseWindow,  \* erase_busy_duration, in ticks, or NoWindow
  HeadStart,    \* the 1 ms before poll_wip, in ticks
  Settle,       \* the 25 ms after a write or a window, in ticks
  BlockCounts,  \* the block counts of a setup packet
  Frequencies,  \* what SpiSpeed and clamp make of a clock code
  EraseTime,    \* the chip is busy with an erase for at most this long,
  ProgramTime,  \* with a page for at most this long,
  WipLag,       \* shows WIP at most this late,
  StaleLag,     \* and shows the new contents at most this long after WIP
  PoliteHost    \* the host waits as the protocol wants it to (see MaySend)

Max2(a, b) == IF a > b THEN a ELSE b

NoWindow == -1

(* The erases in the table of erase_busy_duration: a chip may know others. *)
Tabled == {c \in Erases : EraseWindow[c] # NoWindow}

ASSUME TimingAssumption ==
  /\ EraseWindow \in [Erases -> Nat \cup {NoWindow}]
  /\ {HeadStart, Settle, EraseTime, ProgramTime, WipLag, StaleLag} \subseteq Nat
ASSUME BlockCountsAssumption == BlockCounts \subseteq Nat
ASSUME HostAssumption == PoliteHost \in BOOLEAN

(* What the delays of the code are there for: an emulator is late with WIP *)
(* by less than a head start or a window, and late with its contents by    *)
(* less than the settle time.                                              *)
ASSUME LagAssumption ==
  /\ WipLag <= HeadStart
  /\ \A c \in Tabled : WipLag <= EraseWindow[c]
  /\ StaleLag <= Settle

(* What CMD_TRANSCEIVE carries: read status, write enable, an erase, a     *)
(* short program (also of the status register), or a command that leaves   *)
(* the chip as it is (identification, short reads).                        *)
Passive == {"status", "other"}
Commands == Passive \cup {"wren", "program"} \cup Erases
ASSUME CommandsAssumption == Erases \cap (Passive \cup {"wren", "program"}) = {}

NoOp == [kind |-> "none", blocks |-> 0]
Operation == [kind : {"read", "write"}, blocks : BlockCounts]

VARIABLES
  flash,      \* SPI_FLASH: "shared", or None while the "worker" has it
  bulkOp,     \* BULK_OP
  signal,     \* BULK_SIGNAL
  cs,         \* the chip select: "low" (bus driven) or "high" (bus Hi-Z)
  window,     \* ticks to force_busy_until; 0: passed; NoWindow: None
  freq,       \* the SPI clock
  answer,     \* transceive_read_buf; "none": transceive_read_len is 0
  enabled,    \* the host has configured the device
  wpc,        \* where the worker is
  cur,        \* the operation it works on
  moved,      \* blocks that passed the endpoint
  done,       \* blocks that passed the SPI
  timer,      \* ticks to the end of the worker's Timer
  wel,        \* the chip's write enable latch
  busy,       \* ticks the chip is busy
  hidden,     \* ticks until a busy chip shows WIP
  stale,      \* ticks until the chip shows its contents
  erasing     \* the host has started an erase and not seen WIP clear

handlerVars == <<freq, answer, enabled, erasing>>
opVars == <<bulkOp, signal>>
chipVars == <<wel, busy, hidden, stale>>
workerVars == <<cur, moved, done, timer>>
vars == <<flash, opVars, cs, window, handlerVars, wpc, workerVars, chipVars>>

Init ==
  /\ flash = "shared" /\ bulkOp = NoOp /\ signal = FALSE
  /\ cs = "high" /\ window = NoWindow /\ freq \in Frequencies
  /\ answer = "none" /\ enabled = FALSE /\ erasing = FALSE
  /\ wpc = "wait" /\ cur = NoOp /\ moved = 0 /\ done = 0 /\ timer = 0
  /\ wel = 0 /\ busy = 0 /\ hidden = 0 /\ stale = 0

-----------------------------------------------------------------------------
(* The chip.  A command takes effect when CS rises; a busy chip ignores    *)
(* all but status reads, and an erase or a program without WEL is ignored. *)

Wip == busy > 0 /\ hidden = 0

WriteCycle(longest) ==
  /\ busy' \in 1 .. longest
  /\ hidden' \in 0 .. WipLag
  /\ \E lag \in 0 .. StaleLag : stale' = Max2(stale, busy' + lag)
  /\ wel' = 0

Accepts(c) ==
  /\ busy = 0
  /\ c \notin Passive
  /\ c # "wren" => wel = 1

Execute(c) ==
  \/ /\ Accepts(c) /\ c = "wren"
     /\ wel' = 1
     /\ UNCHANGED <<busy, hidden, stale>>
  \/ Accepts(c) /\ c \in Erases /\ WriteCycle(EraseTime)
  \/ Accepts(c) /\ c = "program" /\ WriteCycle(ProgramTime)
  \/ ~Accepts(c) /\ UNCHANGED chipVars

Down(t) == IF t > 0 THEN t - 1 ELSE t

(* Time passes. *)
Tick ==
  /\ \E t \in {window, timer, busy, hidden, stale} : t > 0
  /\ window' = Down(window) /\ timer' = Down(timer)
  /\ busy' = Down(busy) /\ hidden' = Down(hidden) /\ stale' = Down(stale)
  /\ UNCHANGED <<flash, opVars, cs, handlerVars, wpc, cur, moved, done, wel>>

-----------------------------------------------------------------------------
(* The handler.  A request that is rejected changes nothing and is left    *)
(* out: bad lengths, bad packets; so are the requests that are only        *)
(* acknowledged and CMD_TRANSCEIVE IN, which returns answer.               *)

(* A polite host programs by bulk writes only, sends erases of the table   *)
(* only and without a read phase, polls the status after an erase until    *)
(* WIP is clear, and lets a bulk operation have its blocks before it goes  *)
(* on.                                                                     *)
MaySend ==
  PoliteHost => bulkOp = NoOp /\ (flash = "worker" => moved = cur.blocks)

(* transceive_blocking for a status read inside the window.                *)
ForcedStatus(c, needsRead) == needsRead /\ c = "status" /\ window > 0

(* Mutant: no window is set.                                               *)
SetNoWindow(c, needsRead) == UNCHANGED window

(* write_only_blocking sets the window after an erase of the table, in the *)
(* place of one that is still open.                                        *)
SetWindow(c, needsRead) ==
  window' = IF ~needsRead /\ c \in Tabled THEN EraseWindow[c] ELSE window

Answer(c, needsRead) ==
  IF ~needsRead THEN "none"
  ELSE IF flash = "worker" THEN "zeros"
  ELSE IF ForcedStatus(c, needsRead) \/ (c = "status" /\ Wip) THEN "wip"
  ELSE IF c = "status" THEN "ready" ELSE "data"

(* CMD_TRANSCEIVE OUT: the transaction, if the flash is there.             *)
TransceiveOut(c, needsRead) ==
  /\ MaySend
  /\ PoliteHost => /\ c # "program"
                   /\ c \in Erases => c \in Tabled /\ ~needsRead
                   /\ erasing => c = "status" /\ needsRead
  /\ answer' = Answer(c, needsRead)
  /\ erasing' = (c \in Erases \/ (erasing /\ ~(needsRead /\ c = "status" /\ answer' # "wip")))
  /\ IF flash = "worker" \/ ForcedStatus(c, needsRead)
     THEN UNCHANGED <<cs, window, chipVars>>
     ELSE cs' = "high" /\ Execute(c) /\ SetWindow(c, needsRead)
  /\ UNCHANGED <<flash, opVars, freq, enabled, wpc, workerVars>>

(* Mutants: CS and the clock are set whoever has the flash.                *)
SetCsAnyway(level) ==
  /\ cs' = level
  /\ UNCHANGED <<flash, opVars, window, handlerVars, wpc, workerVars, chipVars>>

SetSpiClkAnyway(f) ==
  /\ freq' = f
  /\ UNCHANGED <<flash, opVars, cs, window, answer, enabled, erasing, wpc,
                 workerVars, chipVars>>

(* CMD_SET_CS, if the flash is there.                                      *)
SetCs(level) ==
  /\ flash = "shared"
  /\ cs' = level
  /\ UNCHANGED <<flash, opVars, window, handlerVars, wpc, workerVars, chipVars>>

(* CMD_SET_SPI_CLK, if the flash is there.                                 *)
SetSpiClk(f) ==
  /\ flash = "shared"
  /\ freq' = f
  /\ UNCHANGED <<flash, opVars, cs, window, answer, enabled, erasing, wpc,
                 workerVars, chipVars>>

(* CMD_READ and CMD_WRITE: a setup takes the place of a pending one.       *)
Setup(op) ==
  /\ MaySend
  /\ PoliteHost => ~erasing
  /\ bulkOp' = op /\ signal' = TRUE
  /\ UNCHANGED <<flash, cs, window, handlerVars, wpc, workerVars, chipVars>>

(* SET_CONFIGURATION, or a reset of the bus.                               *)
Configured(b) ==
  /\ enabled' = b
  /\ UNCHANGED <<flash, opVars, cs, window, freq, answer, erasing, wpc,
                 workerVars, chipVars>>

Handler ==
  \/ \E c \in Commands, r \in BOOLEAN : TransceiveOut(c, r)
  \/ \E level \in {"low", "high"} : SetCs(level)
  \/ \E f \in Frequencies : SetSpiClk(f)
  \/ \E op \in Operation : Setup(op)
  \/ \E b \in BOOLEAN : Configured(b)

-----------------------------------------------------------------------------
(* The worker.                                                             *)

(* BULK_SIGNAL.wait has returned: the worker takes the operation and the   *)
(* flash, or waits again if either is missing.                             *)
Dispatch(available) ==
  /\ signal' = FALSE /\ bulkOp' = NoOp
  /\ IF bulkOp # NoOp /\ available
     THEN /\ wpc' = "enable" /\ flash' = "worker"
          /\ cur' = bulkOp /\ moved' = 0 /\ done' = 0
     ELSE /\ wpc' = "wait" /\ flash' = IF available THEN "shared" ELSE flash
          /\ UNCHANGED <<cur, moved, done>>

WakeUp ==
  /\ wpc = "wait" /\ signal
  /\ Dispatch(flash = "shared")
  /\ UNCHANGED <<cs, window, handlerVars, timer, chipVars>>

(* Mutants: the signal is reset before it is awaited; the flash goes back  *)
(* too late for the next operation; it does not go back.                   *)
ReturnFlashReset ==
  /\ wpc' = "wait" /\ flash' = "shared" /\ signal' = FALSE
  /\ UNCHANGED <<bulkOp, cur, moved, done>>

ReturnFlashLate ==
  IF signal
  THEN Dispatch(FALSE)
  ELSE wpc' = "wait" /\ flash' = "shared" /\ UNCHANGED <<opVars, cur, moved, done>>

ReturnFlashNever ==
  wpc' = "wait" /\ UNCHANGED <<flash, opVars, cur, moved, done>>

(* The flash goes back and the loop starts over.  If the signal is set by  *)
(* now, wait() returns without suspending and no callback comes between.   *)
ReturnFlash ==
  IF signal
  THEN Dispatch(TRUE)
  ELSE wpc' = "wait" /\ flash' = "shared" /\ UNCHANGED <<opVars, cur, moved, done>>

(* wait_enabled is over. *)
EndpointEnabled ==
  /\ wpc = "enable" /\ enabled
  /\ wpc' = IF cur.kind = "read" THEN "window" ELSE "slot"
  /\ UNCHANGED <<flash, opVars, cs, window, handlerVars, workerVars, chipVars>>

(* Mutant: the window is not looked at.                                    *)
NoWindowLook ==
  /\ wpc = "window"
  /\ cs' = "low"
  /\ wpc' = IF cur.kind = "read" THEN "readcmd" ELSE "wren"
  /\ UNCHANGED <<flash, opVars, window, handlerVars, workerVars, chipVars>>

(* wait_for_forced_busy_window: no window, then cs_assert and the first    *)
(* command of start_read or write_page ...                                 *)
NoWindowLeft ==
  /\ wpc = "window" /\ window = NoWindow
  /\ cs' = "low"
  /\ wpc' = IF cur.kind = "read" THEN "readcmd" ELSE "wren"
  /\ UNCHANGED <<flash, opVars, window, handlerVars, workerVars, chipVars>>

(* ... or one that has passed: 25 ms, and the same.                        *)
WindowPassed ==
  /\ wpc = "window" /\ window = 0
  /\ window' = NoWindow
  /\ wpc' = "postwindow" /\ timer' = Settle
  /\ UNCHANGED <<flash, opVars, cs, handlerVars, cur, moved, done, chipVars>>

PostWindowOver ==
  /\ wpc = "postwindow" /\ timer = 0
  /\ cs' = "low"
  /\ wpc' = IF cur.kind = "read" THEN "readcmd" ELSE "wren"
  /\ UNCHANGED <<flash, opVars, window, handlerVars, workerVars, chipVars>>

(* The endpoint passes a block, or an arm of the join drops it after an    *)
(* error: the double buffer holds two blocks between it and the SPI.       *)
UsbBlock ==
  /\ flash = "worker" /\ wpc # "enable"
  /\ IF cur.kind = "read" THEN moved < done ELSE moved < done + 2 /\ moved < cur.blocks
  /\ moved' = moved + 1
  /\ UNCHANGED <<flash, opVars, cs, window, handlerVars, wpc, cur, done, timer,
                 chipVars>>

ReadCmdSent ==
  /\ wpc = "readcmd"
  /\ wpc' = "stream"
  /\ UNCHANGED <<flash, opVars, cs, window, handlerVars, workerVars, chipVars>>

(* read_block fills a slot. *)
ReadBlock ==
  /\ wpc = "stream"
  /\ done < cur.blocks /\ done < moved + 2
  /\ done' = done + 1
  /\ UNCHANGED <<flash, opVars, cs, window, handlerVars, wpc, cur, moved, timer,
                 chipVars>>

(* Mutant: the first arm of the join that is done ends the operation.      *)
EndReadFirstArm ==
  /\ wpc = "stream" /\ done = cur.blocks
  /\ cs' = "high"
  /\ ReturnFlash
  /\ UNCHANGED <<window, handlerVars, timer, chipVars>>

(* end_transfer. *)
EndRead ==
  /\ wpc = "stream" /\ moved = cur.blocks /\ done = cur.blocks
  /\ cs' = "high"
  /\ ReturnFlash
  /\ UNCHANGED <<window, handlerVars, timer, chipVars>>

(* Mutant: a page waits for both slots of the buffer.                      *)
StartPageBothFull ==
  /\ wpc = "slot" /\ done + 1 < moved
  /\ wpc' = "window"
  /\ UNCHANGED <<flash, opVars, cs, window, handlerVars, workerVars, chipVars>>

(* receiver.receive yields a block and write_page starts. *)
StartPage ==
  /\ wpc = "slot" /\ done < moved
  /\ wpc' = "window"
  /\ UNCHANGED <<flash, opVars, cs, window, handlerVars, workerVars, chipVars>>

(* WREN is out: CS pulses and the program command and its data follow.     *)
WrenSent ==
  /\ wpc = "wren"
  /\ Execute("wren")
  /\ wpc' = "program"
  /\ UNCHANGED <<flash, opVars, cs, window, handlerVars, workerVars>>

(* Mutant: WIP is polled at once.                                          *)
ProgramSentPollNow ==
  /\ wpc = "program"
  /\ Execute("program")
  /\ cs' = "high"
  /\ wpc' = "headstart" /\ timer' = 0
  /\ UNCHANGED <<flash, opVars, window, handlerVars, cur, moved, done>>

(* The page is out: the head start begins.                                 *)
ProgramSent ==
  /\ wpc = "program"
  /\ Execute("program")
  /\ cs' = "high"
  /\ wpc' = "headstart" /\ timer' = HeadStart
  /\ UNCHANGED <<flash, opVars, window, handlerVars, cur, moved, done>>

(* poll_wip: after the head start, and again 50 us after each poll.        *)
StartPoll ==
  /\ wpc = "headstart" /\ timer = 0
  /\ cs' = "low"
  /\ wpc' = "poll"
  /\ UNCHANGED <<flash, opVars, window, handlerVars, workerVars, chipVars>>

PollAgain ==
  /\ wpc = "poll" /\ Wip
  /\ cs' = "high"
  /\ wpc' = "headstart"
  /\ UNCHANGED <<flash, opVars, window, handlerVars, workerVars, chipVars>>

PageDone ==
  /\ wpc = "poll" /\ ~Wip
  /\ cs' = "high"
  /\ done' = done + 1
  /\ wpc' = "slot"
  /\ UNCHANGED <<flash, opVars, window, handlerVars, cur, moved, timer, chipVars>>

(* Mutant: no settle time.                                                 *)
StartSettleAtOnce ==
  /\ wpc = "slot" /\ done = cur.blocks
  /\ wpc' = "settle" /\ timer' = 0
  /\ UNCHANGED <<flash, opVars, cs, window, handlerVars, cur, moved, done, chipVars>>

(* The last page, or no page at all: the settle timer.                     *)
StartSettle ==
  /\ wpc = "slot" /\ done = cur.blocks
  /\ wpc' = "settle" /\ timer' = Settle
  /\ UNCHANGED <<flash, opVars, cs, window, handlerVars, cur, moved, done, chipVars>>

EndWrite ==
  /\ wpc = "settle" /\ timer = 0
  /\ ReturnFlash
  /\ UNCHANGED <<cs, window, handlerVars, timer, chipVars>>

Worker ==
  \/ WakeUp \/ EndpointEnabled \/ NoWindowLeft \/ WindowPassed \/ PostWindowOver
  \/ ReadCmdSent \/ ReadBlock \/ EndRead
  \/ StartPage \/ WrenSent \/ ProgramSent \/ StartPoll \/ PollAgain \/ PageDone
  \/ StartSettle \/ EndWrite

Next == Handler \/ Worker \/ UsbBlock \/ Tick

Spec == Init /\ [][Next]_vars

(* The executor polls a worker that is woken, DMA and timers end, time     *)
(* passes, and the host moves the blocks it asked for or resets the bus.   *)
(* Nothing makes the host send a request or configure the device.          *)
Fairness == WF_vars(Worker) /\ WF_vars(UsbBlock) /\ WF_vars(Tick)

FairSpec == Spec /\ Fairness

-----------------------------------------------------------------------------
Frames == {"readcmd", "stream", "wren", "program", "poll"}
Locations == Frames \cup
  {"wait", "enable", "window", "postwindow", "slot", "headstart", "settle"}

(* The type invariant: a deadline that has passed stays at 0, and the      *)
(* worker works on no operation that was not set up.                       *)
TypeOK ==
  /\ flash \in {"shared", "worker"}
  /\ bulkOp \in Operation \cup {NoOp} /\ signal \in BOOLEAN
  /\ cs \in {"low", "high"} /\ window \in Nat \cup {NoWindow}
  /\ freq \in Frequencies
  /\ answer \in {"none", "zeros", "wip", "ready", "data"}
  /\ enabled \in BOOLEAN /\ erasing \in BOOLEAN
  /\ wpc \in Locations /\ cur \in Operation \cup {NoOp}
  /\ moved \in Nat /\ done \in Nat /\ timer \in Nat
  /\ wel \in {0, 1} /\ busy \in Nat /\ hidden \in Nat /\ stale \in Nat

(* The handler and the worker share the bus by handing over SPI_FLASH: in  *)
(* the middle of a worker's frame, whatever callbacks come in, the chip    *)
(* stays selected, and once a page is out the bus floats while the worker  *)
(* waits for the chip or for the host ("the bus is Hi-Z whenever CS is     *)
(* deasserted so an in-system controller can own it", spi_flash.rs:15).    *)
ChipSelect ==
  /\ wpc \in Frames => cs = "low"
  /\ wpc = "headstart" \/ (wpc \in {"slot", "settle"} /\ done > 0) => cs = "high"

(* A host that leaves CS low (SET_CS without the other) drives the bus     *)
(* until the next operation: one that has read or programmed anything      *)
(* hands the flash back with the bus Hi-Z, whatever CS was before it and   *)
(* whatever SET_CS came in while it ran.                                   *)
BusReturned ==
  [][(wpc \in {"stream", "settle"} /\ wpc' # wpc /\ (cur.kind = "read" \/ cur.blocks > 0))
       => cs' = "high"]_vars

(* No request changes the clock in the middle of a worker's frame.         *)
ClockStable == [][(wpc \in Frames) => freq' = freq]_vars

(* The worker keeps off the bus until the window of the last erase is over *)
(* ("bulk ops stall", spi_flash.rs:32).                                    *)
WindowHonoured == wpc \in Frames => window = NoWindow

(* A wake-up is never lost and never spurious: an operation is pending     *)
(* exactly as long as the signal is, also across the end of the previous   *)
(* operation.                                                              *)
SignalMatchesOp == signal <=> bulkOp # NoOp

(* An operation whose signal is consumed is run: the branch for a missing  *)
(* flash (main.rs:263) is dead.                                            *)
ConsumedOpRuns ==
  [][signal /\ ~signal' => cur' = bulkOp /\ wpc' = "enable" /\ flash' = "worker"]_vars

(* No page is lost: from the second page on whatever the host did, and     *)
(* from the first if the host waited for its erases, WREN and the program  *)
(* command find the chip idle and the latch set (the head start and the    *)
(* poll of spi_flash.rs:252-259, the window for erases).                   *)
ProgramsLand ==
  wpc \in {"wren", "program"} /\ (PoliteHost \/ done > 0) =>
    busy = 0 /\ (wpc = "program" => wel = 1)

(* A bulk read sees what earlier operations left in the flash: the 25 ms   *)
(* after the last page (main.rs:384-388) and after a window.               *)
ReadsAreFresh ==
  PoliteHost /\ wpc \in {"readcmd", "stream"} => busy = 0 /\ stale = 0

(* The operations of the host run one at a time and whole: the worker      *)
(* takes the last one that was asked for, the endpoint and the SPI are at  *)
(* most the two slots of the buffer apart and in the order of their        *)
(* direction, no page is programmed before its block is there, and the     *)
(* flash goes back when both have had every block, not before (the joins   *)
(* of main.rs:296 and 353).                                                *)
Queue == INSTANCE BulkQueue WITH
  Operations <- Operation, Slots <- 2, pending <- bulkOp,
  running <- IF flash = "worker" THEN cur ELSE NoOp,
  put <- IF flash # "worker" THEN 0 ELSE IF cur.kind = "read" THEN done ELSE moved,
  taken <- IF flash # "worker" THEN 0 ELSE IF cur.kind = "read" THEN moved ELSE done

(* The behaviours BulkQueue allows, under this mapping.                    *)
QueueSpec == Queue!Spec

(* A pending operation is taken, if the host configures the device in the  *)
(* end: no operation before it holds the worker for ever.                  *)
PendingOpRuns == <>[]enabled => (signal ~> ~signal)

(* And the handler gets the flash back when no more operation comes.       *)
FlashReturned == <>[]enabled /\ <>[](~signal) => []<>(flash = "shared")

-----------------------------------------------------------------------------
(* What a comment of the code says and the code does not do.               *)

(* usb_handler.rs:39: "We do the full SPI transaction (write + read)       *)
(* immediately".  A request that comes in while the worker has the flash   *)
(* is accepted and not done, even if the operation has all its blocks.     *)
TransactionIsDone ==
  [][\A c \in Commands : TransceiveOut(c, TRUE) => answer' # "zeros"]_vars
=============================================================================
