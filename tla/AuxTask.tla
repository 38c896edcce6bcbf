------------------------------ MODULE AuxTask -------------------------------
(***************************************************************************)
(* The auxiliary interface (aux_usb.rs): aux_task serves the requests of   *)
(* EP3 and writes responses, pulse events and batches of UART bytes to     *)
(* EP4; uart_rx_task and uart_tx_task stand between the two queues, the    *)
(* baud signal and the USART.                                              *)
(*                                                                         *)
(* An action is what a task does between two awaits.  While aux_task       *)
(* awaits a write to EP4, it serves nothing else, but the other tasks run. *)
(* Of a pulse only its deadline is kept: BoardGpio has the pins.  The      *)
(* bytes of each direction are numbered as they come.                      *)
(***************************************************************************)
EXTENDS Integers, Sequences

CONSTANTS
  QueueSize,    \* of UART_RX and of UART_TX: 256
  PayloadLen,   \* MAX_PAYLOAD_LEN: 61
  FlushDelay,   \* the 1 ms of a batch, in ticks
  Durations,    \* pulse durations of a request, in ticks
  Bauds,        \* baud rates of a request
  MinBaud,      \* the clamp of set_baud: 300 ..
  MaxBaud,      \* .. 3000000
  DefaultBaud,  \* the rate of the USART after boot: 115200
  Settable,     \* the rates rx.set_config takes (external)
  WriteLens,    \* lengths of a UART write
  MaxRequests,  \* bound: the requests of the host
  MaxBytes      \* bound: the bytes on the RX line

ASSUME AuxAssumption ==
  /\ QueueSize \in Nat \ {0} /\ PayloadLen \in Nat \ {0} /\ FlushDelay \in Nat
  /\ Durations \subseteq Nat /\ Bauds \subseteq Nat
  /\ MinBaud \in Nat /\ MaxBaud \in Nat /\ DefaultBaud \in MinBaud .. MaxBaud
  /\ WriteLens \subseteq 0 .. PayloadLen
  /\ MaxRequests \in Nat /\ MaxBytes \in Nat

(* A packet whose header promises more than it carries is "malformed"; a   *)
(* command that is unknown or of a wrong length is "invalid".  A request   *)
(* with id 0 wants no response.                                            *)
Requests ==
  [cmd : {"malformed", "invalid", "get_state", "set_gpio"}, arg : {0}, response : BOOLEAN]
  \cup [cmd : {"pulse_low"}, arg : Durations, response : BOOLEAN]
  \cup [cmd : {"set_baud"}, arg : Bauds, response : BOOLEAN]
  \cup [cmd : {"uart_write"}, arg : WriteLens, response : BOOLEAN]

None == -1
NoPacket == [cmd |-> "none"]

VARIABLES
  enabled,    \* the host has configured the device
  out,        \* the packet in EP3, or NoPacket
  requests,   \* how many requests the host has sent
  pc,         \* aux_task: at "wait_enabled", in "select4" or in a "write" to EP4
  writing,    \* what it writes: "response", "gpio_state" or "uart_data"
  pulse,      \* ticks to the deadline of the pulse, or None
  batch,      \* uart_buf[..uart_len]
  flush,      \* ticks to uart_deadline, or None
  uartRx,     \* UART_RX
  received,   \* how many bytes the RX line has carried
  arriving,   \* the one the USART receives just now, or None
  gone,       \* how many were dropped or were in a write that failed
  delivered,  \* the UART bytes the host has read from EP4
  uartTx,     \* UART_TX
  sending,    \* the byte the USART sends, or None
  line,       \* the bytes on the TX line
  failed,     \* how many were lost to a tx.write that failed
  accepted,   \* how many bytes of UART writes were answered with STATUS_OK
  uartBaud,   \* UART_BAUD, or None
  baud,       \* the baud rate of the USART
  wanted      \* the last baud rate the host has set

hostVars == <<enabled, out, requests>>
taskVars == <<pc, writing, pulse, batch, flush>>
rxVars == <<uartRx, received, arriving, gone, delivered>>
txVars == <<uartTx, sending, line, failed, accepted>>
baudVars == <<uartBaud, baud, wanted>>
vars == <<hostVars, taskVars, rxVars, txVars, baudVars>>

Init ==
  /\ enabled = FALSE /\ out = NoPacket /\ requests = 0
  /\ pc = "wait_enabled" /\ writing = "response"
  /\ pulse = None /\ batch = <<>> /\ flush = None
  /\ uartRx = <<>> /\ received = 0 /\ arriving = None /\ gone = 0 /\ delivered = <<>>
  /\ uartTx = <<>> /\ sending = None /\ line = <<>> /\ failed = 0 /\ accepted = 0
  /\ uartBaud = None /\ baud = DefaultBaud /\ wanted = DefaultBaud

-----------------------------------------------------------------------------
(* The host, and time.                                                     *)

Send(r) ==
  /\ enabled /\ out = NoPacket /\ requests < MaxRequests
  /\ out' = r /\ requests' = requests + 1
  /\ UNCHANGED <<enabled, taskVars, rxVars, txVars, baudVars>>

(* A reset of the bus empties the endpoint. *)
Configured(b) ==
  /\ enabled' = b
  /\ out' = IF b THEN out ELSE NoPacket
  /\ UNCHANGED <<requests, taskVars, rxVars, txVars, baudVars>>

Down(t) == IF t > 0 THEN t - 1 ELSE t

Tick ==
  /\ pulse > 0 \/ flush > 0
  /\ pulse' = Down(pulse) /\ flush' = Down(flush)
  /\ UNCHANGED <<hostVars, pc, writing, batch, rxVars, txVars, baudVars>>

-----------------------------------------------------------------------------
(* uart_rx_task and uart_tx_task.                                          *)

RxStart ==
  /\ arriving = None /\ received < MaxBytes
  /\ received' = received + 1 /\ arriving' = received'
  /\ UNCHANGED <<hostVars, taskVars, uartRx, gone, delivered, txVars, baudVars>>

(* Mutant: a full queue makes room for the byte.                           *)
DropOldest ==
  IF Len(uartRx) < QueueSize
  THEN uartRx' = Append(uartRx, arriving) /\ UNCHANGED gone
  ELSE uartRx' = Append(Tail(uartRx), arriving) /\ UNCHANGED gone

(* try_send drops the byte if the queue is full. *)
TakeByte ==
  IF Len(uartRx) < QueueSize
  THEN uartRx' = Append(uartRx, arriving) /\ UNCHANGED gone
  ELSE gone' = gone + 1 /\ UNCHANGED uartRx

RxByte ==
  /\ arriving # None
  /\ TakeByte
  /\ arriving' = None
  /\ UNCHANGED <<hostVars, taskVars, received, delivered, txVars, baudVars>>

(* The byte does not reach rx.read's buffer. *)
LoseArriving == gone' = gone + 1 /\ arriving' = None

(* A framing or overrun error: the byte is lost. *)
RxErr ==
  /\ arriving # None
  /\ LoseArriving
  /\ UNCHANGED <<hostVars, taskVars, uartRx, received, delivered, txVars, baudVars>>

(* The baud signal wins the select and rx.read is cancelled: the byte on   *)
(* the line is lost with it, or the next rx.read still gets it.  The       *)
(* result of set_config is ignored: a rate it refuses is forgotten.        *)
SetBaud ==
  /\ uartBaud # None
  /\ baud' = IF uartBaud \in Settable THEN uartBaud ELSE baud
  /\ uartBaud' = None
  /\ (arriving # None /\ LoseArriving) \/ UNCHANGED <<arriving, gone>>
  /\ UNCHANGED <<hostVars, taskVars, uartRx, received, delivered, txVars, wanted>>

TxTake ==
  /\ sending = None /\ uartTx # <<>>
  /\ sending' = Head(uartTx) /\ uartTx' = Tail(uartTx)
  /\ UNCHANGED <<hostVars, taskVars, rxVars, line, failed, accepted, baudVars>>

TxDone ==
  /\ sending # None
  /\ line' = Append(line, sending) /\ sending' = None
  /\ UNCHANGED <<hostVars, taskVars, rxVars, uartTx, failed, accepted, baudVars>>

(* The result of tx.write is ignored too: the next byte follows.           *)
TxErr ==
  /\ sending # None
  /\ failed' = failed + 1 /\ sending' = None
  /\ UNCHANGED <<hostVars, taskVars, rxVars, uartTx, line, accepted, baudVars>>

-----------------------------------------------------------------------------
(* aux_task.                                                               *)

EndpointsEnabled ==
  /\ pc = "wait_enabled" /\ enabled
  /\ pc' = "select4"
  /\ UNCHANGED <<hostVars, writing, pulse, batch, flush, rxVars, txVars, baudVars>>

(* write_packet begins; its result is ignored.                             *)
WritePacket(kind) == pc' = "write" /\ writing' = kind

(* Mutant: the rate is bounded above only.                                 *)
ClampAbove(b) == IF b > MaxBaud THEN MaxBaud ELSE b

Clamp(b) == IF b < MinBaud THEN MinBaud ELSE IF b > MaxBaud THEN MaxBaud ELSE b

(* Mutant: one free place is enough.                                       *)
RoomForOne(n) == Len(uartTx) < QueueSize

RoomFor(n) == QueueSize - Len(uartTx) >= n

(* The queue after a try_send of each byte of s: what does not fit is lost.*)
TrySend(queue, s) ==
  IF Len(queue \o s) <= QueueSize THEN queue \o s ELSE SubSeq(queue \o s, 1, QueueSize)

(* The bytes of a write that is accepted, all of them or none.             *)
UartWrite(n) ==
  IF RoomFor(n)
  THEN /\ uartTx' = TrySend(uartTx, [k \in 1 .. n |-> accepted + k])
       /\ accepted' = accepted + n
  ELSE UNCHANGED <<uartTx, accepted>>

(* Mutant: only the first rate is kept until it is taken.                  *)
SignalBaudOnce(b) == uartBaud' = IF uartBaud = None THEN Clamp(b) ELSE uartBaud

SignalBaud(b) == uartBaud' = Clamp(b)

(* The first arm, Ok: handle_packet. *)
HandlePacket ==
  /\ pc = "select4" /\ out # NoPacket
  /\ out' = NoPacket
  /\ IF out.cmd = "set_gpio" THEN pulse' = None
     ELSE IF out.cmd = "pulse_low" THEN pulse' = out.arg ELSE UNCHANGED pulse
  /\ IF out.cmd = "set_baud" THEN SignalBaud(out.arg) /\ wanted' = Clamp(out.arg)
     ELSE UNCHANGED <<uartBaud, wanted>>
  /\ IF out.cmd = "uart_write" THEN UartWrite(out.arg) ELSE UNCHANGED <<uartTx, accepted>>
  /\ IF out.response /\ out.cmd # "malformed" THEN WritePacket("response")
     ELSE pc' = "wait_enabled" /\ UNCHANGED writing
  /\ UNCHANGED <<enabled, requests, batch, flush, rxVars, sending, line, failed, baud>>

(* The first arm, Err: the endpoint is disabled. *)
ReadErr ==
  /\ pc = "select4" /\ ~enabled
  /\ pc' = "wait_enabled"
  /\ UNCHANGED <<hostVars, writing, pulse, batch, flush, rxVars, txVars, baudVars>>

(* Mutant: the pulse is looked at when the flush timer ends.               *)
PulseTimerSwapped == flush = 0 /\ pulse = 0

PulseTimer == pulse = 0

(* select4 polls its arms in order: an arm is taken if none before it can. *)
ReadReady == out # NoPacket \/ ~enabled

(* The second arm: the pulse is due. *)
FinishPulse ==
  /\ pc = "select4" /\ ~ReadReady /\ PulseTimer
  /\ pulse' = None
  /\ WritePacket("gpio_state")
  /\ UNCHANGED <<hostVars, batch, flush, rxVars, txVars, baudVars>>

(* The third arm: the batch is due; it is not empty (BatchArmed). *)
FlushDue ==
  /\ pc = "select4" /\ ~ReadReady /\ ~PulseTimer /\ flush = 0
  /\ WritePacket("uart_data")
  /\ UNCHANGED <<hostVars, pulse, batch, flush, rxVars, txVars, baudVars>>

(* Mutants: the batch is flushed one byte late; its deadline is set by     *)
(* every byte but the first.                                               *)
BatchOverfull == Len(batch') > PayloadLen

DeadlineLate == flush' = IF batch = <<>> THEN None ELSE FlushDelay

BatchFull == Len(batch') = PayloadLen

Deadline == flush' = IF batch = <<>> THEN FlushDelay ELSE flush

(* The fourth arm: a byte joins the batch, and a full batch is flushed. *)
BatchByte ==
  /\ pc = "select4" /\ ~ReadReady /\ ~PulseTimer /\ flush # 0 /\ uartRx # <<>>
  /\ batch' = Append(batch, Head(uartRx)) /\ uartRx' = Tail(uartRx)
  /\ Deadline
  /\ IF BatchFull THEN WritePacket("uart_data")
     ELSE pc' = "wait_enabled" /\ UNCHANGED writing
  /\ UNCHANGED <<hostVars, pulse, received, arriving, gone, delivered, txVars, baudVars>>

(* Mutant: the batch is not reset after the write.                         *)
KeepBatch == IF writing = "uart_data" THEN flush' = None /\ UNCHANGED batch
             ELSE UNCHANGED <<batch, flush>>

(* After the write of a batch uart_len and uart_deadline are reset.        *)
ResetBatch == IF writing = "uart_data" THEN batch' = <<>> /\ flush' = None
              ELSE UNCHANGED <<batch, flush>>

Deliver ==
  /\ delivered' = IF writing = "uart_data" THEN delivered \o batch ELSE delivered
  /\ UNCHANGED gone

Lose ==
  /\ gone' = IF writing = "uart_data" THEN gone + Len(batch) ELSE gone
  /\ UNCHANGED delivered

(* The host has read the packet. *)
WriteOk ==
  /\ pc = "write" /\ enabled
  /\ Deliver /\ ResetBatch
  /\ pc' = "wait_enabled"
  /\ UNCHANGED <<hostVars, writing, pulse, uartRx, received, arriving, txVars, baudVars>>

(* The endpoint is disabled, perhaps after the host has read the packet.   *)
WriteErr ==
  /\ pc = "write" /\ ~enabled
  /\ Deliver \/ Lose
  /\ ResetBatch
  /\ pc' = "wait_enabled"
  /\ UNCHANGED <<hostVars, writing, pulse, uartRx, received, arriving, txVars, baudVars>>

AuxArms == HandlePacket \/ ReadErr \/ FinishPulse \/ FlushDue \/ BatchByte

Host == (\E r \in Requests : Send(r)) \/ (\E b \in BOOLEAN : Configured(b))

Next ==
  \/ Host \/ Tick
  \/ RxStart \/ RxByte \/ RxErr \/ SetBaud \/ TxTake \/ TxDone \/ TxErr
  \/ EndpointsEnabled \/ AuxArms \/ WriteOk \/ WriteErr

Spec == Init /\ [][Next]_vars

(* The executor polls the tasks, time passes, the USART sends, and the     *)
(* host reads EP4.  A host that never stops sending could keep the later   *)
(* arms of select4 waiting for ever: MaxRequests makes it stop.            *)
Fairness ==
  /\ WF_vars(Tick) /\ WF_vars(SetBaud) /\ WF_vars(TxTake) /\ WF_vars(TxDone \/ TxErr)
  /\ WF_vars(EndpointsEnabled) /\ WF_vars(AuxArms) /\ WF_vars(WriteOk \/ WriteErr)

FairSpec == Spec /\ Fairness

-----------------------------------------------------------------------------
(* The type invariant: no queue runs over, and the USART is only ever      *)
(* given a rate within the clamp.                                          *)
TypeOK ==
  /\ enabled \in BOOLEAN /\ out \in Requests \cup {NoPacket} /\ requests \in 0 .. MaxRequests
  /\ pc \in {"wait_enabled", "select4", "write"}
  /\ writing \in {"response", "gpio_state", "uart_data"}
  /\ pulse \in Nat \cup {None} /\ flush \in Nat \cup {None}
  /\ batch \in Seq(Nat) /\ uartRx \in Seq(Nat) /\ delivered \in Seq(Nat)
  /\ Len(uartRx) <= QueueSize /\ Len(uartTx) <= QueueSize
  /\ received \in 0 .. MaxBytes /\ gone \in Nat
  /\ arriving = None \/ arriving = received
  /\ uartTx \in Seq(Nat) /\ sending \in Nat \cup {None} /\ line \in Seq(Nat)
  /\ failed \in Nat /\ accepted \in Nat
  /\ uartBaud = None \/ uartBaud \in MinBaud .. MaxBaud
  /\ baud \in MinBaud .. MaxBaud /\ wanted \in MinBaud .. MaxBaud

(* When aux_task looks for work, the next byte has a place in uart_buf     *)
(* (uart_buf[uart_len] would panic), and a batch that is not empty has a   *)
(* deadline, so that it cannot wait for ever: flush_uart, uart_len and     *)
(* uart_deadline go together across the two places that flush.             *)
BatchArmed ==
  pc # "write" => Len(batch) < PayloadLen /\ (flush # None <=> batch # <<>>)

Ascending(s) == \A j, k \in DOMAIN s : j < k => s[j] < s[k]
Before(s, t) == \A j \in DOMAIN s, k \in DOMAIN t : s[j] < t[k]

(* The host reads the bytes of the RX line in order and none twice, and    *)
(* each is accounted for: a byte is lost only to a full UART_RX, a line    *)
(* error, a change of the baud rate or a disabled endpoint.                *)
UartStream ==
  /\ Ascending(delivered) /\ Ascending(batch) /\ Ascending(uartRx)
  /\ Before(delivered, batch) /\ Before(delivered, uartRx) /\ Before(batch, uartRx)
  /\ received = Len(delivered) + Len(batch) + Len(uartRx) + gone
                  + (IF arriving = None THEN 0 ELSE 1)

(* A UART write answered with STATUS_OK reaches the USART whole, in order  *)
(* and unmixed with others: what UART_TX must not drop.  Only a tx.write   *)
(* that fails keeps a byte from the line.                                  *)
AcceptedBytesSent ==
  LET over == Len(line) + failed
      taken == over + (IF sending = None THEN 0 ELSE 1)
  IN  /\ Ascending(line) /\ \A k \in DOMAIN line : line[k] \in 1 .. over
      /\ sending # None => sending = taken
      /\ \A k \in DOMAIN uartTx : uartTx[k] = taken + k
      /\ accepted = taken + Len(uartTx)

(* The USART gets the last baud rate the host has set, whenever            *)
(* uart_rx_task takes it, if it is one that set_config takes.              *)
LastBaudWins ==
  IF uartBaud # None THEN uartBaud = wanted ELSE wanted \in Settable => baud = wanted

(* A pulse ends, if the device is configured in the end and its host reads *)
(* EP4: no batch and no response holds it for ever.                        *)
PulseEnds == <>[]enabled => (pulse # None ~> pulse = None)

(* And what the RX line carried leaves the device.                         *)
BytesLeave == <>[]enabled => <>[](batch = <<>> /\ uartRx = <<>>)
=============================================================================
