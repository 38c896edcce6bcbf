----------------------------- MODULE BulkRead ------------------------------
(***************************************************************************)
(* The double-buffered pipeline of one BulkOperation::Read                 *)
(* (bulk_worker_task, main.rs): start_read has selected the chip and sent  *)
(* the read command; an SPI producer fills the slots of a ZeroCopyChannel  *)
(* by DMA while a USB consumer sends the filled ones to the host, both     *)
(* polled by one join; then end_transfer.                                  *)
(*                                                                         *)
(* An action is what an arm of the join does between two awaits.  A block  *)
(* is named by its position in the stream the chip shifts out after the    *)
(* read command (the chip increments its address by itself), so the value  *)
(* b in a slot is the contents of the flash at address + 512 * b.          *)
(***************************************************************************)
EXTENDS Sequences, ZeroCopyChannel

CONSTANTS
  BlockCounts,  \* the block counts an operation may carry (a u16)
  Zeroed,       \* a slot as allocated: 512 zero bytes
  Torn          \* a slot the DMA is writing

ASSUME BlockCountsAssumption == BlockCounts \subseteq Nat
ASSUME FillAssumption == Zeroed \notin Nat /\ Torn \notin Nat

VARIABLES
  blockCount,   \* block_count of the operation
  buf,          \* the slots of the channel
  spi,          \* the producer: "send" (waits for a slot) or "dma"
  produced,     \* the producer's loop counter _i
  stream,       \* the next block the chip shifts out
  usb,          \* the consumer: "receive" (waits for a slot) or "write"
  consumed,     \* the consumer's loop counter i
  result,       \* the consumer's result: "Ok" or "Err"
  delivered,    \* the blocks the host has received
  ended         \* end_transfer has run

producerVars == <<spi, produced, stream>>
consumerVars == <<usb, consumed, result, delivered>>
vars == <<blockCount, channelVars, buf, producerVars, consumerVars, ended>>

Init ==
  /\ ChannelInit
  /\ blockCount \in BlockCounts
  /\ buf = [s \in SlotIndex |-> Zeroed]
  /\ spi = "send" /\ produced = 0 /\ stream = 0
  /\ usb = "receive" /\ consumed = 0 /\ result = "Ok" /\ delivered = <<>>
  /\ ended = FALSE

-----------------------------------------------------------------------------
(* The SPI producer.                                                       *)

(* The producer's loop goes on.                                            *)
MoreToRead == produced < blockCount

(* sender.send() yields a slot and read_block starts the DMA into it.      *)
StartDma ==
  /\ spi = "send"
  /\ MoreToRead
  /\ CanSend
  /\ spi' = "dma"
  /\ buf' = [buf EXCEPT ![back] = Torn]
  /\ UNCHANGED <<blockCount, channelVars, produced, stream, consumerVars, ended>>

(* The DMA is complete: the slot holds the next block; send_done.          *)
FinishDma ==
  /\ spi = "dma"
  /\ buf' = [buf EXCEPT ![back] = stream]
  /\ stream' = stream + 1
  /\ SendDone
  /\ spi' = "send"
  /\ produced' = produced + 1
  /\ UNCHANGED <<blockCount, consumerVars, ended>>

-----------------------------------------------------------------------------
(* The USB consumer.                                                       *)

(* Mutant: the consumer goes on writing after a failure.                   *)
StartUsbWriteAnyway ==
  /\ usb = "receive"
  /\ consumed < blockCount
  /\ CanReceive
  /\ usb' = "write"
  /\ UNCHANGED <<blockCount, channelVars, buf, producerVars, consumed, result,
                 delivered, ended>>

(* receiver.receive() yields a slot; no write has failed so far, so        *)
(* write_bulk_block hands it to the endpoint.                              *)
StartUsbWrite ==
  /\ usb = "receive"
  /\ consumed < blockCount
  /\ CanReceive
  /\ result = "Ok"
  /\ usb' = "write"
  /\ UNCHANGED <<blockCount, channelVars, buf, producerVars, consumed, result,
                 delivered, ended>>

(* Mutant: the consumer stops at a failure.                                *)
DropNothing == FALSE

(* After a failure the remaining slots are received and dropped.           *)
DropBlock ==
  /\ usb = "receive"
  /\ consumed < blockCount
  /\ CanReceive
  /\ result = "Err"
  /\ ReceiveDone
  /\ consumed' = consumed + 1
  /\ UNCHANGED <<blockCount, buf, producerVars, usb, result, delivered, ended>>

Deliver == delivered' = Append(delivered, buf[front])

(* Mutant: the slot is handed back only after a successful write.          *)
UsbWriteErrKeepsSlot ==
  /\ usb = "write"
  /\ Deliver \/ UNCHANGED delivered
  /\ usb' = "receive"
  /\ consumed' = consumed + 1
  /\ result' = "Err"
  /\ UNCHANGED <<blockCount, channelVars, buf, producerVars, ended>>

(* Mutant: the failure is logged and forgotten.                            *)
ForgetFailure == UNCHANGED result

(* The failure is kept in the consumer's result.                           *)
RecordFailure == result' = "Err"

(* ep_in.write returns Ok: the host has the packet; receive_done.          *)
UsbWriteOk ==
  /\ usb = "write"
  /\ Deliver
  /\ ReceiveDone
  /\ usb' = "receive"
  /\ consumed' = consumed + 1
  /\ UNCHANGED <<blockCount, buf, producerVars, result, ended>>

(* ep_in.write returns an error (the endpoint was disabled).  The host may *)
(* have taken the packet before it reset the bus.                          *)
UsbWriteErr ==
  /\ usb = "write"
  /\ Deliver \/ UNCHANGED delivered
  /\ ReceiveDone
  /\ usb' = "receive"
  /\ consumed' = consumed + 1
  /\ RecordFailure
  /\ UNCHANGED <<blockCount, buf, producerVars, ended>>

-----------------------------------------------------------------------------
(* Both arms of the join are done: end_transfer.                           *)
EndTransfer ==
  /\ ~ended
  /\ spi = "send" /\ produced = blockCount
  /\ usb = "receive" /\ consumed = blockCount
  /\ ended' = TRUE
  /\ UNCHANGED <<blockCount, channelVars, buf, producerVars, consumerVars>>

Next ==
  \/ StartDma \/ FinishDma
  \/ StartUsbWrite \/ DropBlock \/ UsbWriteOk \/ UsbWriteErr
  \/ EndTransfer

Spec == Init /\ [][Next]_vars

(* The executor polls both arms whenever they are woken, a DMA completes,  *)
(* and a write to the endpoint ends: the host polls it or resets the bus.  *)
Fairness ==
  /\ WF_vars(StartDma) /\ WF_vars(FinishDma)
  /\ WF_vars(StartUsbWrite) /\ WF_vars(DropBlock)
  /\ WF_vars(UsbWriteOk \/ UsbWriteErr)
  /\ WF_vars(EndTransfer)

FairSpec == Spec /\ Fairness

-----------------------------------------------------------------------------
(* The type invariant: the loop counters stay within block_count, and a    *)
(* slot or packet holds a block, zeros or a block under DMA.               *)
TypeOK ==
  /\ ChannelTypeOK
  /\ blockCount \in BlockCounts
  /\ buf \in [SlotIndex -> Nat \cup {Zeroed, Torn}]
  /\ spi \in {"send", "dma"}
  /\ produced \in 0 .. blockCount
  /\ stream \in Nat
  /\ usb \in {"receive", "write"}
  /\ consumed \in 0 .. blockCount
  /\ result \in {"Ok", "Err"}
  /\ delivered \in Seq(Nat \cup {Zeroed, Torn})
  /\ ended \in BOOLEAN

(* The host receives the blocks of the flash from the start address on, in *)
(* order, without gap or repetition, and never a slot that is being filled *)
(* or was filled for another block: what the double buffer of main.rs:289  *)
(* must not break however DMA and USB completions interleave.              *)
DeliveredInOrder ==
  \A k \in 1 .. Len(delivered) : delivered[k] = k - 1

(* The slots in flight hold the next blocks of the stream, oldest first,   *)
(* and the loop counters of the two arms differ by their number.            *)
SlotsInFlight ==
  /\ produced = consumed + inFlight
  /\ produced = stream
  /\ \A n \in 0 .. inFlight - 1 : buf[Behind(front, n)] = consumed + n

(* The DMA never writes the slot that the endpoint is sending.             *)
NoSharedSlot ==
  ~(spi = "dma" /\ usb = "write" /\ back = front)

(* The operation ends, so the worker gets to return the flash: a USB       *)
(* failure in the middle leaves neither arm of the join waiting.           *)
EventuallyEnds == <>ended

(* The pipeline implements the contract of a bulk operation: in particular *)
(* no later block of this operation reaches the host after a failed write, *)
(* even if the endpoint is enabled again while the pipeline drains, and an *)
(* operation that ends with Ok ("Bulk READ complete", main.rs:327) has     *)
(* delivered every block.                                                  *)
Transfer == INSTANCE BlockTransfer WITH
  total <- blockCount, moved <- delivered, failed <- (result = "Err")

(* The behaviours BlockTransfer allows, under this mapping.                *)
TransferSpec == Transfer!Spec
=============================================================================
