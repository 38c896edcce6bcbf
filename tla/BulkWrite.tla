----------------------------- MODULE BulkWrite -----------------------------
(***************************************************************************)
(* The double-buffered pipeline of one BulkOperation::Write                *)
(* (bulk_worker_task, main.rs): a USB producer reassembles blocks of 512   *)
(* bytes from the packets of the host in the slots of a ZeroCopyChannel,   *)
(* an SPI consumer programs the first 256 bytes of each into the flash.    *)
(* write_page is one step here; FlashSession has its steps.                *)
(*                                                                         *)
(* The unit of data is half a block (256 bytes, one page): the host sends  *)
(* the units 0, 1, 2, ... and block b consists of the units 2b, the page,  *)
(* and 2b + 1, the padding.                                                *)
(***************************************************************************)
EXTENDS Sequences, ZeroCopyChannel

CONSTANTS
  BlockCounts,      \* the block counts an operation may carry (a u16)
  StartAddresses,   \* the start addresses an operation may carry (a u32)
  PageSize,         \* 256
  AddressSpace,     \* 2^32: the address is a u32 and wraps
  PacketSizes,      \* the sizes, in units, of the packets the host sends
  Zeroed            \* half a slot as allocated: zero bytes

(* An empty packet changes nothing in read_bulk_block and is left out.     *)
ASSUME OperationAssumption ==
  /\ BlockCounts \subseteq Nat
  /\ AddressSpace \in Nat \ {0}
  /\ PageSize \in Nat \ {0}
  /\ StartAddresses \subseteq 0 .. AddressSpace - 1
ASSUME PacketAssumption == PacketSizes \subseteq 1 .. 2
ASSUME ZeroedAssumption == Zeroed \notin Nat

VARIABLES
  blockCount,   \* block_count of the operation
  start,        \* its address
  buf,          \* the slots of the channel
  usb,          \* the producer: "send" (waits for a slot) or "read"
  offset,       \* read_bulk_block's offset, in units
  received,     \* the producer's loop counter i
  result,       \* the producer's result: "Ok" or "Err"
  sent,         \* the units the host has sent
  good,         \* history: the blocks received whole before any failure
  spi,          \* the consumer: "receive", "program", "settle" or "done"
  address,      \* the address of the next page
  flashed,      \* the pages programmed, in order
  ended         \* the join is over

producerVars == <<usb, offset, received, result, sent, good>>
consumerVars == <<spi, address, flashed>>
vars == <<blockCount, start, channelVars, buf, producerVars, consumerVars, ended>>

BlockUnits == 2
Unit == 0 .. BlockUnits - 1

Init ==
  /\ ChannelInit
  /\ blockCount \in BlockCounts
  /\ start \in StartAddresses
  /\ buf = [s \in SlotIndex |-> [u \in Unit |-> Zeroed]]
  /\ usb = "send" /\ offset = 0 /\ received = 0 /\ result = "Ok"
  /\ sent = 0 /\ good = 0
  /\ spi = "receive" /\ address = start /\ flashed = <<>>
  /\ ended = FALSE

-----------------------------------------------------------------------------
(* The USB producer.                                                       *)

(* sender.send() yields a slot and read_bulk_block starts.                 *)
StartBlock ==
  /\ usb = "send"
  /\ received < blockCount
  /\ CanSend
  /\ result = "Ok"
  /\ usb' = "read"
  /\ offset' = 0
  /\ UNCHANGED <<blockCount, start, channelVars, buf, received, result, sent,
                 good, consumerVars, ended>>

(* Mutant: the producer stops at a failure.                                *)
PassNothing == FALSE

(* After a failure the remaining slots are sent as they are.               *)
PassSlot ==
  /\ usb = "send"
  /\ received < blockCount
  /\ CanSend
  /\ result = "Err"
  /\ SendDone
  /\ received' = received + 1
  /\ UNCHANGED <<blockCount, start, buf, usb, offset, result, sent, good,
                 consumerVars, ended>>

(* Mutant: every packet lands at the start of the slot.                    *)
FilledFromStart(n) == [u \in Unit |-> IF u < n THEN sent + u ELSE buf[back][u]]

(* The slot after a packet of n units, which lands at buf[offset..].       *)
Filled(n) ==
  [u \in Unit |-> IF u \in offset .. offset + n - 1
                  THEN sent + (u - offset) ELSE buf[back][u]]

(* A packet of n units is read; a full block is published.                 *)
Packet(n) ==
  /\ usb = "read"
  /\ n <= BlockUnits - offset
  /\ buf' = [buf EXCEPT ![back] = Filled(n)]
  /\ sent' = sent + n
  /\ offset' = offset + n
  /\ IF offset + n < BlockUnits
     THEN UNCHANGED <<channelVars, usb, received, good>>
     ELSE SendDone /\ usb' = "send" /\ received' = received + 1 /\ good' = good + 1
  /\ UNCHANGED <<blockCount, start, result, consumerVars, ended>>

(* The failure is kept in the producer's result.                           *)
RecordFailure == result' = "Err"

(* ep_out.read returns an error: the endpoint was disabled, or the packet  *)
(* does not fit in buf[offset..].  The slot is published as it is.         *)
UsbReadErr ==
  /\ usb = "read"
  /\ RecordFailure
  /\ SendDone
  /\ usb' = "send"
  /\ received' = received + 1
  /\ UNCHANGED <<blockCount, start, buf, offset, sent, good, consumerVars, ended>>

-----------------------------------------------------------------------------
(* The SPI consumer.                                                       *)

(* receiver.receive() yields a slot and write_page starts.                 *)
StartPage ==
  /\ spi = "receive"
  /\ Len(flashed) < blockCount
  /\ CanReceive
  /\ spi' = "program"
  /\ UNCHANGED <<blockCount, start, channelVars, buf, producerVars, address,
                 flashed, ended>>

(* Mutant: a step of a whole block.                                        *)
NextAddressByBlock == (address + BlockUnits * PageSize) % AddressSpace

(* address.wrapping_add(PAGE_SIZE).                                        *)
NextAddress == (address + PageSize) % AddressSpace

(* write_page has programmed slot[..PAGE_SIZE] and seen WIP clear.         *)
FinishPage ==
  /\ spi = "program"
  /\ flashed' = Append(flashed, [at |-> address, data |-> buf[front][0]])
  /\ ReceiveDone
  /\ address' = NextAddress
  /\ spi' = "receive"
  /\ UNCHANGED <<blockCount, start, buf, producerVars, ended>>

(* The loop is over: the settle timer of 25 ms.                            *)
StartSettle ==
  /\ spi = "receive"
  /\ Len(flashed) = blockCount
  /\ spi' = "settle"
  /\ UNCHANGED <<blockCount, start, channelVars, buf, producerVars, address,
                 flashed, ended>>

Settled ==
  /\ spi = "settle"
  /\ spi' = "done"
  /\ UNCHANGED <<blockCount, start, channelVars, buf, producerVars, address,
                 flashed, ended>>

-----------------------------------------------------------------------------
(* Mutant: the first arm that is done ends the operation.                  *)
EndWhenReceived ==
  /\ ~ended
  /\ usb = "send" /\ received = blockCount
  /\ ended' = TRUE
  /\ UNCHANGED <<blockCount, start, channelVars, buf, producerVars, consumerVars>>

(* Both arms of the join are done.                                         *)
EndWrite ==
  /\ ~ended
  /\ usb = "send" /\ received = blockCount
  /\ spi = "done"
  /\ ended' = TRUE
  /\ UNCHANGED <<blockCount, start, channelVars, buf, producerVars, consumerVars>>

Next ==
  \/ StartBlock \/ PassSlot \/ (\E n \in PacketSizes : Packet(n)) \/ UsbReadErr
  \/ StartPage \/ FinishPage \/ StartSettle \/ Settled
  \/ EndWrite

Spec == Init /\ [][Next]_vars

(* The executor polls both arms whenever they are woken, write_page and    *)
(* the timer end, and so does a read of the endpoint: the host goes on     *)
(* sending or resets the bus.                                              *)
Fairness ==
  /\ WF_vars(StartBlock) /\ WF_vars(PassSlot)
  /\ WF_vars((\E n \in PacketSizes : Packet(n)) \/ UsbReadErr)
  /\ WF_vars(StartPage) /\ WF_vars(FinishPage)
  /\ WF_vars(StartSettle) /\ WF_vars(Settled)
  /\ WF_vars(EndWrite)

FairSpec == Spec /\ Fairness

-----------------------------------------------------------------------------
Cell == Nat \cup {Zeroed}

(* The type invariant: the loop counters stay within block_count, a packet *)
(* never runs over its block, and the address stays a u32.                 *)
TypeOK ==
  /\ ChannelTypeOK
  /\ blockCount \in BlockCounts
  /\ start \in StartAddresses
  /\ buf \in [SlotIndex -> [Unit -> Cell]]
  /\ usb \in {"send", "read"}
  /\ offset \in 0 .. BlockUnits
  /\ received \in 0 .. blockCount
  /\ result \in {"Ok", "Err"}
  /\ sent \in Nat
  /\ good \in 0 .. blockCount
  /\ spi \in {"receive", "program", "settle", "done"}
  /\ address \in 0 .. AddressSpace - 1
  /\ flashed \in Seq([at : 0 .. AddressSpace - 1, data : Cell])
  /\ ended \in BOOLEAN

(* Up to the first USB failure, page k of the flash gets the first half of *)
(* block k of the host, whether the host cuts its blocks in halves or      *)
(* sends them whole and however reception and programming overlap.         *)
PagesCarryTheirBlock ==
  \A k \in 1 .. Len(flashed) : k <= good => flashed[k].data = BlockUnits * (k - 1)

(* Every page the operation programs, the ones after a failure included,   *)
(* lies where the host asked for a page, and none is programmed twice.     *)
PagesInCommandedRange ==
  /\ Len(flashed) <= blockCount
  /\ \A k \in 1 .. Len(flashed) :
       flashed[k].at = (start + PageSize * (k - 1)) % AddressSpace

(* USB never fills the slot that is being programmed.                      *)
NoSharedSlot ==
  ~(usb = "read" /\ spi = "program" /\ back = front)

(* The operation ends: a USB failure in the middle leaves neither arm of   *)
(* the join waiting for the other, and the worker gets to return the flash *)
EventuallyEnds == <>ended

(* The pipeline implements the contract of a bulk operation as far as the  *)
(* pages that carry data of the host go.                                   *)
Arrived == IF Len(flashed) <= good THEN Len(flashed) ELSE good

Transfer == INSTANCE BlockTransfer WITH
  total <- blockCount,
  moved <- [k \in 1 .. Arrived |-> flashed[k].data \div BlockUnits],
  failed <- (result = "Err" /\ good <= Len(flashed))

(* The behaviours BlockTransfer allows, under this mapping.                *)
TransferSpec == Transfer!Spec
=============================================================================
