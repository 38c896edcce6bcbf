-------------------------- MODULE BulkReadProofs ---------------------------
(***************************************************************************)
(* Proofs about BulkRead for every set of block counts.                    *)
(***************************************************************************)
EXTENDS BulkRead, TLAPS

(* The ring of the channel.                                                *)

(* The sender's slot is a slot of the ring, and none of those in flight.   *)
LEMMA SenderSlot ==
  ASSUME ChannelTypeOK, CanSend
  PROVE  /\ back \in SlotIndex
         /\ \A n \in 0 .. inFlight - 1 :
              Behind(front, n) \in SlotIndex /\ Behind(front, n) # back
  BY DEF ChannelTypeOK, CanSend, back, Behind, SlotIndex, Capacity

(* The receiver's slot is the oldest in flight.                            *)
LEMMA ReceiverSlot ==
  ASSUME ChannelTypeOK, CanReceive
  PROVE  /\ 0 \in 0 .. inFlight - 1
         /\ Behind(front, 0) = front
         /\ front \in SlotIndex
         /\ CanSend => back # front
  BY DEF ChannelTypeOK, CanReceive, CanSend, back, Behind, SlotIndex, Capacity

(* send_done keeps the slots in flight and puts the sender's behind them.  *)
LEMMA SendDoneStep ==
  ASSUME ChannelTypeOK, CanSend, SendDone
  PROVE  /\ ChannelTypeOK'
         /\ inFlight \in Nat /\ inFlight' = inFlight + 1 /\ front' = front
         /\ CanReceive'
         /\ back = Behind(front, inFlight)
  BY DEF ChannelTypeOK, CanSend, CanReceive, SendDone, back, Capacity

(* receive_done drops the oldest slot and moves the others up.             *)
LEMMA ReceiveDoneStep ==
  ASSUME ChannelTypeOK, CanReceive, ReceiveDone
  PROVE  /\ ChannelTypeOK'
         /\ inFlight \in Nat /\ inFlight' = inFlight - 1
         /\ CanSend'
         /\ \A n \in 0 .. inFlight' - 1 :
              /\ n + 1 \in 0 .. inFlight - 1
              /\ Behind(front', n) = Behind(front, n + 1)
<1>1. ChannelTypeOK' /\ inFlight \in 1 .. 2 /\ inFlight' = inFlight - 1 /\ CanSend'
  BY DEF ChannelTypeOK, CanReceive, CanSend, ReceiveDone, Behind, SlotIndex,
         Capacity
<1>2. ASSUME NEW n \in 0 .. inFlight' - 1
      PROVE  n + 1 \in 0 .. inFlight - 1 /\ Behind(front', n) = Behind(front, n + 1)
  BY <1>1, <1>2 DEF ChannelTypeOK, ReceiveDone, Behind, SlotIndex, Capacity
<1>3. QED
  BY <1>1, <1>2

-----------------------------------------------------------------------------
(* The pipeline over it.                                                   *)

(* The arms hold a slot they may hold, and the consumer's result tells how *)
(* much the host has.                                                      *)
ArmsInStep ==
  /\ spi = "dma" => CanSend /\ produced < blockCount
  /\ usb = "write" => CanReceive /\ consumed < blockCount /\ result = "Ok"
  /\ result = "Ok" => Len(delivered) = consumed
  /\ ended => usb = "receive" /\ consumed = blockCount

(* Type correctness, the two invariants of the ring, and what follows from *)
(* them for the host.                                                      *)
IInv == TypeOK /\ SlotsInFlight /\ ArmsInStep /\ DeliveredInOrder

(* The invariant holds when the pipeline starts.                           *)
LEMMA InitIInv == Init => IInv
<1> SUFFICES ASSUME Init PROVE IInv
  OBVIOUS
<1>1. /\ front = 0 /\ inFlight = 0 /\ blockCount \in Nat
      /\ spi = "send" /\ produced = 0 /\ stream = 0
      /\ usb = "receive" /\ consumed = 0 /\ result = "Ok" /\ delivered = <<>>
  BY BlockCountsAssumption DEF Init, ChannelInit
<1>2. TypeOK
  <2>1. ChannelTypeOK /\ produced \in 0 .. blockCount /\ stream \in Nat
        /\ consumed \in 0 .. blockCount
    BY <1>1 DEF ChannelTypeOK, SlotIndex, Capacity
  <2>2. buf \in [SlotIndex -> Nat \cup {Zeroed, Torn}]
    BY DEF Init
  <2>3. blockCount \in BlockCounts /\ ended \in BOOLEAN
    BY DEF Init
  <2>4. delivered \in Seq(Nat \cup {Zeroed, Torn})
    BY <1>1
  <2>5. QED
    BY <1>1, <2>1, <2>2, <2>3, <2>4 DEF TypeOK
<1>3. SlotsInFlight /\ DeliveredInOrder
  BY <1>1 DEF SlotsInFlight, DeliveredInOrder
<1>4. ended = FALSE
  BY DEF Init
<1>5. ArmsInStep
  BY <1>1, <1>4 DEF ArmsInStep
<1>6. QED
  BY <1>2, <1>3, <1>5 DEF IInv

(* A delivery appends the block that is next for the host.                 *)
LEMMA DeliverNext ==
  ASSUME IInv, usb = "write", Deliver
  PROVE  /\ buf[front] = Len(delivered)
         /\ delivered' \in Seq(Nat \cup {Zeroed, Torn})
         /\ Len(delivered') = consumed + 1
         /\ \A k \in 1 .. Len(delivered') : delivered'[k] = k - 1
<1>1. buf[front] = consumed /\ Len(delivered) = consumed /\ consumed \in Nat
  <2>1. CanReceive /\ ChannelTypeOK /\ consumed \in Nat /\ Len(delivered) = consumed
    BY BlockCountsAssumption DEF IInv, TypeOK, ArmsInStep
  <2>2. buf[Behind(front, 0)] = consumed + 0
    BY <2>1, ReceiverSlot DEF IInv, SlotsInFlight
  <2>3. QED
    BY <2>1, <2>2, ReceiverSlot
<1>2. delivered \in Seq(Nat \cup {Zeroed, Torn})
  BY DEF IInv, TypeOK
<1>3. delivered' = Append(delivered, consumed)
  BY <1>1 DEF Deliver
<1>4. QED
  BY <1>1, <1>2, <1>3 DEF IInv, DeliveredInOrder

(* Receiving a slot keeps everything but the history of the deliveries.    *)
LEMMA ReleaseSlot ==
  ASSUME IInv, CanReceive, ReceiveDone, consumed < blockCount,
         usb' = "receive", consumed' = consumed + 1,
         UNCHANGED <<blockCount, buf, spi, produced, stream, ended>>,
         result' \in {"Ok", "Err"},
         delivered' \in Seq(Nat \cup {Zeroed, Torn}),
         result' = "Ok" => Len(delivered') = consumed + 1,
         DeliveredInOrder'
  PROVE  IInv'
<1>1. /\ ChannelTypeOK' /\ CanSend'
      /\ inFlight \in Nat /\ inFlight' = inFlight - 1
      /\ \A n \in 0 .. inFlight' - 1 :
           n + 1 \in 0 .. inFlight - 1 /\ Behind(front', n) = Behind(front, n + 1)
  BY ReceiveDoneStep DEF IInv, TypeOK
<1>2. consumed \in Nat /\ blockCount \in Nat
  BY BlockCountsAssumption DEF IInv, TypeOK
<1>3. TypeOK'
  BY <1>1, <1>2 DEF IInv, TypeOK
<1>4. SlotsInFlight'
  <2>1. ASSUME NEW n \in 0 .. inFlight' - 1
        PROVE  buf'[Behind(front', n)] = consumed' + n
    <3>1. buf[Behind(front, n + 1)] = consumed + (n + 1)
      BY <1>1, <2>1 DEF IInv, SlotsInFlight
    <3>2. QED
      BY <1>1, <1>2, <2>1, <3>1
  <2>2. produced' = consumed' + inFlight' /\ produced' = stream'
    BY <1>1, <1>2 DEF IInv, SlotsInFlight
  <2>3. QED
    BY <2>1, <2>2 DEF SlotsInFlight
<1>5. ArmsInStep'
  BY <1>1, <1>2 DEF IInv, ArmsInStep, TypeOK
<1>6. QED
  BY <1>3, <1>4, <1>5 DEF IInv

(* Every step of the pipeline keeps the invariant.                         *)
LEMMA NextIInv == IInv /\ [Next]_vars => IInv'
<1> SUFFICES ASSUME IInv, [Next]_vars PROVE IInv'
  OBVIOUS
<1> USE BlockCountsAssumption DEF IInv
<1>1. CASE StartDma
  <2>1. /\ back \in SlotIndex
        /\ \A n \in 0 .. inFlight - 1 :
             Behind(front, n) \in SlotIndex /\ Behind(front, n) # back
    BY <1>1, SenderSlot DEF StartDma, MoreToRead, TypeOK
  <2>2. TypeOK'
    BY <1>1, <2>1 DEF StartDma, MoreToRead, TypeOK, channelVars, consumerVars, ChannelTypeOK
  <2>3. SlotsInFlight'
    BY <1>1, <2>1
    DEF StartDma, MoreToRead, TypeOK, SlotsInFlight, channelVars, consumerVars, Behind
  <2>4. ArmsInStep' /\ DeliveredInOrder'
    BY <1>1
    DEF StartDma, MoreToRead, ArmsInStep, DeliveredInOrder, channelVars, consumerVars,
        CanSend, CanReceive
  <2>5. QED
    BY <2>2, <2>3, <2>4
<1>2. CASE FinishDma
  <2>1. CanSend /\ SendDone /\ ChannelTypeOK /\ produced < blockCount
    BY <1>2 DEF FinishDma, TypeOK, ArmsInStep
  <2>2. /\ back \in SlotIndex
        /\ \A n \in 0 .. inFlight - 1 :
             Behind(front, n) \in SlotIndex /\ Behind(front, n) # back
    BY <2>1, SenderSlot
  <2>3. /\ ChannelTypeOK' /\ CanReceive' /\ front' = front
        /\ inFlight \in Nat /\ inFlight' = inFlight + 1
        /\ back = Behind(front, inFlight)
    BY <2>1, SendDoneStep
  <2>4. TypeOK'
    BY <1>2, <2>1, <2>2, <2>3 DEF FinishDma, TypeOK, consumerVars
  <2>5. SlotsInFlight'
    <3>1. produced' = consumed' + inFlight' /\ produced' = stream'
      BY <1>2, <2>3 DEF FinishDma, TypeOK, SlotsInFlight, consumerVars
    <3>2. ASSUME NEW n \in 0 .. inFlight' - 1
          PROVE  buf'[Behind(front', n)] = consumed' + n
      <4>1. CASE n = inFlight
        BY <1>2, <2>2, <2>3, <4>1
        DEF FinishDma, TypeOK, SlotsInFlight, consumerVars
      <4>2. CASE n # inFlight
        <5>1. n \in 0 .. inFlight - 1 /\ Behind(front', n) = Behind(front, n)
          BY <2>3, <3>2, <4>2
        <5>2. QED
          BY <1>2, <2>2, <5>1 DEF FinishDma, TypeOK, SlotsInFlight, consumerVars
      <4>3. QED
        BY <4>1, <4>2
    <3>3. QED
      BY <3>1, <3>2 DEF SlotsInFlight
  <2>6. ArmsInStep'
    BY <1>2, <2>3 DEF FinishDma, ArmsInStep, consumerVars
  <2>7. DeliveredInOrder'
    BY <1>2 DEF FinishDma, consumerVars, DeliveredInOrder
  <2>8. QED
    BY <2>4, <2>5, <2>6, <2>7
<1>3. CASE StartUsbWrite
  BY <1>3
  DEF StartUsbWrite, TypeOK, SlotsInFlight, ArmsInStep, DeliveredInOrder,
      channelVars, producerVars, ChannelTypeOK, SlotIndex, Capacity, Behind,
      back, CanSend, CanReceive
<1>4. CASE DropBlock
  BY <1>4, ReleaseSlot DEF DropBlock, producerVars, TypeOK, DeliveredInOrder
<1>5. CASE UsbWriteOk
  <2>1. /\ delivered' \in Seq(Nat \cup {Zeroed, Torn})
        /\ Len(delivered') = consumed + 1
        /\ DeliveredInOrder'
    BY <1>5, DeliverNext DEF UsbWriteOk, DeliveredInOrder
  <2>2. QED
    BY <1>5, <2>1, ReleaseSlot DEF UsbWriteOk, producerVars, TypeOK, ArmsInStep
<1>6. CASE UsbWriteErr
  <2>1. delivered' \in Seq(Nat \cup {Zeroed, Torn}) /\ DeliveredInOrder'
    <3>1. CASE Deliver
      BY <1>6, <3>1, DeliverNext DEF UsbWriteErr, RecordFailure, DeliveredInOrder
    <3>2. CASE UNCHANGED delivered
      BY <3>2 DEF TypeOK, DeliveredInOrder
    <3>3. QED
      BY <1>6, <3>1, <3>2 DEF UsbWriteErr
  <2>2. QED
    BY <1>6, <2>1, ReleaseSlot DEF UsbWriteErr, RecordFailure, producerVars, TypeOK, ArmsInStep
<1>7. CASE EndTransfer
  BY <1>7
  DEF EndTransfer, TypeOK, SlotsInFlight, ArmsInStep, DeliveredInOrder,
      channelVars, producerVars, consumerVars, ChannelTypeOK, SlotIndex,
      Capacity, Behind, back, CanSend, CanReceive
<1>8. CASE UNCHANGED vars
  BY <1>8
  DEF vars, channelVars, producerVars, consumerVars, TypeOK, SlotsInFlight,
      ArmsInStep, DeliveredInOrder, ChannelTypeOK, SlotIndex, Capacity, Behind,
      back, CanSend, CanReceive
<1>9. QED
  BY <1>1, <1>2, <1>3, <1>4, <1>5, <1>6, <1>7, <1>8 DEF Next

(* So it holds throughout.                                                 *)
LEMMA Invariance == Spec => []IInv
  BY InitIInv, NextIInv, PTL DEF Spec

(* The variables of BulkRead keep their types.                             *)
THEOREM TypeCorrect == Spec => []TypeOK
<1>1. IInv => TypeOK
  BY DEF IInv
<1>2. QED
  BY <1>1, Invariance, PTL

(* Whatever the block count and however DMA and USB interleave, the host   *)
(* receives the blocks of the flash in order, without gap or repetition.   *)
THEOREM OrderedDelivery == Spec => []DeliveredInOrder
<1>1. IInv => DeliveredInOrder
  BY DEF IInv
<1>2. QED
  BY <1>1, Invariance, PTL

(* The slots in flight hold the next blocks of the stream, oldest first,   *)
(* however often the ring has wrapped.                                     *)
THEOREM SlotsHoldNext == Spec => []SlotsInFlight
<1>1. IInv => SlotsInFlight
  BY DEF IInv
<1>2. QED
  BY <1>1, Invariance, PTL

(* The DMA never writes the slot that the endpoint is sending.             *)
THEOREM SlotsNotShared == Spec => []NoSharedSlot
<1>1. IInv => NoSharedSlot
  BY ReceiverSlot DEF IInv, TypeOK, ArmsInStep, NoSharedSlot
<1>2. QED
  BY <1>1, Invariance, PTL

-----------------------------------------------------------------------------
(* A pipeline that starts is a transfer that starts.                       *)
LEMMA RefineInit == Init => Transfer!Init
  BY BlockCountsAssumption DEF Init, Transfer!Init

(* A step of the pipeline is a step of the transfer or leaves it alone.    *)
LEMMA RefineNext == IInv /\ [Next]_vars => [Transfer!Next]_(Transfer!vars)
<1> SUFFICES ASSUME IInv, [Next]_vars
             PROVE  [Transfer!Next]_(Transfer!vars)
  OBVIOUS
<1>1. ASSUME UNCHANGED <<blockCount, delivered, result, ended>>
      PROVE  UNCHANGED Transfer!vars
  BY <1>1 DEF Transfer!vars
<1>2. CASE UsbWriteOk
  <2>1. Transfer!MoveBlock
    BY <1>2, DeliverNext, BlockCountsAssumption
    DEF UsbWriteOk, Deliver, IInv, ArmsInStep, TypeOK, Transfer!MoveBlock
  <2>2. QED
    BY <1>2, <2>1 DEF UsbWriteOk, Transfer!Next, Transfer!Move
<1>3. CASE UsbWriteErr
  <2>1. ~ended /\ result = "Ok" /\ Len(delivered) < blockCount
    BY <1>3, BlockCountsAssumption DEF UsbWriteErr, RecordFailure, IInv, ArmsInStep, TypeOK
  <2>2. Transfer!MoveBlock \/ UNCHANGED delivered
    BY <1>3, <2>1, DeliverNext DEF UsbWriteErr, RecordFailure, Deliver, Transfer!MoveBlock
  <2>3. QED
    BY <1>3, <2>1, <2>2 DEF UsbWriteErr, RecordFailure, Transfer!Next, Transfer!Fail
<1>4. CASE EndTransfer
  BY <1>4
  DEF EndTransfer, consumerVars, IInv, ArmsInStep, TypeOK, Transfer!Next,
      Transfer!End
<1>5. CASE StartDma \/ FinishDma \/ StartUsbWrite \/ DropBlock \/ UNCHANGED vars
  BY <1>1, <1>5
  DEF StartDma, MoreToRead, FinishDma, StartUsbWrite, DropBlock, vars, consumerVars
<1>6. QED
  BY <1>2, <1>3, <1>4, <1>5 DEF Next

(* The read pipeline implements the contract of a bulk operation: nothing  *)
(* moves after a failed write, and an operation that ends without failure  *)
(* has moved every block.                                                  *)
THEOREM Refinement == Spec => TransferSpec
<1>1. Init => Transfer!Init
  BY RefineInit
<1>2. IInv /\ [Next]_vars => [Transfer!Next]_(Transfer!vars)
  BY RefineNext
<1>3. QED
  BY <1>1, <1>2, Invariance, PTL DEF Spec, TransferSpec, Transfer!Spec

-----------------------------------------------------------------------------
(* The pipeline as a part of the queue of operations: a read that runs     *)
(* until it has ended, with what its arms have put into the buffer and     *)
(* taken out of it.                                                        *)
NoRead == [kind |-> "none", blocks |-> 0]
ThisRead == [kind |-> "read", blocks |-> blockCount]

Queue == INSTANCE BulkQueue WITH
  Operations <- {}, NoOp <- NoRead, Slots <- Capacity, pending <- NoRead,
  running <- IF ended THEN NoRead ELSE ThisRead,
  put <- IF ended THEN 0 ELSE produced, taken <- IF ended THEN 0 ELSE consumed

LEMMA ReadIsOne == ThisRead # NoRead /\ ThisRead.blocks = blockCount
<1>1. ThisRead.kind = "read" /\ NoRead.kind = "none" /\ ThisRead.blocks = blockCount
  BY DEF ThisRead, NoRead
<1> QED BY <1>1

LEMMA QueueStep == IInv /\ [Next]_vars => [Queue!Next]_(Queue!vars)
<1> SUFFICES ASSUME IInv, [Next]_vars PROVE Queue!Next \/ UNCHANGED Queue!vars
  OBVIOUS
<1>1. /\ produced \in Nat /\ consumed \in Nat /\ inFlight \in 0 .. 2 /\ blockCount \in Nat
      /\ produced = consumed + inFlight /\ produced <= blockCount /\ consumed <= blockCount
      /\ ended \in BOOLEAN
  BY BlockCountsAssumption DEF IInv, TypeOK, SlotsInFlight, ChannelTypeOK, Capacity
<1>2. CASE FinishDma
  <2>1. /\ ~ended /\ produced < blockCount /\ inFlight < 2 /\ produced' = produced + 1
        /\ UNCHANGED <<blockCount, consumed, ended>>
    BY <1>1, <1>2
    DEF FinishDma, consumerVars, IInv, ArmsInStep, CanSend, Capacity
  <2>2. ThisRead' = ThisRead
    BY <2>1 DEF ThisRead
  <2>3. Queue!PutBlock
    BY <1>1, <2>1, <2>2, ReadIsOne DEF Queue!PutBlock, Capacity
  <2> QED BY <2>3 DEF Queue!Next
<1>3. CASE DropBlock \/ UsbWriteOk \/ UsbWriteErr
  <2>1. /\ ~ended /\ inFlight > 0 /\ consumed' = consumed + 1
        /\ UNCHANGED <<blockCount, produced, ended>>
    BY <1>1, <1>3
    DEF DropBlock, UsbWriteOk, UsbWriteErr, producerVars, IInv, ArmsInStep, CanReceive
  <2>2. ThisRead' = ThisRead
    BY <2>1 DEF ThisRead
  <2>3. Queue!TakeBlock
    BY <1>1, <2>1, <2>2, ReadIsOne DEF Queue!TakeBlock
  <2> QED BY <2>3 DEF Queue!Next
<1>4. CASE EndTransfer
  <2>1. ~ended /\ ended' = TRUE /\ produced = blockCount /\ consumed = blockCount
    BY <1>4 DEF EndTransfer
  <2>2. Queue!Finish
    BY <2>1, ReadIsOne DEF Queue!Finish
  <2> QED BY <2>2 DEF Queue!Next
<1>5. CASE StartDma \/ StartUsbWrite \/ UNCHANGED vars
  <2>1. UNCHANGED <<blockCount, produced, consumed, ended>>
    BY <1>5
    DEF StartDma, StartUsbWrite, vars, producerVars, consumerVars
  <2> QED BY <2>1 DEF Queue!vars, ThisRead
<1> QED BY <1>2, <1>3, <1>4, <1>5 DEF Next

(* The arms of the join move the blocks of a read as BulkQueue says, and   *)
(* end as it says, whatever fails.  FlashSession, which has two counters   *)
(* in the place of this pipeline, keeps the same queue.                    *)
THEOREM ArmsKeepTheQueue == Spec => [][Queue!Next]_(Queue!vars)
BY QueueStep, Invariance, PTL DEF Spec
=============================================================================
