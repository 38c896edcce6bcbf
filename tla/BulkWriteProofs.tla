-------------------------- MODULE BulkWriteProofs --------------------------
(***************************************************************************)
(* Proofs about BulkWrite for every set of block counts, start addresses   *)
(* and packet sizes.                                                       *)
(***************************************************************************)
EXTENDS Integers, BulkWrite, TLAPS

(* The ring of the channel.                                                *)

(* The sender's slot is a slot of the ring, and none of those in flight.   *)
LEMMA SenderSlot ==
  ASSUME ChannelTypeOK, CanSend
  PROVE  /\ back \in SlotIndex
         /\ \A n \in 0 .. inFlight - 1 :
              Behind(front, n) \in SlotIndex /\ Behind(front, n) # back
  BY DEF ChannelTypeOK, CanSend, back, Behind, SlotIndex, Capacity

(* The receiver's slot is the oldest in flight.                            *)
LEMMA ReceiverSlot ==
  ASSUME ChannelTypeOK, CanReceive
  PROVE  /\ 0 \in 0 .. inFlight - 1
         /\ Behind(front, 0) = front
         /\ front \in SlotIndex
         /\ CanSend => back # front
  BY DEF ChannelTypeOK, CanReceive, CanSend, back, Behind, SlotIndex, Capacity

(* send_done keeps the slots in flight and puts the sender's behind them.  *)
LEMMA SendDoneStep ==
  ASSUME ChannelTypeOK, CanSend, SendDone
  PROVE  /\ ChannelTypeOK'
         /\ inFlight \in Nat /\ inFlight' = inFlight + 1 /\ front' = front
         /\ CanReceive'
         /\ back = Behind(front, inFlight)
  BY DEF ChannelTypeOK, CanSend, CanReceive, SendDone, back, Capacity

(* receive_done drops the oldest slot and moves the others up.             *)
LEMMA ReceiveDoneStep ==
  ASSUME ChannelTypeOK, CanReceive, ReceiveDone
  PROVE  /\ ChannelTypeOK'
         /\ inFlight \in Nat /\ inFlight' = inFlight - 1
         /\ CanSend'
         /\ \A n \in 0 .. inFlight' - 1 :
              /\ n + 1 \in 0 .. inFlight - 1
              /\ Behind(front', n) = Behind(front, n + 1)
<1>1. ChannelTypeOK' /\ inFlight \in 1 .. 2 /\ inFlight' = inFlight - 1 /\ CanSend'
  BY DEF ChannelTypeOK, CanReceive, CanSend, ReceiveDone, Behind, SlotIndex,
         Capacity
<1>2. ASSUME NEW n \in 0 .. inFlight' - 1
      PROVE  n + 1 \in 0 .. inFlight - 1 /\ Behind(front', n) = Behind(front, n + 1)
  BY <1>1, <1>2 DEF ChannelTypeOK, ReceiveDone, Behind, SlotIndex, Capacity
<1>3. QED
  BY <1>1, <1>2

-----------------------------------------------------------------------------
(* The pipeline over it.                                                   *)

(* The two loop counters differ by the slots in flight, and each arm that  *)
(* holds a slot may hold it.                                               *)
ArmsInStep ==
  /\ received = Len(flashed) + inFlight
  /\ usb = "read" => CanSend /\ received < blockCount /\ result = "Ok"
  /\ spi = "program" => CanReceive /\ Len(flashed) < blockCount
  /\ spi \in {"settle", "done"} => Len(flashed) = blockCount
  /\ ended => usb = "send" /\ received = blockCount /\ spi = "done"

(* The blocks received whole come first, and the units sent are theirs and *)
(* those of the block being received.                                      *)
UnitsCounted ==
  /\ good <= received
  /\ result = "Ok" => good = received
  /\ result = "Ok" /\ usb = "send" => sent = BlockUnits * good
  /\ usb = "read" => sent = BlockUnits * good + offset /\ offset < BlockUnits

(* The slots in flight that were received whole hold the pages to come,    *)
(* and so does the slot being received once its first unit is in.          *)
SlotsInFlight ==
  /\ \A n \in 0 .. inFlight - 1 :
       Len(flashed) + n < good =>
         buf[Behind(front, n)][0] = BlockUnits * (Len(flashed) + n)
  /\ usb = "read" /\ offset > 0 => buf[back][0] = BlockUnits * good

IInv ==
  TypeOK /\ ArmsInStep /\ UnitsCounted /\ SlotsInFlight /\ PagesCarryTheirBlock

-----------------------------------------------------------------------------
(* The invariant holds when the pipeline starts.                           *)
LEMMA InitIInv == Init => IInv
<1> SUFFICES ASSUME Init PROVE IInv
  OBVIOUS
<1>1. /\ front = 0 /\ inFlight = 0 /\ blockCount \in Nat
      /\ usb = "send" /\ offset = 0 /\ received = 0 /\ result = "Ok"
      /\ sent = 0 /\ good = 0 /\ spi = "receive" /\ flashed = <<>>
      /\ Len(flashed) = 0
  BY OperationAssumption DEF Init, ChannelInit
<1>2. ended = FALSE
  BY DEF Init
<1>3. TypeOK
  <2>1. ChannelTypeOK /\ offset \in 0 .. BlockUnits /\ sent \in Nat
        /\ received \in 0 .. blockCount /\ good \in 0 .. blockCount
    BY <1>1 DEF ChannelTypeOK, SlotIndex, Capacity, BlockUnits
  <2>2. buf \in [SlotIndex -> [Unit -> Cell]]
    BY DEF Init, Cell
  <2>3. /\ blockCount \in BlockCounts /\ start \in StartAddresses
        /\ address \in 0 .. AddressSpace - 1
    BY OperationAssumption DEF Init
  <2>4. flashed \in Seq([at : 0 .. AddressSpace - 1, data : Cell])
    BY <1>1
  <2>5. QED
    BY <1>1, <1>2, <2>1, <2>2, <2>3, <2>4 DEF TypeOK
<1>4. ArmsInStep /\ UnitsCounted
  BY <1>1, <1>2 DEF ArmsInStep, UnitsCounted, BlockUnits
<1>5. SlotsInFlight /\ PagesCarryTheirBlock
  BY <1>1 DEF SlotsInFlight, PagesCarryTheirBlock
<1>6. QED
  BY <1>3, <1>4, <1>5 DEF IInv

(* Publishing the slot at back: what it holds matters only if the block    *)
(* was received whole.                                                     *)
LEMMA PublishSlot ==
  ASSUME IInv, CanSend, SendDone, usb \in {"send", "read"}, usb' = "send",
         received < blockCount, received' = received + 1,
         UNCHANGED <<blockCount, start, spi, address, flashed, ended>>,
         buf' \in [SlotIndex -> [Unit -> Cell]],
         \A s \in SlotIndex : s # back => buf'[s] = buf[s],
         ~ ended,
         offset' \in 0 .. BlockUnits, sent' \in Nat, result' \in {"Ok", "Err"},
         good' \in {good, good + 1},
         good' = good + 1 => /\ good = received
                             /\ buf'[back][0] = BlockUnits * good,
         result' = "Ok" => good' = good + 1 /\ sent' = BlockUnits * (good + 1)
  PROVE  IInv'
<1>1. /\ ChannelTypeOK' /\ CanReceive' /\ front' = front
      /\ inFlight \in Nat /\ inFlight' = inFlight + 1
      /\ back = Behind(front, inFlight)
  BY SendDoneStep DEF IInv, TypeOK
<1>2. /\ back \in SlotIndex
      /\ \A n \in 0 .. inFlight - 1 :
           Behind(front, n) \in SlotIndex /\ Behind(front, n) # back
  BY SenderSlot DEF IInv, TypeOK
<1>3. /\ blockCount \in Nat /\ Len(flashed) \in Nat
      /\ received \in Nat /\ good \in Nat
      /\ good <= received /\ received = Len(flashed) + inFlight
  BY OperationAssumption DEF IInv, TypeOK, ArmsInStep, UnitsCounted
<1>4. TypeOK'
  BY <1>1, <1>3 DEF IInv, TypeOK
<1>5. ArmsInStep'
  BY <1>1, <1>3 DEF IInv, ArmsInStep
<1>6. UnitsCounted'
  BY <1>3 DEF IInv, UnitsCounted
<1>7. SlotsInFlight'
  <2>1. ASSUME NEW n \in 0 .. inFlight' - 1, Len(flashed) + n < good'
        PROVE  buf'[Behind(front', n)][0] = BlockUnits * (Len(flashed) + n)
    <3>1. CASE n = inFlight
      <4>1. good' = good + 1 /\ good = received
        BY <1>3, <2>1, <3>1
      <4>2. buf'[back][0] = BlockUnits * good /\ good = Len(flashed) + n
        BY <1>3, <3>1, <4>1
      <4>3. QED
        BY <1>1, <3>1, <4>2
    <3>2. CASE n # inFlight
      <4>1. n \in 0 .. inFlight - 1 /\ Behind(front', n) = Behind(front, n)
        BY <1>1, <2>1, <3>2
      <4>2. Len(flashed) + n < good
        <5>1. n \in Nat /\ n < inFlight
          BY <1>1, <4>1
        <5>2. CASE good' = good
          BY <2>1, <5>2
        <5>3. CASE good' = good + 1
          BY <1>1, <1>3, <5>1, <5>3
        <5>4. QED
          BY <5>2, <5>3
      <4>3. buf[Behind(front, n)][0] = BlockUnits * (Len(flashed) + n)
        BY <4>1, <4>2 DEF IInv, SlotsInFlight
      <4>4. QED
        BY <1>2, <4>1, <4>3
    <3>3. QED
      BY <3>1, <3>2
  <2>2. QED
    BY <2>1 DEF SlotsInFlight
<1>8. PagesCarryTheirBlock'
  <2>1. ASSUME NEW k \in 1 .. Len(flashed), k <= good'
        PROVE  k <= good
    BY <1>1, <1>3, <2>1
  <2>2. QED
    BY <2>1 DEF IInv, PagesCarryTheirBlock
<1>9. QED
  BY <1>4, <1>5, <1>6, <1>7, <1>8 DEF IInv

(* A packet that leaves the block incomplete, or completes it.             *)
LEMMA PacketStep ==
  ASSUME IInv, NEW n \in PacketSizes, Packet(n)
  PROVE  IInv'
<1>1. /\ usb = "read" /\ CanSend /\ received < blockCount /\ result = "Ok" /\ ~ ended
      /\ good = received /\ sent = BlockUnits * good + offset /\ offset < BlockUnits
  BY DEF IInv, Packet, ArmsInStep, UnitsCounted
<1>2. /\ blockCount \in Nat /\ received \in Nat /\ good \in Nat /\ sent \in Nat
      /\ offset \in Nat /\ n \in 1 .. 2 /\ n <= BlockUnits - offset
      /\ ChannelTypeOK /\ buf \in [SlotIndex -> [Unit -> Cell]]
  BY OperationAssumption, PacketAssumption
  DEF IInv, TypeOK, Packet, BlockUnits
<1>3. /\ back \in SlotIndex
      /\ \A m \in 0 .. inFlight - 1 :
           Behind(front, m) \in SlotIndex /\ Behind(front, m) # back
  BY <1>1, <1>2, SenderSlot
<1> DEFINE filled == Filled(n)
<1>4. buf' = [buf EXCEPT ![back] = filled]
  BY DEF Packet
<1>5. filled \in [Unit -> Cell]
  BY <1>2, <1>3 DEF Filled, Cell
<1>6. /\ buf' \in [SlotIndex -> [Unit -> Cell]]
      /\ \A s \in SlotIndex : s # back => buf'[s] = buf[s]
      /\ buf'[back] = filled
  BY <1>2, <1>3, <1>4, <1>5
<1>7. filled[0] = BlockUnits * good
  <2>1. 0 \in Unit
    BY DEF Unit, BlockUnits
  <2>2. CASE offset = 0
    BY <1>1, <1>2, <2>1, <2>2 DEF Filled, BlockUnits
  <2>3. CASE offset # 0
    BY <1>1, <1>2, <2>1, <2>3 DEF IInv, SlotsInFlight, Filled
  <2>4. QED
    BY <2>2, <2>3
<1>8. CASE offset + n < BlockUnits
  <2>1. /\ UNCHANGED <<front, inFlight, usb, received, good, blockCount, start,
                        result, spi, address, flashed, ended>>
        /\ sent' = sent + n /\ offset' = offset + n
    BY <1>8 DEF Packet, channelVars, consumerVars
  <2>2. TypeOK'
    BY <1>2, <1>6, <1>8, <2>1 DEF IInv, TypeOK, ChannelTypeOK, BlockUnits
  <2>3. ArmsInStep' /\ PagesCarryTheirBlock'
    BY <2>1 DEF IInv, ArmsInStep, PagesCarryTheirBlock, CanSend, CanReceive
  <2>4. UnitsCounted'
    BY <1>1, <1>2, <1>8, <2>1 DEF IInv, UnitsCounted, BlockUnits
  <2>5. SlotsInFlight'
    BY <1>3, <1>6, <1>7, <2>1 DEF IInv, SlotsInFlight, Behind, back
  <2>6. QED
    BY <2>2, <2>3, <2>4, <2>5 DEF IInv
<1>9. CASE ~(offset + n < BlockUnits)
  <2>1. /\ SendDone /\ usb' = "send" /\ received' = received + 1 /\ good' = good + 1
        /\ UNCHANGED <<blockCount, start, result, spi, address, flashed, ended>>
        /\ sent' = sent + n /\ offset' = offset + n
    BY <1>9 DEF Packet, consumerVars
  <2>2. offset' = BlockUnits /\ offset' \in 0 .. BlockUnits
    BY <1>2, <1>9, <2>1 DEF BlockUnits
  <2>3. sent' = BlockUnits * (good + 1) /\ sent' \in Nat
    BY <1>1, <1>2, <2>1, <2>2 DEF BlockUnits
  <2>4. QED
    BY <1>1, <1>6, <1>7, <2>1, <2>2, <2>3, PublishSlot
<1>10. QED
  BY <1>8, <1>9

(* A page is programmed: the oldest slot in flight leaves.                 *)
LEMMA FinishPageStep ==
  ASSUME IInv, FinishPage
  PROVE  /\ IInv'
         /\ Len(flashed) < good => buf[front][0] = BlockUnits * Len(flashed)
<1>1. /\ ChannelTypeOK /\ CanReceive /\ ReceiveDone
      /\ Len(flashed) < blockCount /\ ~ ended
      /\ received = Len(flashed) + inFlight
  BY DEF IInv, TypeOK, FinishPage, ArmsInStep
<1>2. /\ ChannelTypeOK' /\ CanSend'
      /\ inFlight \in Nat /\ inFlight' = inFlight - 1
      /\ \A n \in 0 .. inFlight' - 1 :
           n + 1 \in 0 .. inFlight - 1 /\ Behind(front', n) = Behind(front, n + 1)
  BY <1>1, ReceiveDoneStep
<1>3. 0 \in 0 .. inFlight - 1 /\ Behind(front, 0) = front /\ front \in SlotIndex
  BY <1>1, ReceiverSlot
<1>4. /\ UNCHANGED <<blockCount, start, buf, usb, offset, received, result, sent,
                      good, ended>>
      /\ flashed' = Append(flashed, [at |-> address, data |-> buf[front][0]])
      /\ address' = (address + PageSize) % AddressSpace
      /\ spi' = "receive"
  BY DEF FinishPage, NextAddress, producerVars
<1>5. /\ Len(flashed) \in Nat /\ good \in Nat /\ blockCount \in Nat
      /\ flashed \in Seq([at : 0 .. AddressSpace - 1, data : Cell])
      /\ address \in 0 .. AddressSpace - 1
      /\ buf[front][0] \in Cell
  BY <1>3, OperationAssumption DEF IInv, TypeOK, Unit, BlockUnits
<1>6. Len(flashed) < good => buf[front][0] = BlockUnits * Len(flashed)
  BY <1>3, <1>5 DEF IInv, SlotsInFlight
<1>7. TypeOK'
  <2>1. address' \in 0 .. AddressSpace - 1
    BY <1>4, <1>5, OperationAssumption
  <2>2. flashed' \in Seq([at : 0 .. AddressSpace - 1, data : Cell])
    BY <1>4, <1>5
  <2>3. QED
    BY <1>2, <1>4, <2>1, <2>2 DEF IInv, TypeOK
<1>8. Len(flashed') = Len(flashed) + 1
  BY <1>4, <1>5
<1>9. ArmsInStep'
  BY <1>1, <1>2, <1>4, <1>5, <1>8 DEF IInv, ArmsInStep
<1>10. UnitsCounted'
  BY <1>4 DEF IInv, UnitsCounted
<1>11. SlotsInFlight'
  <2>1. ASSUME NEW n \in 0 .. inFlight' - 1, Len(flashed') + n < good
        PROVE  buf[Behind(front', n)][0] = BlockUnits * (Len(flashed') + n)
    <3>1. buf[Behind(front, n + 1)][0] = BlockUnits * (Len(flashed) + (n + 1))
      BY <1>2, <1>5, <1>8, <2>1 DEF IInv, SlotsInFlight
    <3>2. QED
      BY <1>2, <1>5, <1>8, <2>1, <3>1
  <2>2. back' = back
    BY <1>1 DEF back, Behind, ReceiveDone, ChannelTypeOK, CanReceive, SlotIndex,
                Capacity
  <2>3. QED
    BY <1>4, <2>1, <2>2 DEF IInv, SlotsInFlight
<1>12. PagesCarryTheirBlock'
  <2>1. ASSUME NEW k \in 1 .. Len(flashed'), k <= good
        PROVE  flashed'[k].data = BlockUnits * (k - 1)
    <3>1. CASE k = Len(flashed) + 1
      BY <1>4, <1>5, <1>6, <2>1, <3>1
    <3>2. CASE k # Len(flashed) + 1
      <4>1. k \in 1 .. Len(flashed) /\ flashed'[k] = flashed[k]
        BY <1>4, <1>5, <1>8, <3>2
      <4>2. QED
        BY <2>1, <4>1 DEF IInv, PagesCarryTheirBlock
    <3>3. QED
      BY <3>1, <3>2
  <2>2. QED
    BY <1>4, <2>1 DEF PagesCarryTheirBlock
<1>13. QED
  BY <1>6, <1>7, <1>9, <1>10, <1>11, <1>12 DEF IInv

(* Every step of the pipeline keeps the invariant.                         *)
LEMMA NextIInv == IInv /\ [Next]_vars => IInv'
<1> SUFFICES ASSUME IInv, [Next]_vars PROVE IInv'
  OBVIOUS
<1>1. CASE StartBlock
  <2>1. /\ UNCHANGED <<front, inFlight, buf, received, result, sent, good, spi,
                        address, flashed, ended, blockCount, start>>
        /\ usb = "send" /\ CanSend /\ received < blockCount /\ result = "Ok"
        /\ usb' = "read" /\ offset' = 0
    BY <1>1 DEF StartBlock, channelVars, consumerVars
  <2>2. TypeOK'
    BY <2>1 DEF IInv, TypeOK, ChannelTypeOK, BlockUnits
  <2>3. ArmsInStep' /\ PagesCarryTheirBlock'
    BY <2>1, OperationAssumption
    DEF IInv, TypeOK, ArmsInStep, PagesCarryTheirBlock, CanSend, CanReceive
  <2>4. UnitsCounted'
    BY <2>1 DEF IInv, TypeOK, UnitsCounted, BlockUnits
  <2>5. SlotsInFlight'
    BY <2>1 DEF IInv, SlotsInFlight, Behind
  <2>6. QED
    BY <2>2, <2>3, <2>4, <2>5 DEF IInv
<1>2. CASE PassSlot
  <2>1. buf \in [SlotIndex -> [Unit -> Cell]] /\ offset \in 0 .. BlockUnits /\ sent \in Nat
        /\ result \in {"Ok", "Err"} /\ good \in Nat /\ blockCount \in Nat
        /\ received \in Nat
    BY OperationAssumption DEF IInv, TypeOK
  <2>2. ~ ended
    BY <1>2, <2>1 DEF IInv, ArmsInStep, PassSlot
  <2>3. QED
    BY <1>2, <2>1, <2>2, PublishSlot DEF PassSlot, consumerVars
<1>3. CASE \E n \in PacketSizes : Packet(n)
  BY <1>3, PacketStep
<1>4. CASE UsbReadErr
  <2>1. buf \in [SlotIndex -> [Unit -> Cell]] /\ offset \in 0 .. BlockUnits /\ sent \in Nat
        /\ good \in Nat
    BY OperationAssumption DEF IInv, TypeOK
  <2>2. ~ ended /\ CanSend /\ received < blockCount
    BY <1>4 DEF IInv, ArmsInStep, UsbReadErr
  <2>3. QED
    BY <1>4, <2>1, <2>2, PublishSlot DEF UsbReadErr, RecordFailure, consumerVars
<1>5. CASE StartPage
  BY <1>5
  DEF IInv, StartPage, channelVars, producerVars, TypeOK, ChannelTypeOK,
      ArmsInStep, UnitsCounted, SlotsInFlight, PagesCarryTheirBlock, CanSend,
      CanReceive, Behind, back
<1>6. CASE FinishPage
  BY <1>6, FinishPageStep
<1>7. CASE StartSettle
  BY <1>7
  DEF IInv, StartSettle, channelVars, producerVars, TypeOK, ChannelTypeOK,
      ArmsInStep, UnitsCounted, SlotsInFlight, PagesCarryTheirBlock, CanSend,
      CanReceive, Behind, back
<1>8. CASE Settled
  BY <1>8
  DEF IInv, Settled, channelVars, producerVars, TypeOK, ChannelTypeOK,
      ArmsInStep, UnitsCounted, SlotsInFlight, PagesCarryTheirBlock, CanSend,
      CanReceive, Behind, back
<1>9. CASE EndWrite
  BY <1>9
  DEF IInv, EndWrite, channelVars, producerVars, consumerVars, TypeOK,
      ChannelTypeOK, ArmsInStep, UnitsCounted, SlotsInFlight,
      PagesCarryTheirBlock, CanSend, CanReceive, Behind, back
<1>10. CASE UNCHANGED vars
  BY <1>10
  DEF IInv, vars, channelVars, producerVars, consumerVars, TypeOK,
      ChannelTypeOK, ArmsInStep, UnitsCounted, SlotsInFlight,
      PagesCarryTheirBlock, CanSend, CanReceive, Behind, back
<1>11. QED
  BY <1>1, <1>2, <1>3, <1>4, <1>5, <1>6, <1>7, <1>8, <1>9, <1>10 DEF Next

(* So it holds throughout.                                                 *)
LEMMA Invariance == Spec => []IInv
  BY InitIInv, NextIInv, PTL DEF Spec

(* The variables of BulkWrite keep their types.                            *)
THEOREM TypeCorrect == Spec => []TypeOK
<1>1. IInv => TypeOK
  BY DEF IInv
<1>2. QED
  BY <1>1, Invariance, PTL

(* Whatever the block count, the interleaving and the order of packets of  *)
(* half and whole blocks, page k of the flash gets the first half of the   *)
(* k-th block of the host, up to the first failure.                        *)
THEOREM PageData == Spec => []PagesCarryTheirBlock
<1>1. IInv => PagesCarryTheirBlock
  BY DEF IInv
<1>2. QED
  BY <1>1, Invariance, PTL

(* USB never fills the slot that is being programmed.                      *)
THEOREM SlotsNotShared == Spec => []NoSharedSlot
<1>1. IInv => NoSharedSlot
  BY ReceiverSlot DEF IInv, TypeOK, ArmsInStep, NoSharedSlot
<1>2. QED
  BY <1>1, Invariance, PTL

-----------------------------------------------------------------------------
(* A remainder is the only number below the modulus that differs from its  *)
(* number by a multiple of the modulus.                                    *)
LEMMA RemainderUnique ==
  ASSUME NEW m \in Nat \ {0}, NEW q1 \in Int, NEW q2 \in Int,
         NEW r1 \in 0 .. m - 1, NEW r2 \in 0 .. m - 1, m * q1 + r1 = m * q2 + r2
  PROVE  r1 = r2
<1>1. m * (q1 - q2) = r2 - r1
  OBVIOUS
<1>2. CASE q1 - q2 >= 1
  <2>1. m * (q1 - q2) >= m
    BY <1>2
  <2>2. QED
    BY <1>1, <2>1
<1>3. CASE q1 - q2 <= -1
  <2>1. m * (q1 - q2) <= -m
    BY <1>3
  <2>2. QED
    BY <1>1, <2>1
<1>4. CASE q1 = q2
  BY <1>4
<1>5. QED
  BY <1>2, <1>3, <1>4

(* Steps that wrap add up to one step that wraps.                          *)
LEMMA WrapTwice ==
  ASSUME NEW m \in Nat \ {0}, NEW x \in Nat, NEW p \in Nat
  PROVE  ((x % m) + p) % m = (x + p) % m
<1> DEFINE y == (x % m) + p
<1>1. /\ x \div m \in Int /\ x % m \in 0 .. m - 1
      /\ x = m * (x \div m) + (x % m)
  OBVIOUS
<1>2. y \in Nat
  BY <1>1
<1>3. /\ y \div m \in Int /\ y % m \in 0 .. m - 1
      /\ y = m * (y \div m) + (y % m)
  BY <1>2
<1>4. /\ (x + p) \div m \in Int /\ (x + p) % m \in 0 .. m - 1
      /\ x + p = m * ((x + p) \div m) + ((x + p) % m)
  OBVIOUS
<1>5. m * ((x \div m) + (y \div m)) = m * (x \div m) + m * (y \div m)
  BY <1>1, <1>3
<1>6. m * ((x \div m) + (y \div m)) + (y % m) = m * ((x + p) \div m) + ((x + p) % m)
  BY <1>1, <1>3, <1>4, <1>5
<1>7. (x \div m) + (y \div m) \in Int
  BY <1>1, <1>3
<1> HIDE DEF y
<1>8. y % m = (x + p) % m
  BY <1>3, <1>4, <1>6, <1>7, RemainderUnique
<1>9. QED
  BY <1>8 DEF y

(* The address of the next page is the start address and a page for each   *)
(* page programmed, and every page got that address in its turn.           *)
Addressed ==
  /\ address = (start + PageSize * Len(flashed)) % AddressSpace
  /\ PagesInCommandedRange

(* So it is when the pipeline starts ...                                   *)
LEMMA InitAddressed == Init => Addressed
<1> SUFFICES ASSUME Init PROVE Addressed
  OBVIOUS
<1>1. /\ address = start /\ flashed = <<>> /\ Len(flashed) = 0
      /\ blockCount \in Nat
  BY OperationAssumption DEF Init
<1>2. start \in 0 .. AddressSpace - 1 /\ AddressSpace \in Nat \ {0} /\ PageSize \in Nat
  BY OperationAssumption DEF Init
<1>3. PageSize * 0 = 0
  BY <1>2
<1>4. start % AddressSpace = start
  BY <1>2
<1>5. start + PageSize * Len(flashed) = start
  BY <1>1, <1>2, <1>3
<1>6. QED
  BY <1>1, <1>4, <1>5 DEF Addressed, PagesInCommandedRange

(* ... and it stays so: only FinishPage moves the address.                 *)
LEMMA NextAddressed == IInv /\ Addressed /\ [Next]_vars => Addressed'
<1> SUFFICES ASSUME IInv, Addressed, [Next]_vars PROVE Addressed'
  OBVIOUS
<1>1. ASSUME UNCHANGED <<blockCount, start, address, flashed>> PROVE Addressed'
  BY <1>1 DEF Addressed, PagesInCommandedRange
<1>2. CASE FinishPage
  <2>1. /\ start \in Nat /\ AddressSpace \in Nat \ {0} /\ PageSize \in Nat
        /\ Len(flashed) \in Nat /\ Len(flashed) < blockCount
        /\ blockCount \in Nat
        /\ flashed \in Seq([at : 0 .. AddressSpace - 1, data : Cell])
    BY <1>2, OperationAssumption DEF FinishPage, IInv, TypeOK, ArmsInStep
  <2> DEFINE e == [at |-> address, data |-> buf[front][0]]
  <2>2. /\ flashed' = Append(flashed, e) /\ e.at = address
        /\ address' = (address + PageSize) % AddressSpace
        /\ UNCHANGED <<blockCount, start>>
    BY <1>2 DEF FinishPage, NextAddress
  <2> HIDE DEF e
  <2>3. /\ Len(flashed') = Len(flashed) + 1
        /\ flashed'[Len(flashed) + 1] = e
        /\ \A k \in 1 .. Len(flashed) : flashed'[k] = flashed[k]
    BY <2>1, <2>2
  <2>4. PageSize * Len(flashed') = PageSize * Len(flashed) + PageSize
    BY <2>1, <2>3
  <2> DEFINE x == start + PageSize * Len(flashed)
  <2>5. x \in Nat /\ start + PageSize * Len(flashed') = x + PageSize
    BY <2>1, <2>4
  <2>6. address = x % AddressSpace
    BY DEF Addressed
  <2> HIDE DEF x
  <2>7. address' = (x + PageSize) % AddressSpace
    <3>1. ((x % AddressSpace) + PageSize) % AddressSpace = (x + PageSize) % AddressSpace
      BY <2>1, <2>5, WrapTwice
    <3>2. QED
      BY <2>2, <2>6, <3>1
  <2>8. address' = (start + PageSize * Len(flashed')) % AddressSpace
    BY <2>5, <2>7
  <2>9. ASSUME NEW k \in 1 .. Len(flashed')
        PROVE  flashed'[k].at = (start + PageSize * (k - 1)) % AddressSpace
    <3>1. CASE k \in 1 .. Len(flashed)
      BY <2>3, <3>1 DEF Addressed, PagesInCommandedRange
    <3>2. CASE k = Len(flashed) + 1
      <4>1. k - 1 = Len(flashed)
        BY <2>1, <3>2
      <4>2. flashed'[k].at = address
        BY <2>2, <2>3, <3>2
      <4>3. QED
        BY <4>1, <4>2 DEF Addressed
    <3>3. QED
      BY <2>1, <2>3, <2>9, <3>1, <3>2
  <2>10. Len(flashed') <= blockCount
    BY <2>1, <2>3
  <2>11. QED
    BY <2>2, <2>8, <2>9, <2>10 DEF Addressed, PagesInCommandedRange
<1>3. CASE StartBlock \/ PassSlot \/ (\E n \in PacketSizes : Packet(n)) \/ UsbReadErr
  BY <1>1, <1>3
  DEF StartBlock, PassSlot, Packet, UsbReadErr, consumerVars
<1>4. CASE StartPage \/ StartSettle \/ Settled \/ EndWrite \/ UNCHANGED vars
  BY <1>1, <1>4 DEF StartPage, StartSettle, Settled, EndWrite, consumerVars, vars
<1>5. QED
  BY <1>2, <1>3, <1>4 DEF Next

(* Every page of an operation, also after a failure, is programmed where   *)
(* the host asked for a page, however the addresses wrap.                  *)
THEOREM PagesInRange == Spec => []PagesInCommandedRange
<1>1. Init => IInv /\ Addressed
  BY InitIInv, InitAddressed
<1>2. IInv /\ Addressed /\ [Next]_vars => (IInv /\ Addressed)'
  BY NextIInv, NextAddressed
<1>3. Addressed => PagesInCommandedRange
  BY DEF Addressed
<1>4. QED
  BY <1>1, <1>2, <1>3, PTL DEF Spec

-----------------------------------------------------------------------------
(* The pages that have arrived, as the transfer counts them.               *)
LEMMA ArrivedBlocks ==
  ASSUME IInv
  PROVE  /\ Arrived \in Nat /\ Arrived <= Len(flashed) /\ Arrived <= good
         /\ Len(flashed) \in Nat /\ good \in Nat /\ blockCount \in Nat
         /\ [k \in 1 .. Arrived |-> flashed[k].data \div BlockUnits]
              = [k \in 1 .. Arrived |-> k - 1]
<1>1. /\ Len(flashed) \in Nat /\ good \in Nat /\ blockCount \in Nat
  BY OperationAssumption DEF IInv, TypeOK
<1>2. Arrived \in Nat /\ Arrived <= Len(flashed) /\ Arrived <= good
  BY <1>1 DEF Arrived
<1>3. ASSUME NEW k \in 1 .. Arrived
      PROVE  flashed[k].data \div BlockUnits = k - 1
  <2>1. flashed[k].data = BlockUnits * (k - 1)
    BY <1>1, <1>2, <1>3 DEF IInv, PagesCarryTheirBlock
  <2>2. QED
    BY <1>1, <1>2, <1>3, <2>1 DEF BlockUnits
<1>4. QED
  BY <1>1, <1>2, <1>3

(* The same after a step.                                                  *)
ArrivedInOrder ==
  /\ Arrived \in Nat
  /\ [k \in 1 .. Arrived |-> flashed[k].data \div BlockUnits]
       = [k \in 1 .. Arrived |-> k - 1]

LEMMA ArrivedBlocksNext == IInv' => ArrivedInOrder'
<1>1. IInv => ArrivedInOrder
  BY ArrivedBlocks DEF ArrivedInOrder
<1>2. QED
  BY <1>1, PTL

(* The numbers 0 .. n as a sequence, by one more.                          *)
LEMMA CountUp ==
  ASSUME NEW n \in Nat
  PROVE  /\ [k \in 1 .. n + 1 |-> k - 1] = Append([k \in 1 .. n |-> k - 1], n)
         /\ Len([k \in 1 .. n |-> k - 1]) = n
<1> DEFINE s == [k \in 1 .. n |-> k - 1]
<1>1. s \in Seq(Nat) /\ Len(s) = n
  OBVIOUS
<1>2. Append(s, n) \in Seq(Nat) /\ Len(Append(s, n)) = n + 1
  BY <1>1
<1>3. \A k \in 1 .. n + 1 : Append(s, n)[k] = k - 1
  BY <1>1
<1>4. QED
  BY <1>1, <1>2, <1>3

(* A pipeline that starts is a transfer that starts.                       *)
LEMMA RefineInit == Init => Transfer!Init
<1> SUFFICES ASSUME Init PROVE Transfer!Init
  OBVIOUS
<1>1. Arrived = 0 /\ result = "Ok" /\ ended = FALSE /\ blockCount \in Nat
  BY OperationAssumption DEF Init, Arrived
<1>2. QED
  BY <1>1 DEF Transfer!Init

(* A step of the pipeline is a step of the transfer or leaves it alone.    *)
LEMMA RefineNext == IInv /\ [Next]_vars => [Transfer!Next]_(Transfer!vars)
<1> SUFFICES ASSUME IInv, [Next]_vars
             PROVE  [Transfer!Next]_(Transfer!vars)
  OBVIOUS
<1> DEFINE moved == [k \in 1 .. Arrived |-> flashed[k].data \div BlockUnits]
           failed == result = "Err" /\ good <= Len(flashed)
<1>1. /\ IInv' /\ Arrived \in Nat /\ Arrived' \in Nat
      /\ moved = [k \in 1 .. Arrived |-> k - 1] /\ moved' = [k \in 1 .. Arrived' |-> k - 1]
      /\ Len(moved) = Arrived
      /\ [k \in 1 .. Arrived + 1 |-> k - 1] = Append(moved, Arrived)
  <2>1. IInv'
    BY NextIInv
  <2>2. Arrived \in Nat /\ moved = [k \in 1 .. Arrived |-> k - 1]
    BY ArrivedBlocks
  <2>3. Arrived' \in Nat /\ moved' = [k \in 1 .. Arrived' |-> k - 1]
    BY <2>1, ArrivedBlocksNext DEF ArrivedInOrder
  <2>4. QED
    BY <2>1, <2>2, <2>3, CountUp
<1>2. /\ Len(flashed) \in Nat /\ good \in Nat /\ blockCount \in Nat
      /\ result \in {"Ok", "Err"} /\ received \in Nat /\ inFlight \in Nat
      /\ received = Len(flashed) + inFlight
      /\ flashed \in Seq([at : 0 .. AddressSpace - 1, data : Cell])
      /\ good <= received /\ received <= blockCount
  BY OperationAssumption
  DEF IInv, TypeOK, ArmsInStep, UnitsCounted, ChannelTypeOK
<1>3. ASSUME Arrived' = Arrived, failed' = failed, UNCHANGED <<blockCount, ended>>
      PROVE  UNCHANGED Transfer!vars
  BY <1>1, <1>3 DEF Transfer!vars
<1>4. CASE FinishPage
  <2>1. /\ Len(flashed') = Len(flashed) + 1 /\ Len(flashed) < blockCount
        /\ inFlight > 0 /\ ~ ended
        /\ UNCHANGED <<blockCount, ended, good, result>>
    BY <1>2, <1>4
    DEF FinishPage, producerVars, IInv, ArmsInStep, CanReceive
  <2>2. CASE Len(flashed) < good
    <3>1. Arrived = Len(flashed) /\ Arrived' = Arrived + 1 /\ failed = FALSE
      BY <1>2, <2>1, <2>2 DEF Arrived
    <3>2. moved' = Append(moved, Len(moved)) /\ Len(moved) < blockCount
      BY <1>1, <1>2, <2>1, <3>1
    <3>3. Transfer!MoveBlock
      BY <3>1, <3>2 DEF Transfer!MoveBlock
    <3>4. CASE failed'
      BY <2>1, <3>1, <3>3, <3>4 DEF Transfer!Next, Transfer!Fail
    <3>5. CASE ~ failed'
      BY <2>1, <3>1, <3>3, <3>5 DEF Transfer!Next, Transfer!Move
    <3>6. QED
      BY <3>4, <3>5
  <2>3. CASE ~(Len(flashed) < good)
    <3>1. Arrived = good /\ Arrived' = good /\ failed = (result = "Err")
          /\ failed' = (result = "Err")
      BY <1>2, <2>1, <2>3 DEF Arrived
    <3>2. QED
      BY <1>3, <2>1, <3>1
  <2>4. QED
    BY <2>2, <2>3
<1>5. CASE UsbReadErr
  <2>1. /\ UNCHANGED <<blockCount, ended, good, flashed>> /\ result' = "Err"
        /\ ~ ended /\ result = "Ok"
    BY <1>5 DEF UsbReadErr, RecordFailure, consumerVars, IInv, ArmsInStep
  <2>2. Arrived' = Arrived /\ failed = FALSE /\ failed' = (good <= Len(flashed))
    BY <2>1 DEF Arrived
  <2>3. CASE failed'
    BY <1>1, <2>1, <2>2, <2>3 DEF Transfer!Next, Transfer!Fail
  <2>4. CASE ~ failed'
    BY <1>3, <2>1, <2>2, <2>4
  <2>5. QED
    BY <2>3, <2>4
<1>6. CASE \E n \in PacketSizes : Packet(n)
  <2>1. PICK n \in PacketSizes : Packet(n)
    BY <1>6
  <2>2. /\ UNCHANGED <<blockCount, ended, flashed, result>> /\ good' \in {good, good + 1}
        /\ result = "Ok" /\ good = received
    BY <2>1 DEF Packet, consumerVars, IInv, ArmsInStep, UnitsCounted
  <2>3. Arrived' = Arrived /\ failed' = failed
    BY <1>2, <2>2 DEF Arrived
  <2>4. QED
    BY <1>3, <2>2, <2>3
<1>7. CASE EndWrite
  <2>1. /\ UNCHANGED <<blockCount, good, flashed, result>> /\ ~ ended /\ ended' = TRUE
        /\ spi = "done" /\ received = blockCount /\ Len(flashed) = blockCount
    BY <1>7 DEF EndWrite, producerVars, consumerVars, IInv, ArmsInStep
  <2>2. Arrived' = Arrived /\ failed' = failed
    BY <2>1 DEF Arrived
  <2>3. failed \/ Len(moved) = blockCount
    BY <1>1, <1>2, <2>1 DEF Arrived, IInv, UnitsCounted
  <2>4. QED
    BY <1>1, <2>1, <2>2, <2>3 DEF Transfer!Next, Transfer!End
<1>8. CASE StartBlock \/ PassSlot \/ StartPage \/ StartSettle \/ Settled \/ UNCHANGED vars
  <2>1. UNCHANGED <<blockCount, ended, flashed, good, result>>
    BY <1>8
    DEF StartBlock, PassSlot, StartPage, StartSettle, Settled, vars, producerVars,
        consumerVars
  <2>2. Arrived' = Arrived /\ failed' = failed
    BY <2>1 DEF Arrived
  <2>3. QED
    BY <1>3, <2>1, <2>2
<1>9. QED
  BY <1>4, <1>5, <1>6, <1>7, <1>8 DEF Next

(* The write pipeline implements the contract of a bulk operation.         *)
THEOREM Refinement == Spec => TransferSpec
<1>1. Init => Transfer!Init
  BY RefineInit
<1>2. IInv /\ [Next]_vars => [Transfer!Next]_(Transfer!vars)
  BY RefineNext
<1>3. QED
  BY <1>1, <1>2, Invariance, PTL DEF Spec, TransferSpec, Transfer!Spec

-----------------------------------------------------------------------------
(* The pipeline as a part of the queue of operations: a write that runs    *)
(* until it has ended, with what its arms have put into the buffer and     *)
(* taken out of it.                                                        *)
NoWrite == [kind |-> "none", blocks |-> 0]
ThisWrite == [kind |-> "write", blocks |-> blockCount]

Queue == INSTANCE BulkQueue WITH
  Operations <- {}, NoOp <- NoWrite, Slots <- Capacity, pending <- NoWrite,
  running <- IF ended THEN NoWrite ELSE ThisWrite,
  put <- IF ended THEN 0 ELSE received, taken <- IF ended THEN 0 ELSE Len(flashed)

LEMMA WriteIsOne == ThisWrite # NoWrite /\ ThisWrite.blocks = blockCount
<1>1. ThisWrite.kind = "write" /\ NoWrite.kind = "none" /\ ThisWrite.blocks = blockCount
  BY DEF ThisWrite, NoWrite
<1> QED BY <1>1

LEMMA QueueStep == IInv /\ [Next]_vars => [Queue!Next]_(Queue!vars)
<1> SUFFICES ASSUME IInv, [Next]_vars PROVE Queue!Next \/ UNCHANGED Queue!vars
  OBVIOUS
<1>1. /\ received \in Nat /\ Len(flashed) \in Nat /\ inFlight \in 0 .. 2 /\ blockCount \in Nat
      /\ received = Len(flashed) + inFlight /\ received <= blockCount
      /\ ended \in BOOLEAN
  BY OperationAssumption DEF IInv, TypeOK, ArmsInStep, ChannelTypeOK, Capacity
<1>2. ASSUME ~ended, received < blockCount, inFlight < 2, received' = received + 1,
             UNCHANGED <<blockCount, flashed, ended>>
      PROVE  Queue!Next
  <2>1. ThisWrite' = ThisWrite
    BY <1>2 DEF ThisWrite
  <2>2. Queue!PutBlock
    BY <1>1, <1>2, <2>1, WriteIsOne DEF Queue!PutBlock, Capacity
  <2> QED BY <2>2 DEF Queue!Next
<1>3. ASSUME UNCHANGED <<blockCount, received, flashed, ended>>
      PROVE  UNCHANGED Queue!vars
  BY <1>3 DEF Queue!vars, ThisWrite
<1>4. CASE PassSlot \/ UsbReadErr
  <2>1. /\ ~ended /\ received < blockCount /\ inFlight < 2 /\ received' = received + 1
        /\ UNCHANGED <<blockCount, flashed, ended>>
    BY <1>1, <1>4
    DEF PassSlot, UsbReadErr, consumerVars, IInv, ArmsInStep, CanSend, Capacity
  <2> QED BY <1>2, <2>1
<1>5. ASSUME NEW n \in PacketSizes, Packet(n)
      PROVE  Queue!Next \/ UNCHANGED Queue!vars
  <2>1. /\ ~ended /\ received < blockCount /\ inFlight < 2
        /\ UNCHANGED <<blockCount, flashed, ended>>
        /\ received' = received + 1 \/ received' = received
    BY <1>1, <1>5 DEF Packet, consumerVars, IInv, ArmsInStep, CanSend, Capacity
  <2> QED BY <1>2, <1>3, <2>1
<1>6. CASE FinishPage
  <2>1. /\ ~ended /\ inFlight > 0 /\ UNCHANGED <<blockCount, received, ended>>
        /\ flashed' = Append(flashed, [at |-> address, data |-> buf[front][0]])
    BY <1>1, <1>6 DEF FinishPage, producerVars, IInv, ArmsInStep, CanReceive
  <2>2. Len(flashed') = Len(flashed) + 1
    BY <2>1 DEF IInv, TypeOK
  <2>3. ThisWrite' = ThisWrite
    BY <2>1 DEF ThisWrite
  <2>4. Queue!TakeBlock
    BY <1>1, <2>1, <2>2, <2>3, WriteIsOne DEF Queue!TakeBlock
  <2> QED BY <2>4 DEF Queue!Next
<1>7. CASE EndWrite
  <2>1. ~ended /\ ended' = TRUE /\ received = blockCount /\ Len(flashed) = blockCount
    BY <1>7 DEF EndWrite, IInv, ArmsInStep
  <2>2. Queue!Finish
    BY <2>1, WriteIsOne DEF Queue!Finish
  <2> QED BY <2>2 DEF Queue!Next
<1>8. CASE StartBlock \/ StartPage \/ StartSettle \/ Settled \/ UNCHANGED vars
  <2>1. UNCHANGED <<blockCount, received, flashed, ended>>
    BY <1>8
    DEF StartBlock, StartPage, StartSettle, Settled, vars, producerVars, consumerVars
  <2> QED BY <1>3, <2>1
<1> QED BY <1>4, <1>5, <1>6, <1>7, <1>8 DEF Next

(* The arms of the join move the blocks of a write as BulkQueue says, and  *)
(* end as it says, however the host cuts its packets and whatever fails.   *)
(* FlashSession, which has two counters in the place of this pipeline,     *)
(* keeps the same queue.                                                   *)
THEOREM ArmsKeepTheQueue == Spec => [][Queue!Next]_(Queue!vars)
BY QueueStep, Invariance, PTL DEF Spec
=============================================================================
