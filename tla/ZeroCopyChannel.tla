-------------------------- MODULE ZeroCopyChannel --------------------------
(***************************************************************************)
(* The embassy_sync zerocopy_channel that joins the two halves of a bulk   *)
(* operation (external; modelled from its use in main.rs): a ring of       *)
(* Capacity slots owned by the channel.  The sender borrows the slot       *)
(* behind the published ones until send_done publishes it, the receiver    *)
(* the oldest published one until receive_done frees it.                   *)
(***************************************************************************)
EXTENDS Naturals

VARIABLES
  front,      \* the oldest published slot
  inFlight    \* how many slots are published and not yet freed

channelVars == <<front, inFlight>>

(* Both directions give the channel two buffers of 512 bytes.              *)
Capacity == 2
SlotIndex == 0 .. Capacity - 1

(* The slot n places behind slot i in the ring, for n up to Capacity.      *)
Behind(i, n) == IF i + n < Capacity THEN i + n ELSE i + n - Capacity

(* The slot the sender borrows.                                            *)
back == Behind(front, inFlight)

ChannelInit == front = 0 /\ inFlight = 0

(* Mutant: one slot too many is granted.                                   *)
CanSendOneMore == inFlight <= Capacity

(* Sender::send and Receiver::receive wait for these.                      *)
CanSend == inFlight < Capacity
CanReceive == inFlight > 0

(* Sender::send_done publishes the slot at back.                           *)
SendDone == inFlight' = inFlight + 1 /\ UNCHANGED front

(* Receiver::receive_done frees the slot at front.                         *)
ReceiveDone == front' = Behind(front, 1) /\ inFlight' = inFlight - 1

ChannelTypeOK == front \in SlotIndex /\ inFlight \in 0 .. Capacity
=============================================================================
