---------------------------- MODULE AuxTaskProofs ----------------------------
(***************************************************************************)
(* The safety of the auxiliary tasks, for queues, batches and delays of    *)
(* any size and any number of requests and bytes.                          *)
(***************************************************************************)
EXTENDS AuxTask, TLAPS

(* The batch is armed also while something else than it is written.        *)
BatchReady ==
  pc # "write" \/ writing # "uart_data" =>
    Len(batch) < PayloadLen /\ (flush # None <=> batch # <<>>)

(* Bytes are numbered as they come: one underway is behind all the others. *)
Below(s, n) == \A k \in DOMAIN s : s[k] < n

Newest == IF arriving = None THEN received + 1 ELSE arriving

StreamOrdered ==
  UartStream /\ Below(delivered, Newest) /\ Below(batch, Newest) /\ Below(uartRx, Newest)

LEMMA NoneIsNoNat == None \in Int /\ None < 0 /\ None \notin Nat
BY SMT DEF None

-----------------------------------------------------------------------------
(* The queue after a write that fits.                                      *)
LEMMA QueueAfterWrite ==
  ASSUME TypeOK, NEW n \in Nat, RoomFor(n),
         NEW s, s = [k \in 1 .. n |-> accepted + k]
  PROVE  /\ TrySend(uartTx, s) = uartTx \o s
         /\ uartTx \o s \in Seq(Nat)
         /\ Len(uartTx \o s) = Len(uartTx) + n
         /\ Len(uartTx \o s) <= QueueSize
         /\ \A k \in 1 .. Len(uartTx) + n :
              (uartTx \o s)[k] = IF k <= Len(uartTx) THEN uartTx[k]
                                 ELSE accepted + (k - Len(uartTx))
<1>1. uartTx \in Seq(Nat) /\ accepted \in Nat /\ QueueSize \in Nat
  BY AuxAssumption DEF TypeOK
<1>2. s \in Seq(Nat) /\ Len(s) = n /\ \A k \in 1 .. n : s[k] = accepted + k
  BY <1>1
<1>3. uartTx \o s \in Seq(Nat) /\ Len(uartTx \o s) = Len(uartTx) + n
  BY <1>1, <1>2
<1>4. Len(uartTx \o s) <= QueueSize
  BY <1>1, <1>3 DEF RoomFor
<1>5. TrySend(uartTx, s) = uartTx \o s
  BY <1>4 DEF TrySend
<1>6. \A k \in 1 .. Len(uartTx) + n :
        (uartTx \o s)[k] = IF k <= Len(uartTx) THEN uartTx[k]
                            ELSE accepted + (k - Len(uartTx))
  <2> SUFFICES ASSUME NEW k \in 1 .. Len(uartTx) + n
               PROVE  (uartTx \o s)[k] = IF k <= Len(uartTx) THEN uartTx[k]
                                         ELSE accepted + (k - Len(uartTx))
    OBVIOUS
  <2>1. Len(uartTx) \in Nat /\ Len(s) = n
    BY <1>1, <1>2
  <2>2. (uartTx \o s)[k] = IF k <= Len(uartTx) THEN uartTx[k] ELSE s[k - Len(uartTx)]
    BY <1>1, <1>2, <2>1, SMT
  <2>3. k > Len(uartTx) => s[k - Len(uartTx)] = accepted + (k - Len(uartTx))
    <3> HAVE k > Len(uartTx)
    <3>1. k - Len(uartTx) \in 1 .. n
      BY <2>1, SMT
    <3> QED BY <1>2, <3>1, SMT
  <2> QED BY <2>1, <2>2, <2>3, SMT
<1> QED BY <1>3, <1>4, <1>5, <1>6

LEMMA ClampRange ==
  ASSUME NEW b \in Nat PROVE Clamp(b) \in MinBaud .. MaxBaud
BY AuxAssumption DEF Clamp

LEMMA InitType == Init => TypeOK
<1> SUFFICES ASSUME Init PROVE TypeOK
  OBVIOUS
<1>1. enabled \in BOOLEAN /\ out \in Requests \cup {NoPacket}
  BY DEF Init
<1>2. /\ requests \in 0 .. MaxRequests /\ received \in 0 .. MaxBytes
      /\ gone \in Nat /\ failed \in Nat /\ accepted \in Nat
      /\ wanted \in MinBaud .. MaxBaud /\ baud \in MinBaud .. MaxBaud
  BY AuxAssumption DEF Init
<1>3. /\ batch \in Seq(Nat) /\ uartRx \in Seq(Nat) /\ delivered \in Seq(Nat)
      /\ uartTx \in Seq(Nat) /\ line \in Seq(Nat)
      /\ Len(uartRx) <= QueueSize /\ Len(uartTx) <= QueueSize
  BY AuxAssumption DEF Init
<1> QED BY <1>1, <1>2, <1>3 DEF Init, TypeOK

LEMMA NextType == TypeOK /\ [Next]_vars => TypeOK'
<1> SUFFICES ASSUME TypeOK, [Next]_vars PROVE TypeOK'
  OBVIOUS
<1> USE DEF hostVars, taskVars, rxVars, txVars, baudVars
<1>1. ASSUME NEW r \in Requests, Send(r) PROVE TypeOK'
  <2>1. enabled' \in BOOLEAN /\ out' \in Requests \cup {NoPacket}
    BY <1>1 DEF TypeOK, Send
  <2>2. requests' \in 0 .. MaxRequests
    BY <1>1, AuxAssumption DEF TypeOK, Send
  <2> QED BY <1>1, <2>1, <2>2 DEF TypeOK, Send
<1>2. ASSUME NEW b \in BOOLEAN, Configured(b) PROVE TypeOK'
  BY <1>2 DEF TypeOK, Configured
<1>3. CASE Tick
  BY <1>3 DEF TypeOK, Tick, Down
<1>4. CASE RxStart
  BY <1>4, AuxAssumption DEF TypeOK, RxStart
<1>5. CASE RxByte
  <2>0. arriving \in Nat
    BY <1>5 DEF TypeOK, RxByte
  <2>1. uartRx' \in Seq(Nat) /\ Len(uartRx') <= QueueSize /\ gone' \in Nat
    <3>1. CASE Len(uartRx) < QueueSize
      <4>1. uartRx' = Append(uartRx, arriving) /\ gone' = gone
        BY <1>5, <3>1 DEF RxByte, TakeByte
      <4>2. uartRx \in Seq(Nat) /\ QueueSize \in Nat /\ gone \in Nat
        BY AuxAssumption DEF TypeOK
      <4> QED BY <2>0, <3>1, <4>1, <4>2
    <3>2. CASE ~(Len(uartRx) < QueueSize)
      BY <1>5, <3>2 DEF TypeOK, RxByte, TakeByte
    <3> QED BY <3>1, <3>2
  <2> QED BY <1>5, <2>1 DEF TypeOK, RxByte
<1>6. CASE RxErr
  BY <1>6 DEF TypeOK, RxErr, LoseArriving
<1>7. CASE SetBaud
  BY <1>7 DEF TypeOK, SetBaud, LoseArriving
<1>8. CASE TxTake
  <2>1. sending' \in Nat /\ uartTx' \in Seq(Nat) /\ Len(uartTx') <= QueueSize
    BY <1>8, AuxAssumption DEF TypeOK, TxTake
  <2> QED BY <1>8, <2>1 DEF TypeOK, TxTake
<1>9. CASE TxDone
  <2>1. line' \in Seq(Nat)
    BY <1>9 DEF TypeOK, TxDone
  <2> QED BY <1>9, <2>1 DEF TypeOK, TxDone
<1>18. CASE TxErr
  BY <1>18 DEF TypeOK, TxErr
<1>10. CASE EndpointsEnabled
  BY <1>10 DEF TypeOK, EndpointsEnabled
<1>11. CASE HandlePacket
  <2>0. out \in Requests
    BY <1>11 DEF TypeOK, HandlePacket
  <2>1. pulse' \in Nat \cup {None}
    BY <1>11, <2>0, AuxAssumption DEF TypeOK, HandlePacket, Requests
  <2>2. /\ uartBaud' = None \/ uartBaud' \in MinBaud .. MaxBaud
        /\ wanted' \in MinBaud .. MaxBaud
    <3>1. CASE out.cmd = "set_baud"
      <4>1. out.arg \in Nat
        BY <2>0, <3>1, AuxAssumption DEF Requests
      <4>2. Clamp(out.arg) \in MinBaud .. MaxBaud
        BY <4>1, ClampRange
      <4> QED BY <1>11, <3>1, <4>2 DEF HandlePacket, SignalBaud
    <3>2. CASE out.cmd # "set_baud"
      BY <1>11, <3>2 DEF HandlePacket, TypeOK
    <3> QED BY <3>1, <3>2
  <2>3. uartTx' \in Seq(Nat) /\ Len(uartTx') <= QueueSize /\ accepted' \in Nat
    <3>1. CASE out.cmd = "uart_write" /\ RoomFor(out.arg)
      <4>1. out.arg \in Nat
        <5>1. out.arg \in WriteLens
          BY <2>0, <3>1 DEF Requests
        <5>2. out.arg \in 0 .. PayloadLen
          BY <5>1, AuxAssumption
        <5> QED BY <5>2
      <4>2. /\ uartTx' = TrySend(uartTx, [k \in 1 .. out.arg |-> accepted + k])
            /\ accepted' = accepted + out.arg
        BY <1>11, <3>1 DEF HandlePacket, UartWrite
      <4>3. uartTx' \in Seq(Nat) /\ Len(uartTx') <= QueueSize
        BY <3>1, <4>1, <4>2, QueueAfterWrite
      <4> QED BY <4>1, <4>2, <4>3 DEF TypeOK
    <3>2. CASE ~(out.cmd = "uart_write" /\ RoomFor(out.arg))
      BY <1>11, <3>2 DEF HandlePacket, UartWrite, TypeOK
    <3> QED BY <3>1, <3>2
  <2>4. /\ pc' \in {"wait_enabled", "select4", "write"}
        /\ writing' \in {"response", "gpio_state", "uart_data"}
    BY <1>11 DEF HandlePacket, WritePacket, TypeOK
  <2> QED BY <1>11, <2>1, <2>2, <2>3, <2>4 DEF TypeOK, HandlePacket
<1>12. CASE ReadErr
  BY <1>12 DEF TypeOK, ReadErr
<1>13. CASE FinishPulse
  BY <1>13 DEF TypeOK, FinishPulse, WritePacket
<1>14. CASE FlushDue
  BY <1>14 DEF TypeOK, FlushDue, WritePacket
<1>15. CASE BatchByte
  <2>1. /\ batch' \in Seq(Nat) /\ uartRx' \in Seq(Nat)
        /\ Len(uartRx') <= QueueSize
    BY <1>15, AuxAssumption DEF TypeOK, BatchByte
  <2>2. flush' \in Nat \cup {None}
    BY <1>15, AuxAssumption DEF TypeOK, BatchByte, Deadline
  <2>3. /\ pc' \in {"wait_enabled", "select4", "write"}
        /\ writing' \in {"response", "gpio_state", "uart_data"}
    BY <1>15 DEF BatchByte, WritePacket, TypeOK
  <2> QED BY <1>15, <2>1, <2>2, <2>3 DEF TypeOK, BatchByte
<1>16. CASE WriteOk \/ WriteErr
  <2>1. batch' \in Seq(Nat) /\ flush' \in Nat \cup {None}
    <3>1. ResetBatch
      BY <1>16 DEF WriteOk, WriteErr
    <3>2. CASE writing = "uart_data"
      BY <3>1, <3>2 DEF ResetBatch
    <3>3. CASE writing # "uart_data"
      BY <3>1, <3>3 DEF ResetBatch, TypeOK
    <3> QED BY <3>2, <3>3
  <2>2. delivered' \in Seq(Nat) /\ gone' \in Nat
    <3>1. CASE Deliver
      BY <3>1 DEF TypeOK, Deliver
    <3>2. CASE Lose
      BY <3>2 DEF TypeOK, Lose
    <3> QED BY <1>16, <3>1, <3>2 DEF WriteOk, WriteErr
  <2> QED BY <1>16, <2>1, <2>2 DEF TypeOK, WriteOk, WriteErr
<1>17. CASE UNCHANGED vars
  BY <1>17 DEF TypeOK, vars
<1> QED BY <1>1, <1>2, <1>3, <1>4, <1>5, <1>6, <1>7, <1>8, <1>9, <1>10, <1>11, <1>12,
           <1>13, <1>14, <1>15, <1>16, <1>17, <1>18 DEF Next, Host, AuxArms

(* The queues never hold more than their capacity, the USART is only given *)
(* rates within the clamp, and the rest has its type.                      *)
THEOREM TypeCorrect == Spec => []TypeOK
BY InitType, NextType, PTL DEF Spec

-----------------------------------------------------------------------------
(* The baud rate.                                                          *)

LEMMA NextBaud ==
  ASSUME TypeOK, LastBaudWins, [Next]_vars
  PROVE  LastBaudWins'
<1>1. SetBaud \/ HandlePacket \/ UNCHANGED baudVars
  BY DEF Next, Host, AuxArms, Send, Configured, Tick, RxStart, RxByte, RxErr, TxTake, TxDone,
         TxErr, EndpointsEnabled, ReadErr, FinishPulse, FlushDue, BatchByte, WriteOk, WriteErr, vars
<1>2. CASE SetBaud
  BY <1>2 DEF SetBaud, LastBaudWins
<1>3. CASE HandlePacket
  <2>1. CASE out.cmd = "set_baud"
    <3>1. out \in Requests
      BY <1>3 DEF TypeOK, HandlePacket
    <3>2. out.arg \in Bauds
      BY <2>1, <3>1 DEF Requests
    <3>3. out.arg \in Nat
      BY <3>2, AuxAssumption
    <3>4. Clamp(out.arg) \in MinBaud .. MaxBaud
      BY <3>3, ClampRange
    <3>5. Clamp(out.arg) # None
      BY <3>4, NoneIsNoNat, AuxAssumption
    <3>6. uartBaud' = Clamp(out.arg) /\ wanted' = Clamp(out.arg)
      BY <1>3, <2>1 DEF HandlePacket, SignalBaud
    <3> QED BY <3>5, <3>6 DEF LastBaudWins
  <2>2. CASE out.cmd # "set_baud"
    BY <1>3, <2>2 DEF HandlePacket, LastBaudWins
  <2> QED BY <2>1, <2>2
<1>4. CASE UNCHANGED baudVars
  BY <1>4 DEF baudVars, LastBaudWins
<1> QED BY <1>1, <1>2, <1>3, <1>4

(* Whichever rates the host sets while uart_rx_task has not taken the last *)
(* one, the USART ends up with the last, if set_config takes it.           *)
THEOREM BaudIsLast == Spec => []LastBaudWins
<1>1. Init => LastBaudWins
  BY DEF Init, LastBaudWins
<1>2. TypeOK /\ LastBaudWins /\ [Next]_vars => LastBaudWins'
  BY NextBaud
<1> QED BY <1>1, <1>2, TypeCorrect, PTL DEF Spec

-----------------------------------------------------------------------------
(* The batch.                                                              *)

LEMMA NextBatch ==
  ASSUME TypeOK, BatchReady, [Next]_vars
  PROVE  BatchReady'
<1>1. \/ Tick \/ HandlePacket \/ FinishPulse \/ FlushDue \/ BatchByte \/ WriteOk \/ WriteErr
      \/ /\ UNCHANGED <<writing, batch, flush>>
         /\ (pc # "write" /\ pc' # "write") \/ pc' = pc
  BY DEF Next, Host, AuxArms, Send, Configured, RxStart, RxByte, RxErr, SetBaud, TxTake,
         TxDone, TxErr, EndpointsEnabled, ReadErr, vars, hostVars, taskVars, rxVars, txVars, baudVars
<1>2. CASE Tick
  <2>1. UNCHANGED <<pc, writing, batch>> /\ flush' = Down(flush)
    BY <1>2 DEF Tick
  <2>2. flush' # None <=> flush # None
    BY <2>1, NoneIsNoNat DEF TypeOK, Down
  <2> QED BY <2>1, <2>2 DEF BatchReady
<1>3. CASE HandlePacket
  <2>1. pc # "write" /\ UNCHANGED <<batch, flush>>
    BY <1>3 DEF HandlePacket
  <2> QED BY <2>1 DEF BatchReady
<1>4. CASE FinishPulse
  <2>1. pc # "write" /\ UNCHANGED <<batch, flush>>
    BY <1>4 DEF FinishPulse
  <2> QED BY <2>1 DEF BatchReady
<1>5. CASE FlushDue
  BY <1>5 DEF FlushDue, WritePacket, BatchReady
<1>6. CASE BatchByte
  <2>1. Len(batch) < PayloadLen /\ (flush # None <=> batch # <<>>)
    BY <1>6 DEF BatchByte, BatchReady
  <2>2. batch' = Append(batch, Head(uartRx)) /\ uartRx # <<>>
    BY <1>6 DEF BatchByte
  <2>3. Len(batch') = Len(batch) + 1 /\ batch' # <<>>
    <3>1. batch \in Seq(Nat)
      BY DEF TypeOK
    <3>2. Head(uartRx) \in Nat
      BY <2>2 DEF TypeOK
    <3> QED BY <2>2, <3>1, <3>2
  <2>4. flush' # None
    BY <1>6, <2>1, NoneIsNoNat, AuxAssumption DEF BatchByte, Deadline
  <2>5. CASE BatchFull
    BY <1>6, <2>5 DEF BatchByte, WritePacket, BatchReady
  <2>6. CASE ~BatchFull
    <3>1. Len(batch') < PayloadLen
      BY <2>1, <2>3, <2>6, AuxAssumption DEF BatchFull, TypeOK
    <3> QED BY <2>3, <2>4, <3>1 DEF BatchReady
  <2> QED BY <2>5, <2>6
<1>7. CASE WriteOk \/ WriteErr
  <2>1. pc = "write" /\ writing' = writing /\ ResetBatch
    BY <1>7 DEF WriteOk, WriteErr
  <2>2. CASE writing = "uart_data"
    <3>1. batch' = <<>> /\ flush' = None
      BY <2>1, <2>2 DEF ResetBatch
    <3>2. Len(batch') < PayloadLen
      BY <3>1, AuxAssumption
    <3> QED BY <3>1, <3>2 DEF BatchReady
  <2>3. CASE writing # "uart_data"
    BY <2>1, <2>3 DEF ResetBatch, BatchReady
  <2> QED BY <2>2, <2>3
<1>8. CASE UNCHANGED <<writing, batch, flush>> /\ ((pc # "write" /\ pc' # "write") \/ pc' = pc)
  BY <1>8 DEF BatchReady
<1> QED BY <1>1, <1>2, <1>3, <1>4, <1>5, <1>6, <1>7, <1>8

(* uart_buf never runs over and a byte in it always has a deadline, for    *)
(* every length of the buffer.                                             *)
THEOREM BatchIsArmed == Spec => []BatchArmed
<1>1. Init => BatchReady
  BY AuxAssumption DEF Init, BatchReady
<1>2. TypeOK /\ BatchReady /\ [Next]_vars => BatchReady'
  BY NextBatch
<1>3. BatchReady => BatchArmed
  BY DEF BatchReady, BatchArmed
<1> QED BY <1>1, <1>2, <1>3, TypeCorrect, PTL DEF Spec

-----------------------------------------------------------------------------
(* Sequences of numbers: the elements after Append, Tail and \o.           *)

LEMMA Elements ==
  ASSUME NEW s \in Seq(Nat)
  PROVE  DOMAIN s = 1 .. Len(s) /\ Len(s) \in Nat /\ \A k \in DOMAIN s : s[k] \in Nat
OBVIOUS

LEMMA AppendElements ==
  ASSUME NEW s \in Seq(Nat), NEW x \in Nat, NEW t, t = Append(s, x)
  PROVE  /\ t \in Seq(Nat) /\ Len(t) = Len(s) + 1
         /\ DOMAIN t = 1 .. Len(s) + 1 /\ DOMAIN s = 1 .. Len(s) /\ Len(s) \in Nat
         /\ \A k \in DOMAIN s : t[k] = s[k]
         /\ t[Len(s) + 1] = x
OBVIOUS

LEMMA TailElements ==
  ASSUME NEW s \in Seq(Nat), s # <<>>, NEW t, t = Tail(s)
  PROVE  /\ t \in Seq(Nat) /\ Len(t) = Len(s) - 1 /\ Len(s) \in Nat \ {0}
         /\ DOMAIN t = 1 .. Len(s) - 1 /\ DOMAIN s = 1 .. Len(s)
         /\ \A k \in DOMAIN t : t[k] = s[k + 1]
         /\ Head(s) = s[1] /\ s[1] \in Nat
OBVIOUS

LEMMA ConcatElements ==
  ASSUME NEW s \in Seq(Nat), NEW u \in Seq(Nat), NEW t, t = s \o u
  PROVE  /\ t \in Seq(Nat) /\ Len(t) = Len(s) + Len(u)
         /\ DOMAIN t = 1 .. Len(s) + Len(u)
         /\ DOMAIN s = 1 .. Len(s) /\ DOMAIN u = 1 .. Len(u)
         /\ Len(s) \in Nat /\ Len(u) \in Nat
         /\ \A k \in DOMAIN t : k <= Len(s) => t[k] = s[k]
         /\ \A k \in DOMAIN t : k > Len(s) => t[k] = u[k - Len(s)]
OBVIOUS

LEMMA AppendOrdered ==
  ASSUME NEW s \in Seq(Nat), NEW x \in Nat, Ascending(s), Below(s, x),
         NEW t, t = Append(s, x)
  PROVE  Ascending(t) /\ Below(t, x + 1)
<1>1. /\ DOMAIN t = 1 .. Len(s) + 1 /\ DOMAIN s = 1 .. Len(s) /\ Len(s) \in Nat
      /\ \A k \in DOMAIN s : t[k] = s[k] /\ s[k] \in Nat
      /\ t[Len(s) + 1] = x
  BY AppendElements
<1>2. \A k \in DOMAIN s : s[k] < x
  BY DEF Below
<1>3. ASSUME NEW j \in DOMAIN t, NEW k \in DOMAIN t, j < k
      PROVE  t[j] < t[k]
  <2>1. j \in DOMAIN s /\ t[j] = s[j]
    BY <1>1, <1>3
  <2>2. CASE k = Len(s) + 1
    BY <1>1, <1>2, <2>1, <2>2
  <2>3. CASE k # Len(s) + 1
    <3>1. k \in DOMAIN s
      BY <1>1, <2>3
    <3> QED BY <1>1, <1>3, <2>1, <3>1 DEF Ascending
  <2> QED BY <2>2, <2>3
<1>4. ASSUME NEW k \in DOMAIN t PROVE t[k] < x + 1
  <2>1. CASE k = Len(s) + 1
    BY <1>1, <2>1
  <2>2. CASE k # Len(s) + 1
    <3>1. k \in DOMAIN s
      BY <1>1, <2>2
    <3> QED BY <1>1, <1>2, <3>1
  <2> QED BY <2>1, <2>2
<1> QED BY <1>3, <1>4 DEF Ascending, Below

-----------------------------------------------------------------------------
(* What goes to the TX line.                                               *)

LEMMA NextSent ==
  ASSUME TypeOK, AcceptedBytesSent, [Next]_vars
  PROVE  AcceptedBytesSent'
<1> DEFINE over == Len(line) + failed
           taken == over + (IF sending = None THEN 0 ELSE 1)
<1>0. /\ Ascending(line) /\ \A k \in DOMAIN line : line[k] \in 1 .. over
      /\ sending # None => sending = taken
      /\ \A k \in DOMAIN uartTx : uartTx[k] = taken + k
      /\ accepted = taken + Len(uartTx)
      /\ line \in Seq(Nat) /\ uartTx \in Seq(Nat) /\ accepted \in Nat
      /\ failed \in Nat /\ Len(line) \in Nat /\ over \in Nat
  BY DEF TypeOK, AcceptedBytesSent
<1>1. TxTake \/ TxDone \/ TxErr \/ HandlePacket
      \/ UNCHANGED <<uartTx, sending, line, failed, accepted>>
  BY DEF Next, Host, AuxArms, Send, Configured, Tick, RxStart, RxByte, RxErr, SetBaud,
         EndpointsEnabled, ReadErr, FinishPulse, FlushDue, BatchByte, WriteOk, WriteErr,
         vars, txVars
<1>2. CASE TxTake
  <2>1. /\ sending = None /\ uartTx # <<>> /\ sending' = Head(uartTx)
        /\ uartTx' = Tail(uartTx) /\ line' = line /\ failed' = failed /\ accepted' = accepted
    BY <1>2 DEF TxTake
  <2>2. /\ Len(uartTx') = Len(uartTx) - 1 /\ Len(uartTx) \in Nat \ {0}
        /\ DOMAIN uartTx' = 1 .. Len(uartTx) - 1 /\ DOMAIN uartTx = 1 .. Len(uartTx)
        /\ \A k \in DOMAIN uartTx' : uartTx'[k] = uartTx[k + 1]
        /\ Head(uartTx) = uartTx[1]
    BY <1>0, <2>1, TailElements
  <2>3. taken = over
    BY <1>0, <2>1
  <2>7. over' = over
    BY <2>1
  <2> HIDE DEF taken, over
  <2>4. sending' = over + 1 /\ sending' # None
    <3>1. 1 \in DOMAIN uartTx
      BY <2>2
    <3>2. uartTx[1] = taken + 1
      BY <1>0, <3>1
    <3> QED BY <1>0, <2>1, <2>2, <2>3, <3>2, NoneIsNoNat
  <2>5. \A k \in DOMAIN uartTx' : uartTx'[k] = over + 1 + k
    <3> SUFFICES ASSUME NEW k \in DOMAIN uartTx'
                 PROVE  uartTx'[k] = over + 1 + k
      OBVIOUS
    <3>1. k \in Nat /\ k + 1 \in DOMAIN uartTx
      BY <2>2
    <3>2. uartTx[k + 1] = taken + (k + 1)
      BY <1>0, <3>1
    <3> QED BY <1>0, <2>2, <2>3, <3>1, <3>2
  <2>6. accepted = over + 1 + Len(uartTx')
    BY <1>0, <2>2, <2>3
  <2> QED BY <1>0, <2>1, <2>4, <2>5, <2>6, <2>7 DEF AcceptedBytesSent, over
<1>3. CASE TxDone
  <2>1. /\ sending # None /\ line' = Append(line, sending) /\ sending' = None
        /\ uartTx' = uartTx /\ failed' = failed /\ accepted' = accepted
    BY <1>3 DEF TxDone
  <2>2. taken = over + 1 /\ sending = over + 1
    BY <1>0, <2>1
  <2> HIDE DEF taken
  <2>3. /\ Len(line') = Len(line) + 1
        /\ DOMAIN line' = 1 .. Len(line) + 1 /\ DOMAIN line = 1 .. Len(line)
        /\ \A k \in DOMAIN line : line'[k] = line[k]
        /\ line'[Len(line) + 1] = sending
    BY <1>0, <2>1, <2>2, AppendElements
  <2>5. over' = over + 1
    BY <1>0, <2>1, <2>3
  <2> HIDE DEF over
  <2>4. \A k \in DOMAIN line' : line'[k] \in 1 .. over + 1
    <3> SUFFICES ASSUME NEW k \in DOMAIN line' PROVE line'[k] \in 1 .. over + 1
      OBVIOUS
    <3>1. over \in Nat /\ \A j \in DOMAIN line : line[j] \in 1 .. over
      BY <1>0
    <3>2. CASE k = Len(line) + 1
      BY <2>2, <2>3, <3>1, <3>2
    <3>3. CASE k # Len(line) + 1
      <4>1. k \in DOMAIN line
        BY <1>0, <2>3, <3>3
      <4> QED BY <2>3, <3>1, <4>1
    <3> QED BY <3>2, <3>3
  <2>6. sending \in Nat /\ line \in Seq(Nat) /\ Ascending(line)
    BY <1>0, <2>2
  <2>9. Below(line, sending)
    <3> SUFFICES ASSUME NEW k \in DOMAIN line PROVE line[k] < sending
      BY DEF Below
    <3>1. line[k] \in 1 .. over /\ over \in Nat
      BY <1>0
    <3> QED BY <2>2, <3>1
  <2>7. Ascending(line')
    BY <2>1, <2>6, <2>9, AppendOrdered
  <2>8. over' + 0 = taken
    BY <1>0, <2>2, <2>5
  <2> QED BY <1>0, <2>1, <2>2, <2>4, <2>5, <2>7, <2>8 DEF AcceptedBytesSent, over
<1>6. CASE TxErr
  <2>1. /\ sending # None /\ failed' = failed + 1 /\ sending' = None
        /\ line' = line /\ uartTx' = uartTx /\ accepted' = accepted
    BY <1>6 DEF TxErr
  <2>2. taken = over + 1 /\ over' = over + 1
    BY <1>0, <2>1
  <2> HIDE DEF taken, over
  <2>3. \A k \in DOMAIN line' : line'[k] \in 1 .. over + 1
    BY <1>0, <2>1
  <2>4. over' + 0 = taken
    BY <1>0, <2>2
  <2> QED BY <1>0, <2>1, <2>2, <2>3, <2>4 DEF AcceptedBytesSent, over
<1>4. CASE HandlePacket
  <2>1. CASE out.cmd = "uart_write" /\ RoomFor(out.arg)
    <3>1. out \in Requests
      BY <1>4 DEF TypeOK, HandlePacket
    <3>2. out.arg \in WriteLens
      BY <2>1, <3>1 DEF Requests
    <3>3. out.arg \in 0 .. PayloadLen
      BY <3>2, AuxAssumption
    <3> DEFINE n == out.arg
               s == [k \in 1 .. n |-> accepted + k]
    <3>4. n \in Nat
      BY <3>3
    <3>5. /\ uartTx' = TrySend(uartTx, s) /\ accepted' = accepted + n
          /\ line' = line /\ failed' = failed /\ sending' = sending
      BY <1>4, <2>1 DEF HandlePacket, UartWrite
    <3>6. RoomFor(n)
      BY <2>1
    <3> HIDE DEF n
    <3>7. /\ uartTx' = uartTx \o s /\ Len(uartTx \o s) = Len(uartTx) + n
          /\ \A k \in 1 .. Len(uartTx) + n :
               (uartTx \o s)[k] = IF k <= Len(uartTx) THEN uartTx[k]
                                  ELSE accepted + (k - Len(uartTx))
          /\ uartTx \o s \in Seq(Nat)
      BY <3>4, <3>5, <3>6, QueueAfterWrite
    <3> HIDE DEF s
    <3>8. DOMAIN uartTx' = 1 .. Len(uartTx) + n /\ DOMAIN uartTx = 1 .. Len(uartTx)
          /\ Len(uartTx) \in Nat
      BY <1>0, <3>7
    <3>9. taken \in Nat
      BY <1>0
    <3>10. taken' = taken
      BY <3>5
    <3> HIDE DEF taken
    <3>11. \A k \in DOMAIN uartTx' : uartTx'[k] = taken + k
      BY <1>0, <3>4, <3>7, <3>8, <3>9
    <3>12. accepted' = taken + Len(uartTx')
      BY <1>0, <3>4, <3>5, <3>7, <3>8, <3>9
    <3>13. \A k \in DOMAIN uartTx' : uartTx'[k] = taken' + k
      BY <3>10, <3>11
    <3>14. accepted' = taken' + Len(uartTx')
      BY <3>10, <3>12
    <3>15. sending' # None => sending' = taken'
      BY <1>0, <3>5, <3>10
    <3> QED BY <1>0, <3>5, <3>13, <3>14, <3>15 DEF AcceptedBytesSent, taken, over
  <2>2. CASE ~(out.cmd = "uart_write" /\ RoomFor(out.arg))
    <3>1. UNCHANGED <<uartTx, sending, line, failed, accepted>>
      BY <1>4, <2>2 DEF HandlePacket, UartWrite
    <3> QED BY <3>1 DEF AcceptedBytesSent
  <2> QED BY <2>1, <2>2
<1>5. CASE UNCHANGED <<uartTx, sending, line, failed, accepted>>
  BY <1>5 DEF AcceptedBytesSent
<1> QED BY <1>1, <1>2, <1>3, <1>4, <1>5, <1>6

(* A UART write that was answered with STATUS_OK is handed to the USART    *)
(* whole and in order, and what it does not fail to write gets to the      *)
(* line, for every capacity of UART_TX and every length of a write.        *)
THEOREM WritesAreSent == Spec => []AcceptedBytesSent
<1>1. Init => AcceptedBytesSent
  BY DEF Init, AcceptedBytesSent, Ascending
<1>2. TypeOK /\ AcceptedBytesSent /\ [Next]_vars => AcceptedBytesSent'
  BY NextSent
<1> QED BY <1>1, <1>2, TypeCorrect, PTL DEF Spec

-----------------------------------------------------------------------------
(* What comes from the RX line.                                            *)

LEMMA AppendBehind ==
  ASSUME NEW r \in Seq(Nat), NEW s \in Seq(Nat), NEW x \in Nat, Before(r, s), Below(r, x),
         NEW t, t = Append(s, x)
  PROVE  Before(r, t)
<1>1. /\ DOMAIN t = 1 .. Len(s) + 1 /\ DOMAIN s = 1 .. Len(s) /\ Len(s) \in Nat
      /\ \A k \in DOMAIN s : t[k] = s[k]
      /\ t[Len(s) + 1] = x
  BY AppendElements
<1> SUFFICES ASSUME NEW j \in DOMAIN r, NEW k \in DOMAIN t PROVE r[j] < t[k]
  BY DEF Before
<1>2. CASE k = Len(s) + 1
  BY <1>1, <1>2 DEF Below
<1>3. CASE k # Len(s) + 1
  <2>1. k \in DOMAIN s
    BY <1>1, <1>3
  <2> QED BY <1>1, <2>1 DEF Before
<1> QED BY <1>2, <1>3

LEMMA Between ==
  ASSUME NEW j \in Nat, NEW k \in Nat, NEW m \in Nat, j < k + 1, k < m
  PROVE  j < m
OBVIOUS

(* A sequence may move to the end of the one before it.                    *)
LEMMA MoveAll ==
  ASSUME NEW d \in Seq(Nat), NEW b \in Seq(Nat), NEW u \in Seq(Nat), NEW n \in Nat,
         Ascending(d), Ascending(b), Before(d, b), Before(d, u), Before(b, u),
         Below(d, n), Below(b, n),
         NEW t, t = d \o b
  PROVE  Ascending(t) /\ Before(t, u) /\ Below(t, n) /\ Len(t) = Len(d) + Len(b)
<1>1. /\ Len(t) = Len(d) + Len(b) /\ DOMAIN t = 1 .. Len(d) + Len(b)
      /\ DOMAIN d = 1 .. Len(d) /\ DOMAIN b = 1 .. Len(b)
      /\ Len(d) \in Nat /\ Len(b) \in Nat
      /\ \A k \in DOMAIN t : k <= Len(d) => t[k] = d[k]
      /\ \A k \in DOMAIN t : k > Len(d) => t[k] = b[k - Len(d)]
  BY ConcatElements
<1>2. \A k \in DOMAIN t : \/ k <= Len(d) /\ k \in DOMAIN d /\ t[k] = d[k]
                          \/ k > Len(d) /\ k - Len(d) \in DOMAIN b /\ t[k] = b[k - Len(d)]
  BY <1>1
<1>3. Before(t, u)
  <2> SUFFICES ASSUME NEW j \in DOMAIN t, NEW k \in DOMAIN u PROVE t[j] < u[k]
    BY DEF Before
  <2> QED BY <1>2 DEF Before
<1>4. Below(t, n)
  <2> SUFFICES ASSUME NEW j \in DOMAIN t PROVE t[j] < n
    BY DEF Below
  <2> QED BY <1>2 DEF Below
<1>5. Ascending(t)
  <2> SUFFICES ASSUME NEW j \in DOMAIN t, NEW k \in DOMAIN t, j < k PROVE t[j] < t[k]
    BY DEF Ascending
  <2>1. CASE k <= Len(d)
    <3>1. j <= Len(d)
      BY <1>1, <2>1
    <3> QED BY <1>1, <1>2, <2>1, <3>1 DEF Ascending
  <2>2. CASE k > Len(d) /\ j <= Len(d)
    BY <1>1, <1>2, <2>2 DEF Before
  <2>3. CASE k > Len(d) /\ j > Len(d)
    <3>1. j - Len(d) < k - Len(d)
      BY <1>1
    <3>2. /\ j - Len(d) \in DOMAIN b /\ t[j] = b[j - Len(d)]
          /\ k - Len(d) \in DOMAIN b /\ t[k] = b[k - Len(d)]
      BY <1>1, <1>2, <2>3
    <3> QED BY <3>1, <3>2 DEF Ascending
  <2> QED BY <1>1, <2>1, <2>2, <2>3
<1> QED BY <1>1, <1>3, <1>4, <1>5

LEMMA EmptyOrdered ==
  ASSUME NEW s, NEW n, NEW t, t = <<>>
  PROVE  Ascending(t) /\ Before(s, t) /\ Before(t, s) /\ Below(t, n) /\ Len(t) = 0
BY DEF Ascending, Before, Below

(* A byte that is lost on the line or finds UART_RX full.                  *)
LEMMA NewestNat == TypeOK => received \in Nat /\ Newest \in Nat
BY AuxAssumption DEF TypeOK, Newest

LEMMA BelowNext ==
  ASSUME NEW s \in Seq(Nat), NEW m \in Nat, NEW n \in Nat, Below(s, m), m <= n
  PROVE  Below(s, n)
BY Elements DEF Below

LEMMA NextStream ==
  ASSUME TypeOK, StreamOrdered, [Next]_vars
  PROVE  StreamOrdered'
<1> DEFINE one == IF arriving = None THEN 0 ELSE 1
<1>0. /\ Ascending(delivered) /\ Ascending(batch) /\ Ascending(uartRx)
      /\ Before(delivered, batch) /\ Before(delivered, uartRx) /\ Before(batch, uartRx)
      /\ Below(delivered, Newest) /\ Below(batch, Newest) /\ Below(uartRx, Newest)
      /\ received = Len(delivered) + Len(batch) + Len(uartRx) + gone + one
  BY DEF StreamOrdered, UartStream
<1>00. /\ delivered \in Seq(Nat) /\ batch \in Seq(Nat) /\ uartRx \in Seq(Nat)
       /\ gone \in Nat /\ received \in Nat /\ Newest \in Nat
       /\ arriving # None => Newest = arriving /\ arriving = received
  BY NewestNat DEF TypeOK, Newest
<1>000. Len(delivered) \in Nat /\ Len(batch) \in Nat /\ Len(uartRx) \in Nat
  BY <1>00, Elements
(* Any step that leaves the three sequences alone and keeps the count.     *)
<1>1. ASSUME UNCHANGED <<delivered, batch, uartRx>>, Newest' \in Nat, Newest <= Newest',
             received' = Len(delivered) + Len(batch) + Len(uartRx) + gone'
                           + (IF arriving' = None THEN 0 ELSE 1)
      PROVE  StreamOrdered'
  <2>1. Below(delivered, Newest') /\ Below(batch, Newest') /\ Below(uartRx, Newest')
    BY <1>0, <1>00, <1>1, BelowNext
  <2> QED BY <1>0, <1>1, <2>1 DEF StreamOrdered, UartStream
<1>2. \/ RxStart \/ RxByte \/ RxErr \/ SetBaud \/ BatchByte \/ WriteOk \/ WriteErr
      \/ UNCHANGED <<batch, rxVars>>
  BY DEF Next, Host, AuxArms, Send, Configured, Tick, TxTake, TxDone, TxErr,
         EndpointsEnabled, HandlePacket, ReadErr, FinishPulse, FlushDue, vars, taskVars
<1>3. CASE RxStart
  <2>1. /\ arriving = None /\ received' = received + 1 /\ arriving' = received + 1
        /\ UNCHANGED <<delivered, batch, uartRx, gone>>
    BY <1>3 DEF RxStart, taskVars
  <2>2. arriving' # None
    BY <1>00, <2>1, NoneIsNoNat
  <2>3. Newest' = Newest
    BY <2>1, <2>2 DEF Newest
  <2>4. received' = Len(delivered) + Len(batch) + Len(uartRx) + gone' + 1
    BY <1>0, <1>00, <1>000, <2>1
  <2> QED BY <1>00, <1>1, <2>1, <2>2, <2>3, <2>4
<1>4. ASSUME arriving # None, LoseArriving, UNCHANGED <<delivered, batch, uartRx, received>>
      PROVE  StreamOrdered'
  <2>1. gone' = gone + 1 /\ arriving' = None
    BY <1>4 DEF LoseArriving
  <2>2. Newest' = received + 1 /\ Newest = received
    BY <1>00, <1>4, <2>1 DEF Newest
  <2>3. received' = Len(delivered) + Len(batch) + Len(uartRx) + gone' + 0
    BY <1>0, <1>00, <1>000, <1>4, <2>1
  <2> QED BY <1>00, <1>1, <1>4, <2>1, <2>2, <2>3
<1>5. CASE RxByte
  <2>1. arriving # None /\ arriving' = None /\ UNCHANGED <<delivered, batch, received>>
    BY <1>5 DEF RxByte, taskVars
  <2>2. CASE Len(uartRx) < QueueSize
    <3>1. uartRx' = Append(uartRx, arriving) /\ gone' = gone
      BY <1>5, <2>2 DEF RxByte, TakeByte
    <3>2. Newest = received /\ arriving = received /\ Newest' = received + 1
      BY <1>00, <2>1 DEF Newest
    <3>3. Ascending(uartRx') /\ Below(uartRx', received + 1)
      BY <1>0, <1>00, <3>1, <3>2, AppendOrdered
    <3>4. Before(delivered, uartRx') /\ Before(batch, uartRx')
      BY <1>0, <1>00, <3>1, <3>2, AppendBehind
    <3>5. Below(delivered, received + 1) /\ Below(batch, received + 1)
      BY <1>0, <1>00, <3>2, BelowNext
    <3>6. Len(uartRx') = Len(uartRx) + 1
      BY <1>00, <3>1, <3>2, AppendElements
    <3>7. received' = Len(delivered) + Len(batch) + Len(uartRx') + gone' + 0
      BY <1>0, <1>00, <1>000, <2>1, <3>1, <3>6
    <3> QED BY <1>0, <2>1, <3>2, <3>3, <3>4, <3>5, <3>7 DEF StreamOrdered, UartStream
  <2>3. CASE ~(Len(uartRx) < QueueSize)
    <3>1. LoseArriving /\ uartRx' = uartRx
      BY <1>5, <2>3 DEF RxByte, TakeByte, LoseArriving
    <3> QED BY <1>4, <2>1, <3>1
  <2> QED BY <2>2, <2>3
<1>6. CASE RxErr
  BY <1>4, <1>6 DEF RxErr, taskVars
<1>7. CASE SetBaud
  <2>1. UNCHANGED <<delivered, batch, uartRx, received>>
    BY <1>7 DEF SetBaud, taskVars
  <2>2. CASE arriving # None /\ LoseArriving
    BY <1>4, <2>1, <2>2
  <2>3. CASE UNCHANGED <<arriving, gone>>
    <3>1. Newest' = Newest
      BY <2>1, <2>3 DEF Newest
    <3> QED BY <1>0, <1>00, <1>1, <2>1, <2>3, <3>1
  <2> QED BY <1>7, <2>2, <2>3 DEF SetBaud
<1>8. CASE BatchByte
  <2>1. /\ uartRx # <<>> /\ batch' = Append(batch, Head(uartRx)) /\ uartRx' = Tail(uartRx)
        /\ UNCHANGED <<received, arriving, gone, delivered>>
    BY <1>8 DEF BatchByte
  <2>2. Newest' = Newest
    BY <2>1 DEF Newest
  <2>3. /\ Ascending(batch') /\ Ascending(uartRx') /\ Before(delivered, batch')
        /\ Before(delivered, uartRx') /\ Before(batch', uartRx')
        /\ Below(batch', Newest) /\ Below(uartRx', Newest)
        /\ Len(batch') + Len(uartRx') = Len(batch) + Len(uartRx)
    <3>0. /\ Ascending(batch) /\ Ascending(uartRx) /\ Before(delivered, batch)
          /\ Before(delivered, uartRx) /\ Before(batch, uartRx)
          /\ Below(batch, Newest) /\ Below(uartRx, Newest)
          /\ delivered \in Seq(Nat) /\ batch \in Seq(Nat) /\ uartRx \in Seq(Nat)
          /\ Newest \in Nat
          /\ uartRx # <<>> /\ batch' = Append(batch, Head(uartRx)) /\ uartRx' = Tail(uartRx)
      BY <1>0, <1>00, <2>1
    <3> USE <3>0
    <3> HIDE DEF one
    <3> DEFINE x == uartRx[1]
    <3>1. /\ Len(uartRx') = Len(uartRx) - 1 /\ Len(uartRx) \in Nat \ {0}
          /\ DOMAIN uartRx' = 1 .. Len(uartRx) - 1 /\ DOMAIN uartRx = 1 .. Len(uartRx)
          /\ \A k \in DOMAIN uartRx' : uartRx'[k] = uartRx[k + 1]
          /\ Head(uartRx) = x /\ x \in Nat
      BY TailElements
    <3>2. 1 \in DOMAIN uartRx /\ x < Newest
      <4>1. 1 \in DOMAIN uartRx
        BY <3>1
      <4>2. \A k \in DOMAIN uartRx : uartRx[k] < Newest
        BY DEF Below
      <4> QED BY <4>1, <4>2, Zenon
    <3>3. Below(batch, x) /\ Below(delivered, x)
      BY <3>2 DEF Before, Below
    <3>4. batch' = Append(batch, x)
      BY <3>1
    <3>5. \A k \in DOMAIN uartRx' : k + 1 \in DOMAIN uartRx /\ uartRx'[k] = uartRx[k + 1] /\ x < uartRx[k + 1]
      <4> SUFFICES ASSUME NEW k \in DOMAIN uartRx'
                   PROVE  k + 1 \in DOMAIN uartRx /\ uartRx'[k] = uartRx[k + 1] /\ x < uartRx[k + 1]
        OBVIOUS
      <4>1. k + 1 \in DOMAIN uartRx /\ 1 < k + 1
        BY <3>1
      <4> QED BY <3>1, <3>2, <4>1 DEF Ascending
    <3> HIDE DEF x
    <3>6. Ascending(batch') /\ Below(batch', x + 1)
      BY <3>1, <3>3, <3>4, AppendOrdered
    <3>7. Before(delivered, batch')
      BY <3>1, <3>3, <3>4, AppendBehind
    <3>8. Ascending(uartRx')
      <4> SUFFICES ASSUME NEW j \in DOMAIN uartRx', NEW k \in DOMAIN uartRx', j < k PROVE uartRx'[j] < uartRx'[k]
        BY DEF Ascending
      <4>1. j + 1 < k + 1
        BY <3>1
      <4> QED BY <3>5, <4>1 DEF Ascending
    <3>9. Before(delivered, uartRx') /\ Below(uartRx', Newest)
      BY <3>5 DEF Before, Below
    <3>10. DOMAIN batch' = 1 .. Len(batch') /\ Len(batch') = Len(batch) + 1 /\ Len(batch) \in Nat
           /\ \A k \in DOMAIN batch' : batch'[k] \in Nat
      <4>1. batch' \in Seq(Nat) /\ Len(batch') = Len(batch) + 1 /\ Len(batch) \in Nat
        BY <3>1, <3>4, AppendElements
      <4>2. DOMAIN batch' = 1 .. Len(batch') /\ \A k \in DOMAIN batch' : batch'[k] \in Nat
        BY <4>1, Elements
      <4> QED BY <4>1, <4>2
    <3>11. Before(batch', uartRx')
      <4> SUFFICES ASSUME NEW j \in DOMAIN batch', NEW k \in DOMAIN uartRx' PROVE batch'[j] < uartRx'[k]
        BY DEF Before
      <4>1. batch'[j] < x + 1 /\ x < uartRx'[k]
        BY <3>5, <3>6 DEF Below
      <4>2. uartRx'[k] \in Nat
        <5>1. k + 1 \in DOMAIN uartRx /\ uartRx'[k] = uartRx[k + 1]
          BY <3>5
        <5>2. uartRx[k + 1] \in Nat
          BY <5>1, Elements
        <5> QED BY <5>1, <5>2
      <4>3. batch'[j] \in Nat /\ x \in Nat
        BY <3>1, <3>10
      <4> QED BY <4>1, <4>2, <4>3, Between, Zenon
    <3>12. Below(batch', Newest)
      <4> SUFFICES ASSUME NEW j \in DOMAIN batch' PROVE batch'[j] < Newest
        BY DEF Below
      <4>1. batch'[j] < x + 1
        BY <3>6 DEF Below
      <4> QED BY <3>1, <3>2, <3>10, <4>1
    <3>13. Len(batch') + Len(uartRx') = Len(batch) + Len(uartRx)
      BY <3>1, <3>10
    <3> QED BY <3>6, <3>7, <3>8, <3>9, <3>11, <3>12, <3>13
  <2>4. Len(batch') \in Nat /\ Len(uartRx') \in Nat
    <3>1. Head(uartRx) \in Nat /\ uartRx' \in Seq(Nat)
      BY <1>00, <2>1, TailElements
    <3>2. batch' \in Seq(Nat)
      BY <1>00, <2>1, <3>1, AppendElements
    <3> QED BY <3>1, <3>2, Elements
  <2>5. received = Len(delivered) + Len(batch') + Len(uartRx') + gone + one
    <3>1. received = Len(delivered) + Len(batch) + Len(uartRx) + gone + one
      BY <1>0
    <3>2. gone \in Nat /\ one \in Nat
      BY <1>00
    <3> HIDE DEF one
    <3>3. Len(batch') + Len(uartRx') = Len(batch) + Len(uartRx)
      BY <2>3
    <3> QED BY <1>000, <2>4, <3>1, <3>2, <3>3
  <2>6. received' = Len(delivered') + Len(batch') + Len(uartRx') + gone'
                      + (IF arriving' = None THEN 0 ELSE 1)
    BY <2>1, <2>5
  <2> QED BY <1>0, <2>1, <2>2, <2>3, <2>6 DEF StreamOrdered, UartStream
<1>9. CASE WriteOk \/ WriteErr
  <2>1. (Deliver \/ Lose) /\ ResetBatch /\ UNCHANGED <<uartRx, received, arriving>>
    BY <1>9 DEF WriteOk, WriteErr
  <2>2. Newest' = Newest
    BY <2>1 DEF Newest
  <2>3. CASE writing # "uart_data"
    <3>1. UNCHANGED <<delivered, batch, gone>>
      BY <2>1, <2>3 DEF Deliver, Lose, ResetBatch
    <3> QED BY <1>0, <1>00, <1>1, <2>1, <2>2, <3>1
  <2>4. CASE writing = "uart_data"
    <3>1. batch' = <<>>
      BY <2>1, <2>4 DEF ResetBatch
    <3>2. /\ Ascending(batch') /\ Before(batch', uartRx) /\ Below(batch', Newest)
          /\ Before(delivered', batch') /\ Len(batch') = 0
      BY <3>1, EmptyOrdered
    <3>3. CASE Deliver
      <4>1. delivered' = delivered \o batch /\ gone' = gone
        BY <2>4, <3>3 DEF Deliver
      <4>2. /\ Ascending(delivered') /\ Before(delivered', uartRx) /\ Below(delivered', Newest)
            /\ Len(delivered') = Len(delivered) + Len(batch)
        BY <1>0, <1>00, <4>1, MoveAll
      <4>3. received = Len(delivered') + Len(batch') + Len(uartRx) + gone' + one
        BY <1>0, <1>00, <1>000, <3>2, <4>1, <4>2
      <4>4. received' = Len(delivered') + Len(batch') + Len(uartRx') + gone'
                          + (IF arriving' = None THEN 0 ELSE 1)
        BY <2>1, <4>3
      <4> QED BY <1>0, <2>1, <2>2, <3>2, <4>2, <4>4 DEF StreamOrdered, UartStream
    <3>4. CASE Lose
      <4>1. gone' = gone + Len(batch) /\ delivered' = delivered
        BY <2>4, <3>4 DEF Lose
      <4>2. received = Len(delivered') + Len(batch') + Len(uartRx) + gone' + one
        BY <1>0, <1>00, <1>000, <3>2, <4>1
      <4>3. received' = Len(delivered') + Len(batch') + Len(uartRx') + gone'
                          + (IF arriving' = None THEN 0 ELSE 1)
        BY <2>1, <4>2
      <4> QED BY <1>0, <2>1, <2>2, <3>2, <4>1, <4>3 DEF StreamOrdered, UartStream
    <3> QED BY <2>1, <3>3, <3>4
  <2> QED BY <2>3, <2>4
<1>10. CASE UNCHANGED <<batch, rxVars>>
  <2>1. UNCHANGED <<delivered, batch, uartRx, received, arriving, gone>>
    BY <1>10 DEF rxVars
  <2>2. Newest' = Newest
    BY <2>1 DEF Newest
  <2> QED BY <1>0, <1>00, <1>1, <2>1, <2>2
<1> QED BY <1>2, <1>3, <1>5, <1>6, <1>7, <1>8, <1>9, <1>10

(* The host reads the bytes of the RX line in order and none twice, and    *)
(* every byte is accounted for, for every size of the queue and the batch. *)
THEOREM BytesInOrder == Spec => []UartStream
<1>1. Init => StreamOrdered
  <2> SUFFICES ASSUME Init PROVE StreamOrdered
    OBVIOUS
  <2>1. delivered = <<>> /\ batch = <<>> /\ uartRx = <<>>
    BY DEF Init
  <2>2. received = 0 /\ gone = 0 /\ arriving = None
    BY DEF Init
  <2> QED BY <2>1, <2>2, EmptyOrdered DEF StreamOrdered, UartStream
<1>2. TypeOK /\ StreamOrdered /\ [Next]_vars => StreamOrdered'
  BY NextStream
<1>3. StreamOrdered => UartStream
  BY DEF StreamOrdered
<1> QED BY <1>1, <1>2, <1>3, TypeCorrect, PTL DEF Spec
=============================================================================
