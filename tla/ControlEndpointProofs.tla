------------------------ MODULE ControlEndpointProofs ------------------------
(* Proofs about ControlEndpoint, for any lengths and number of requests.   *)
EXTENDS ControlEndpoint, TLAPS

(* The clock codes give frequencies the clamp leaves alone.                *)
Fits(c) == c[2] \in 1 .. MaxSpiFreq /\ c[2] \in Nat /\ Clamp(Frequency(c[1])) = c[2]

LEMMA ClocksFit == \A c \in HostClocks : Fits(c)
<1>1. Fits(<<0, 24000>>)
  BY DEF Fits, Clamp, Frequency, Least, MaxSpiFreq
<1>2. Fits(<<1, 8000>>)
  BY DEF Fits, Clamp, Frequency, Least, MaxSpiFreq
<1>3. Fits(<<2, 12000>>)
  BY DEF Fits, Clamp, Frequency, Least, MaxSpiFreq
<1>4. Fits(<<3, 3000>>)
  BY DEF Fits, Clamp, Frequency, Least, MaxSpiFreq
<1>5. Fits(<<4, 2180>>)
  BY DEF Fits, Clamp, Frequency, Least, MaxSpiFreq
<1>6. Fits(<<5, 1500>>)
  BY DEF Fits, Clamp, Frequency, Least, MaxSpiFreq
<1>7. Fits(<<6, 750>>)
  BY DEF Fits, Clamp, Frequency, Least, MaxSpiFreq
<1>8. Fits(<<7, 375>>)
  BY DEF Fits, Clamp, Frequency, Least, MaxSpiFreq
<1>9. Fits(<<8, 12000>>)
  BY DEF Fits, Clamp, Frequency, Least, MaxSpiFreq
<1> QED BY <1>1, <1>2, <1>3, <1>4, <1>5, <1>6, <1>7, <1>8, <1>9 DEF HostClocks

(* The codes of the LEDs are read back as they were meant.                 *)
LEMMA LedsRoundTrip == \A leds \in SUBSET Leds : LitBy(HighByte(leds)) = leds
BY DEF LitBy, HighByte

LEMMA LeastIsNat == \A a, b \in Nat : Least(a, b) \in Nat
BY DEF Least

(* What the last transaction has to be answered with.                      *)
AnswerDue(bytes) ==
  \/ doneBy = "chip" /\ bytes = outs
  \/ doneBy = "driver" /\ bytes = AllWip
  \/ doneBy = "nobody" /\ bytes = Zeros

(* What the buffer holds: the answer to the last transaction.              *)
BufferIsOfLast ==
  /\ readLen = IF readsBack THEN BufLen ELSE 0
  /\ readsBack => AnswerDue(readBuf)

LoopInv == TypeOK /\ BufferIsOfLast /\ SettingsHold

LEMMA InitHolds == Init => LoopInv
<1> SUFFICES ASSUME Init PROVE LoopInv
  OBVIOUS
<1>1. reply \in [verdict : {"accepted", "rejected", "none"}, len : Nat, of : AllWip .. MaxOuts]
  BY OutsAssumption DEF Init, Accepted, AllWip
<1>2. freq \in 1 .. MaxSpiFreq /\ asked \in [clock : Nat, leds : SUBSET Leds]
  BY DEF Init, MaxSpiFreq, DefaultSpiFreq
<1>3. 0 \in 0 .. MaxOuts /\ Zeros \in AllWip .. MaxOuts
  BY OutsAssumption DEF Zeros, AllWip
<1>4. TypeOK
  BY <1>1, <1>2, <1>3 DEF Init, TypeOK
<1>5. BufferIsOfLast /\ SettingsHold
  BY DEF Init, BufferIsOfLast, SettingsHold
<1> QED BY <1>4, <1>5 DEF LoopInv

LEMMA TransceiveOutKeeps ==
  ASSUME LoopInv, NEW len \in DataLens, NEW cmd \in Commands, NEW needsRead \in BOOLEAN,
         TransceiveOut(len, cmd, needsRead)
  PROVE  LoopInv'
<1> DEFINE doer == Doer(cmd, needsRead)
<1> USE OutsAssumption DEF LoopInv
<1>1. /\ outs < MaxOuts /\ Buffer(doer, needsRead) /\ outs' = outs + 1
      /\ readsBack' = needsRead /\ doneBy' = doer /\ reply' = Accepted
      /\ window' = (window \/ (doer = "chip" /\ cmd = "erase" /\ ~needsRead))
      /\ UNCHANGED <<flash, freq, lit, asked>>
  BY DEF TransceiveOut
<1>2. outs' \in 1 .. MaxOuts /\ window' \in BOOLEAN
  BY <1>1 DEF TypeOK
<1>3. doer \in {"chip", "driver", "nobody"}
  BY DEF Doer
<1> HIDE DEF doer
<1>4. BufferIsOfLast'
  BY <1>1, <1>3 DEF BufferIsOfLast, AnswerDue, Buffer, Fill, BufLen
<1>5. TypeOK'
  <2>1. readBuf' \in AllWip .. MaxOuts /\ readLen' \in {0, BufLen}
    BY <1>1, <1>2 DEF TypeOK, Buffer, Fill, AllWip, Zeros
  <2>2. reply' \in [verdict : {"accepted", "rejected", "none"}, len : Nat, of : AllWip .. MaxOuts]
    BY <1>1 DEF Accepted, AllWip
  <2> QED BY <1>1, <1>2, <1>3, <2>1, <2>2 DEF TypeOK
<1>6. SettingsHold'
  BY <1>1 DEF SettingsHold
<1> QED BY <1>4, <1>5, <1>6

(* An answer that leaves everything as it is.                              *)
LEMMA AnswerKeeps ==
  ASSUME LoopInv,
         reply' \in [verdict : {"accepted", "rejected", "none"}, len : Nat, of : AllWip .. MaxOuts],
         UNCHANGED <<flash, window, bufVars, freq, lit, ghostVars, asked>>
  PROVE  LoopInv'
BY DEF LoopInv, TypeOK, BufferIsOfLast, AnswerDue, SettingsHold, bufVars, ghostVars

LEMMA SetSpiClkKeeps ==
  ASSUME LoopInv, NEW c \in HostClocks, SetSpiClk(c[1], c[2])
  PROVE  LoopInv'
<1> USE OutsAssumption DEF LoopInv, SetSpiClk, bufVars, ghostVars
<1>1. BufferIsOfLast'
  BY DEF BufferIsOfLast, AnswerDue
<1>2. reply' \in [verdict : {"accepted", "rejected", "none"}, len : Nat, of : AllWip .. MaxOuts]
  BY DEF Accepted, AllWip
<1>3. SettingsHold' /\ freq' \in 1 .. MaxSpiFreq
      /\ asked' \in [clock : Nat, leds : SUBSET Leds]
  <2>1. c[2] \in 1 .. MaxSpiFreq /\ Clamp(Frequency(c[1])) = c[2]
    BY ClocksFit DEF Fits
  <2>2. c[2] \in Nat
    BY ClocksFit DEF Fits
  <2>3. CASE flash = "shared"
    BY <2>1, <2>2, <2>3 DEF TypeOK, SettingsHold
  <2>4. CASE flash # "shared"
    BY <2>4 DEF TypeOK, SettingsHold
  <2> QED BY <2>3, <2>4
<1>4. TypeOK'
  BY <1>2, <1>3 DEF TypeOK
<1> QED BY <1>1, <1>3, <1>4

LEMMA SetIoLedKeeps ==
  ASSUME LoopInv, NEW leds \in SUBSET Leds, SetIoLed(leds)
  PROVE  LoopInv'
<1> USE OutsAssumption DEF LoopInv, SetIoLed, bufVars, ghostVars
<1>1. lit' = leds /\ lit' \subseteq Leds
  BY LedsRoundTrip
<1>2. BufferIsOfLast'
  BY DEF BufferIsOfLast, AnswerDue
<1>3. SettingsHold' /\ asked' \in [clock : Nat, leds : SUBSET Leds]
  BY <1>1 DEF TypeOK, SettingsHold
<1>4. reply' \in [verdict : {"accepted", "rejected", "none"}, len : Nat, of : AllWip .. MaxOuts]
  BY DEF Accepted, AllWip
<1>5. TypeOK'
  BY <1>1, <1>3, <1>4 DEF TypeOK
<1> QED BY <1>2, <1>3, <1>5

LEMMA NextKeeps == LoopInv /\ [Next]_vars => LoopInv'
<1> DEFINE Replies ==
      [verdict : {"accepted", "rejected", "none"}, len : Nat, of : AllWip .. MaxOuts]
<1> SUFFICES ASSUME LoopInv, [Next]_vars PROVE LoopInv'
  OBVIOUS
<1>0. {Accepted, Rejected, NotHandled} \subseteq Replies
  BY OutsAssumption DEF Accepted, Rejected, NotHandled, AllWip
<1>1. ASSUME NEW len \in DataLens, NEW cmd \in Commands, NEW needsRead \in BOOLEAN,
             TransceiveOut(len, cmd, needsRead)
      PROVE  LoopInv'
  BY <1>1, TransceiveOutKeeps
<1>2. ASSUME NEW len \in DataLens, TransceiveBadLength(len) PROVE LoopInv'
  BY <1>0, <1>2, AnswerKeeps DEF TransceiveBadLength
<1>3. ASSUME NEW c \in HostClocks, SetSpiClk(c[1], c[2]) PROVE LoopInv'
  BY <1>3, SetSpiClkKeeps
<1>4. ASSUME NEW leds \in SUBSET Leds, SetIoLed(leds) PROVE LoopInv'
  BY <1>4, SetIoLedKeeps
<1>5. ASSUME NEW r \in Replies, Answer(r) PROVE LoopInv'
  BY <1>5, AnswerKeeps DEF Answer
<1>6. ASSUME NEW len \in ReplyLens, TransceiveIn(len) PROVE LoopInv'
  <2>1. readLen \in Nat /\ readBuf \in AllWip .. MaxOuts /\ len \in Nat
    BY LensAssumption DEF LoopInv, TypeOK, BufLen
  <2>2. reply' \in Replies
    BY <1>6, <2>1, LeastIsNat DEF TransceiveIn
  <2> QED BY <1>6, <2>2, AnswerKeeps DEF TransceiveIn
<1>7. ASSUME NEW req \in DOMAIN InfoLen, NEW len \in ReplyLens, Info(req, len) PROVE LoopInv'
  <2>1. InfoLen[req] \in Nat /\ len \in Nat
    BY LensAssumption DEF InfoLen
  <2>2. [verdict |-> "accepted", len |-> Least(len, InfoLen[req]), of |-> 0] \in Replies
    BY <2>1, LeastIsNat, OutsAssumption DEF AllWip
  <2> QED BY <1>5, <1>7, <2>2 DEF Info
<1>8. ASSUME NEW user \in {"shared", "worker"}, Hand(user) PROVE LoopInv'
  BY <1>8 DEF Hand, LoopInv, TypeOK, BufferIsOfLast, AnswerDue, SettingsHold, bufVars, ghostVars
<1>15. CASE WindowOver
  BY <1>15 DEF WindowOver, LoopInv, TypeOK, BufferIsOfLast, AnswerDue, SettingsHold, bufVars,
               ghostVars
<1>9. CASE UNCHANGED vars
  BY <1>9 DEF vars, LoopInv, TypeOK, BufferIsOfLast, AnswerDue, SettingsHold, bufVars, ghostVars
<1>10. ASSUME NEW req \in Acknowledged, Acknowledge(req) PROVE LoopInv'
  BY <1>0, <1>5, <1>10 DEF Acknowledge
<1>11. ASSUME NEW value \in 0 .. 1, IoModeRequest(value) PROVE LoopInv'
  BY <1>0, <1>5, <1>11 DEF IoModeRequest
<1>12. ASSUME Unhandled PROVE LoopInv'
  BY <1>0, <1>5, <1>12 DEF Unhandled
<1>13. CASE ControlOut
  BY <1>13, <1>1, <1>2, <1>3, <1>4, <1>10, <1>11 DEF ControlOut
<1>14. CASE ControlIn
  BY <1>14, <1>6, <1>7 DEF ControlIn
<1> QED BY <1>8, <1>9, <1>12, <1>13, <1>14, <1>15 DEF Next

(* The inductive invariant. *)
THEOREM LoopInvHolds == Spec => []LoopInv
BY InitHolds, NextKeeps, PTL DEF Spec

(* The buffer, the clock and the LEDs stay within their limits.            *)
THEOREM TypeCorrect == Spec => []TypeOK
<1>1. LoopInv => TypeOK
  BY DEF LoopInv
<1> QED BY LoopInvHolds, <1>1, PTL

(* The LEDs and the clock are as the host set them, whatever bulk          *)
(* operations and other requests came in between (usb_handler.rs:144-164). *)
THEOREM SettingsAreHeld == Spec => []SettingsHold
<1>1. LoopInv => SettingsHold
  BY DEF LoopInv
<1> QED BY LoopInvHolds, <1>1, PTL

(* CMD_TRANSCEIVE IN never returns bytes of an earlier transaction than    *)
(* the last one acknowledged (usb_handler.rs:42-79).                       *)
THEOREM ReplyBelongs == Spec => ReplyIsOfLastOut
<1>1. ASSUME LoopInv, NEW len \in ReplyLens, TransceiveIn(len)
      PROVE  /\ reply'.len = IF readsBack THEN Least(len, BufLen) ELSE 0
             /\ reply'.len > 0 => AnswerDue(reply'.of)
  <2>1. reply'.len = Least(len, readLen) /\ reply'.of = readBuf
    BY <1>1 DEF TransceiveIn
  <2>2. len \in Nat
    BY LensAssumption
  <2>3. CASE readsBack
    BY <1>1, <2>1, <2>3 DEF LoopInv, BufferIsOfLast
  <2>4. CASE ~readsBack
    BY <1>1, <2>1, <2>2, <2>4 DEF LoopInv, BufferIsOfLast, Least
  <2> QED BY <2>3, <2>4
<1>2. LoopInv =>
        [\A len \in ReplyLens : TransceiveIn(len) =>
           /\ reply'.len = IF readsBack THEN Least(len, BufLen) ELSE 0
           /\ reply'.len > 0 => AnswerDue(reply'.of)]_vars
  BY <1>1
<1> QED BY LoopInvHolds, <1>2, PTL DEF ReplyIsOfLastOut, AnswerDue
=============================================================================
