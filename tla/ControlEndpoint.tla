--------------------------- MODULE ControlEndpoint ---------------------------
(***************************************************************************)
(* The vendor requests on EP0 (control_out and control_in of               *)
(* usb_handler.rs): CMD_TRANSCEIVE with its two phases and its rejections, *)
(* the clock, the LEDs, the identification and the stubs.                  *)
(*                                                                         *)
(* The worker takes the flash away and brings it back between any two      *)
(* requests; when it does, and CMD_SET_CS, CMD_READ and CMD_WRITE, are in  *)
(* FlashSession; so is how long the window of an erase lasts.  The         *)
(* transactions are numbered as they are accepted, and the number stands   *)
(* for the bytes the chip answers with.                                    *)
(***************************************************************************)
EXTENDS Integers, Sequences

CONSTANTS
  DataLens,     \* the data lengths of an OUT request
  ReplyLens,    \* wLength of an IN request
  MaxOuts       \* bound: the transactions that are accepted

BufLen == 16    \* of transceive_read_buf, and the longest transaction

ASSUME LensAssumption == DataLens \subseteq Nat /\ ReplyLens \subseteq Nat
ASSUME OutsAssumption == MaxOuts \in Nat

VARIABLES
  flash,      \* SPI_FLASH: "shared", or None while the "worker" has it
  window,     \* force_busy_until lies ahead
  readBuf,    \* transceive_read_buf: the transaction it is from, or Zeros, AllWip
  readLen,    \* transceive_read_len
  freq,       \* the SPI clock in kHz
  lit,        \* the LEDs that are on
  reply,      \* what the handler made of the last request
  outs,       \* ghost: the transactions the host has been acknowledged
  readsBack,  \* ghost: the last of them has a read phase
  doneBy,     \* ghost: who did it: the "chip", the "driver" alone, or "nobody"
  asked       \* ghost: what the host set last, the clock while it could

bufVars == <<readBuf, readLen>>
ghostVars == <<outs, readsBack, doneBy>>
vars == <<flash, window, bufVars, freq, lit, reply, ghostVars, asked>>

Zeros == 0
AllWip == -1    \* SPI_STATUS_WIP in every byte

Least(a, b) == IF a < b THEN a ELSE b

Accepted == [verdict |-> "accepted", len |-> 0, of |-> 0]
Rejected == [verdict |-> "rejected", len |-> 0, of |-> 0]

(* Neither handled here nor, for a vendor request, by the stack: a stall.  *)
NotHandled == [verdict |-> "none", len |-> 0, of |-> 0]

-----------------------------------------------------------------------------
(* Tables.                                                                 *)

MaxSpiFreq == 24000
DefaultSpiFreq == 24000

(* Mutant: the codes of 8 and 12 MHz swapped.                              *)
FrequencySwapped(code) ==
  IF code < 8 THEN <<24000, 12000, 8000, 3000, 2180, 1500, 750, 375>>[code + 1] ELSE 12000

(* SpiSpeed: any code above 7 is 12 MHz.                                   *)
Frequency(code) ==
  IF code < 8 THEN <<24000, 8000, 12000, 3000, 2180, 1500, 750, 375>>[code + 1] ELSE 12000

(* The host's table of the codes (external), and one that is in none.      *)
HostClocks ==
  {<<0, 24000>>, <<1, 8000>>, <<2, 12000>>, <<3, 3000>>, <<4, 2180>>, <<5, 1500>>,
   <<6, 750>>, <<7, 375>>, <<8, 12000>>}

Leds == {"LED_PASS", "LED_BUSY", "LED_ERROR"}

(* What the host puts into the high byte of wValue: the bits of the LEDs   *)
(* that are off.                                                           *)
HighByte(leds) == Leds \ leds

(* set_from_wvalue: the byte xor 7.                                        *)
LitBy(high) == (high \ Leds) \cup (Leds \ high)

(* The requests that are acknowledged and change nothing: CMD_SET_VPP,     *)
(* SET_TARGET, SET_VCC, SET_STANDALONE, SET_HOLD and any that is unknown.  *)
Acknowledged == {"set_vpp", "set_target", "set_vcc", "set_standalone", "set_hold", "unknown"}

(* The length of what an IN request returns besides CMD_TRANSCEIVE: the    *)
(* string and the ids of config.rs, and single bytes.                      *)
InfoLen == [prog_info |-> 24, eeprom |-> 16, uid |-> 8, fpga_version |-> 2,
            voltage |-> 1, button |-> 1, socket |-> 1]

-----------------------------------------------------------------------------
Init ==
  /\ flash = "shared" /\ window = FALSE /\ readBuf = Zeros /\ readLen = 0
  /\ freq = DefaultSpiFreq /\ lit = {} /\ reply = Accepted
  /\ outs = 0 /\ readsBack = FALSE /\ doneBy = "nobody"
  /\ asked = [clock |-> DefaultSpiFreq, leds |-> {}]

(* What a transaction carries: a status read, an erase that is in the      *)
(* table of erase_busy_duration, or anything else.                         *)
Commands == {"status", "erase", "other"}

(* The handler finds the driver gone, transceive_blocking reports WIP      *)
(* inside a window and leaves the bus alone, or the chip sees it.          *)
Doer(cmd, needsRead) ==
  IF flash = "worker" THEN "nobody"
  ELSE IF cmd = "status" /\ needsRead /\ window THEN "driver" ELSE "chip"

(* Mutant: the buffer is filled only if the transaction is done.           *)
FillIfDone(doer) ==
  readBuf' = IF doer = "chip" THEN outs + 1 ELSE IF doer = "driver" THEN AllWip ELSE readBuf

Fill(doer) ==
  readBuf' = IF doer = "chip" THEN outs + 1 ELSE IF doer = "driver" THEN AllWip ELSE Zeros

Buffer(doer, needsRead) ==
  IF needsRead THEN Fill(doer) /\ readLen' = BufLen ELSE readLen' = 0 /\ UNCHANGED readBuf

(* CMD_TRANSCEIVE OUT: a transaction, done before the acknowledgement.     *)
TransceiveOut(len, cmd, needsRead) ==
  LET doer == Doer(cmd, needsRead)
  IN  /\ len \in 1 .. BufLen /\ outs < MaxOuts
      /\ Buffer(doer, needsRead)
      /\ window' = (window \/ (doer = "chip" /\ cmd = "erase" /\ ~needsRead))
      /\ outs' = outs + 1 /\ readsBack' = needsRead /\ doneBy' = doer
      /\ reply' = Accepted
      /\ UNCHANGED <<flash, freq, lit, asked>>

(* An empty one, or one that is too long.                                  *)
TransceiveBadLength(len) ==
  /\ len \notin 1 .. BufLen
  /\ reply' = Rejected
  /\ UNCHANGED <<flash, window, bufVars, freq, lit, ghostVars, asked>>

(* CMD_TRANSCEIVE IN.                                                      *)
TransceiveIn(len) ==
  /\ reply' = [verdict |-> "accepted", len |-> Least(len, readLen), of |-> readBuf]
  /\ UNCHANGED <<flash, window, bufVars, freq, lit, ghostVars, asked>>

(* set_frequency.                                                          *)
Clamp(f) == IF f < 1 THEN 1 ELSE Least(f, MaxSpiFreq)

(* CMD_SET_SPI_CLK, dropped without a word if the worker has the flash.    *)
SetSpiClk(code, wanted) ==
  /\ IF flash = "shared"
     THEN freq' = Clamp(Frequency(code)) /\ asked' = [asked EXCEPT !.clock = wanted]
     ELSE UNCHANGED <<freq, asked>>
  /\ reply' = Accepted
  /\ UNCHANGED <<flash, window, bufVars, lit, ghostVars>>

SetIoLed(leds) ==
  /\ lit' = LitBy(HighByte(leds))
  /\ asked' = [asked EXCEPT !.leds = leds]
  /\ reply' = Accepted
  /\ UNCHANGED <<flash, window, bufVars, freq, ghostVars>>

(* The requests that leave everything as it is.                            *)
Answer(r) ==
  /\ reply' = r
  /\ UNCHANGED <<flash, window, bufVars, freq, lit, ghostVars, asked>>

Acknowledge(req) == req \in Acknowledged /\ Answer(Accepted)

(* Single-lane hardware only.                                              *)
IoModeRequest(value) == Answer(IF value = 0 THEN Accepted ELSE Rejected)

(* The stack cuts an answer at wLength.                                    *)
Info(req, len) ==
  Answer([verdict |-> "accepted", len |-> Least(len, InfoLen[req]), of |-> 0])

(* An unknown IN request, or one that is no vendor request.                *)
Unhandled == Answer(NotHandled)

ControlOut ==
  \/ \E len \in DataLens, cmd \in Commands, needsRead \in BOOLEAN :
       TransceiveOut(len, cmd, needsRead)
  \/ \E len \in DataLens : TransceiveBadLength(len)
  \/ \E c \in HostClocks : SetSpiClk(c[1], c[2])
  \/ \E leds \in SUBSET Leds : SetIoLed(leds)
  \/ \E req \in Acknowledged : Acknowledge(req)
  \/ \E value \in 0 .. 1 : IoModeRequest(value)

ControlIn ==
  \/ \E len \in ReplyLens : TransceiveIn(len)
  \/ \E req \in DOMAIN InfoLen, len \in ReplyLens : Info(req, len)

(* The worker takes the flash, or brings it back.                          *)
Hand(user) ==
  /\ flash' = user
  /\ UNCHANGED <<window, bufVars, freq, lit, reply, ghostVars, asked>>

(* Time passes; an erase may open another window before.                   *)
WindowOver ==
  /\ window
  /\ window' = FALSE
  /\ UNCHANGED <<flash, bufVars, freq, lit, reply, ghostVars, asked>>

Next ==
  \/ ControlOut \/ ControlIn \/ Unhandled
  \/ (\E user \in {"shared", "worker"} : Hand(user)) \/ WindowOver

Spec == Init /\ [][Next]_vars

-----------------------------------------------------------------------------
(* The type invariant: the buffer and the clock stay within their limits.  *)
TypeOK ==
  /\ flash \in {"shared", "worker"} /\ window \in BOOLEAN
  /\ readBuf \in AllWip .. MaxOuts /\ readLen \in {0, BufLen}
  /\ freq \in 1 .. MaxSpiFreq /\ lit \subseteq Leds
  /\ reply \in [verdict : {"accepted", "rejected", "none"}, len : Nat, of : AllWip .. MaxOuts]
  /\ outs \in 0 .. MaxOuts /\ readsBack \in BOOLEAN
  /\ doneBy \in {"chip", "driver", "nobody"}
  /\ asked \in [clock : Nat, leds : SUBSET Leds]

(* "Buffered read data from the last CMD_TRANSCEIVE SPI transaction"       *)
(* (usb_handler.rs:17): whatever came in since, rejected transactions,     *)
(* other requests or a bulk operation, an IN phase returns what the chip   *)
(* answered to the last transaction the host was acknowledged, or nothing  *)
(* if that had no read phase; WIP only if the driver answered that one for *)
(* the chip, and zeros only if the driver was not there.                   *)
ReplyIsOfLastOut ==
  [][\A len \in ReplyLens : TransceiveIn(len) =>
       /\ reply'.len = IF readsBack THEN Least(len, BufLen) ELSE 0
       /\ reply'.len > 0 =>
            \/ doneBy = "chip" /\ reply'.of = outs
            \/ doneBy = "driver" /\ reply'.of = AllWip
            \/ doneBy = "nobody" /\ reply'.of = Zeros]_vars

(* The LEDs and the clock are what the host set them to (leds.rs:20        *)
(* against set_from_wvalue, the clock codes against SpiSpeed), also after  *)
(* bulk operations; a clock the worker's having the flash dropped apart.   *)
SettingsHold == lit = asked.leds /\ freq = asked.clock
=============================================================================
