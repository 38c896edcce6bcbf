------------------------- MODULE FlashSessionProofs -------------------------
(***************************************************************************)
(* Proofs about FlashSession for every choice of delays, windows and       *)
(* hosts that its assumptions allow.                                       *)
(***************************************************************************)
EXTENDS FlashSession, TLAPS

(* The worker has the flash, and an operation, from Dispatch to            *)
(* ReturnFlash; the locations of the two kinds of operation are apart.     *)
Ownership ==
  /\ flash = "worker" <=> wpc # "wait"
  /\ wpc # "wait" => cur \in Operation
  /\ wpc \in {"readcmd", "stream"} => cur.kind = "read"
  /\ wpc \in {"slot", "wren", "program", "headstart", "poll", "settle"} =>
       cur.kind = "write"
  /\ wpc \in {"enable", "readcmd"} => done = 0
  /\ wpc \in {"window", "postwindow"} /\ cur.kind = "read" => done = 0

(* From the first frame of an operation on no window is set.               *)
WindowGone ==
  /\ wpc \in Frames \cup {"postwindow", "headstart"} => window = NoWindow
  /\ wpc \in {"slot", "settle", "window"} /\ done > 0 => window = NoWindow

(* The chip's delays.  While the worker waits for a page to be done, WIP   *)
(* is hidden for no longer than the head start lasts.                      *)
Delays ==
  /\ hidden <= WipLag
  /\ stale <= busy + StaleLag
  /\ wpc = "headstart" => hidden <= timer
  /\ wpc = "poll" => hidden = 0

(* The chip is idle where the worker relies on it.                         *)
IdleChip ==
  /\ wpc \in {"slot", "window", "postwindow", "wren", "program", "settle"}
       /\ (PoliteHost \/ done > 0) => busy = 0
  /\ wpc = "program" /\ (PoliteHost \/ done > 0) => wel = 1

(* With a polite host only an erase under its window keeps the chip busy   *)
(* outside an operation, and a window is left for contents that are late.  *)
Politeness ==
  PoliteHost =>
    /\ bulkOp # NoOp => ~erasing
    /\ wpc = "wait" /\ busy > 0 => erasing /\ (hidden <= window \/ hidden = 0)
    /\ wpc \in {"enable", "readcmd", "stream"} => busy = 0
    /\ wpc \in {"wait", "enable"} /\ stale > 0 => window # NoWindow
    /\ wpc = "window" /\ cur.kind = "read" /\ stale > 0 => window # NoWindow
    /\ wpc = "postwindow" /\ cur.kind = "read" => stale <= timer
    /\ wpc \in {"readcmd", "stream"} => stale = 0
    /\ wpc = "settle" => stale <= timer

Structure == TypeOK /\ Ownership /\ SignalMatchesOp /\ ChipSelect /\ WindowGone

IInv == Structure /\ Delays /\ IdleChip /\ Politeness

-----------------------------------------------------------------------------
(* The constants are what the proofs below take them for.                  *)
LEMMA Constants ==
  /\ HeadStart \in Nat /\ Settle \in Nat /\ EraseTime \in Nat /\ ProgramTime \in Nat
  /\ WipLag \in Nat /\ StaleLag \in Nat
  /\ WipLag <= HeadStart /\ StaleLag <= Settle
  /\ \A c \in Tabled : c \in Erases /\ EraseWindow[c] \in Nat /\ WipLag <= EraseWindow[c]
  BY TimingAssumption, LagAssumption DEF Tabled

(* What a command does to the chip, whatever the chip makes of it.         *)
LEMMA ExecuteStep ==
  ASSUME NEW c, Execute(c), wel \in {0, 1}, busy \in Nat, hidden \in Nat, stale \in Nat,
         hidden <= WipLag, stale <= busy + StaleLag
  PROVE  /\ wel' \in {0, 1} /\ busy' \in Nat /\ hidden' \in Nat /\ stale' \in Nat
         /\ hidden' <= WipLag /\ stale' <= busy' + StaleLag
         /\ c \notin Erases /\ c # "program" => UNCHANGED <<busy, hidden, stale>>
         /\ c = "wren" /\ busy = 0 => wel' = 1
<1>1. CASE Accepts(c) /\ c = "wren" /\ wel' = 1 /\ UNCHANGED <<busy, hidden, stale>>
  BY <1>1
<1>2. ASSUME NEW longest \in Nat, WriteCycle(longest), busy = 0
      PROVE  /\ wel' \in {0, 1} /\ busy' \in Nat /\ hidden' \in Nat /\ stale' \in Nat
             /\ hidden' <= WipLag /\ stale' <= busy' + StaleLag
  <2>1. PICK lag \in 0 .. StaleLag : stale' = Max2(stale, busy' + lag)
    BY <1>2 DEF WriteCycle
  <2>2. /\ lag \in Nat /\ lag <= StaleLag /\ stale <= StaleLag
        /\ busy' \in Nat /\ hidden' \in Nat /\ hidden' <= WipLag /\ wel' = 0
    BY <1>2, <2>1, Constants DEF WriteCycle
  <2>3. stale' \in Nat /\ stale' <= busy' + StaleLag
    <3>1. stale' = stale \/ stale' = busy' + lag
      BY <2>1 DEF Max2
    <3>2. QED
      BY <2>2, <3>1, Constants
  <2>4. QED
    BY <2>2, <2>3
<1>3. CASE Accepts(c) /\ c \in Erases /\ WriteCycle(EraseTime)
  BY <1>2, <1>3, Constants, CommandsAssumption DEF Accepts
<1>4. CASE Accepts(c) /\ c = "program" /\ WriteCycle(ProgramTime)
  BY <1>2, <1>4, Constants DEF Accepts
<1>5. CASE ~Accepts(c) /\ UNCHANGED chipVars
  BY <1>5 DEF Accepts, chipVars, Passive
<1>6. QED
  BY <1>1, <1>3, <1>4, <1>5 DEF Execute

(* The invariant holds at start.                                           *)
LEMMA InitIInv == Init => IInv
<1> SUFFICES ASSUME Init PROVE IInv
  OBVIOUS
<1>1. /\ flash = "shared" /\ bulkOp = NoOp /\ signal = FALSE /\ cs = "high"
      /\ window = NoWindow /\ freq \in Frequencies /\ answer = "none"
      /\ enabled = FALSE /\ erasing = FALSE /\ wpc = "wait" /\ cur = NoOp
      /\ moved = 0 /\ done = 0 /\ timer = 0
      /\ wel = 0 /\ busy = 0 /\ hidden = 0 /\ stale = 0
  BY DEF Init
<1>2. TypeOK
  BY <1>1 DEF TypeOK, Locations
<1>3. Ownership /\ SignalMatchesOp /\ ChipSelect /\ WindowGone
  BY <1>1 DEF Ownership, SignalMatchesOp, ChipSelect, WindowGone, Frames
<1>4. Delays /\ IdleChip /\ Politeness
  BY <1>1, Constants DEF Delays, IdleChip, Politeness
<1>5. QED
  BY <1>2, <1>3, <1>4 DEF IInv, Structure

-----------------------------------------------------------------------------
(* Time passes: every count stays above what it covers.                    *)
LEMMA TickStep == IInv /\ Tick => IInv'
<1> SUFFICES ASSUME IInv, Tick PROVE IInv'
  OBVIOUS
<1>1. /\ UNCHANGED <<flash, bulkOp, signal, cs, freq, answer, enabled, erasing,
                      wpc, cur, moved, done, wel>>
      /\ window' = Down(window) /\ timer' = Down(timer) /\ busy' = Down(busy)
      /\ hidden' = Down(hidden) /\ stale' = Down(stale)
  BY DEF Tick, opVars, handlerVars
<1>2. /\ timer \in Nat /\ busy \in Nat /\ hidden \in Nat /\ stale \in Nat
      /\ window \in Nat \cup {NoWindow}
  BY DEF IInv, Structure, TypeOK
<1>3. /\ timer' \in Nat /\ busy' \in Nat /\ hidden' \in Nat /\ stale' \in Nat
      /\ window' \in Nat \cup {NoWindow} /\ (window' = NoWindow <=> window = NoWindow)
  BY <1>1, <1>2 DEF Down, NoWindow
<1>4. Structure'
  BY <1>1, <1>3
  DEF IInv, Structure, TypeOK, Ownership, SignalMatchesOp, ChipSelect, WindowGone
<1>5. Delays' /\ IdleChip'
  BY <1>1, <1>2, Constants DEF IInv, Delays, IdleChip, Down
<1>6. Politeness'
  BY <1>1, <1>2, <1>3, Constants DEF IInv, Politeness, Down, NoWindow
<1>7. QED
  BY <1>4, <1>5, <1>6 DEF IInv

(* A transaction of the handler.                                           *)
LEMMA TransceiveStep ==
  ASSUME IInv, NEW c \in Commands, NEW r \in BOOLEAN, TransceiveOut(c, r)
  PROVE  IInv'
<1>1. /\ UNCHANGED <<flash, bulkOp, signal, freq, enabled, wpc, cur, moved, done, timer>>
      /\ answer' = Answer(c, r)
      /\ PoliteHost => /\ bulkOp = NoOp
                       /\ c # "program"
                       /\ c \in Erases => c \in Tabled /\ ~r
                       /\ erasing => c = "status" /\ r
      /\ erasing' = (c \in Erases \/ (erasing /\ ~(r /\ c = "status" /\ answer' # "wip")))
  BY DEF TransceiveOut, MaySend, opVars, workerVars
<1>2. /\ wel \in {0, 1} /\ busy \in Nat /\ hidden \in Nat /\ stale \in Nat
      /\ timer \in Nat /\ hidden <= WipLag /\ stale <= busy + StaleLag
      /\ window \in Nat \cup {NoWindow} /\ flash \in {"shared", "worker"}
      /\ flash = "worker" <=> wpc # "wait"
  BY DEF IInv, Structure, TypeOK, Delays, Ownership
<1>3. answer' \in {"none", "zeros", "wip", "ready", "data"} /\ erasing' \in BOOLEAN
  BY <1>1 DEF Answer
<1>5. CASE flash = "worker" \/ ForcedStatus(c, r)
  <2>1. UNCHANGED <<cs, window, wel, busy, hidden, stale>>
    BY <1>5 DEF TransceiveOut, chipVars
  <2>2. Structure'
    BY <1>1, <1>3, <2>1
    DEF IInv, Structure, TypeOK, Ownership, SignalMatchesOp, ChipSelect, WindowGone
  <2>3. Delays' /\ IdleChip'
    BY <1>1, <2>1 DEF IInv, Delays, IdleChip
  <2>4. wpc = "wait" => (erasing => erasing')
    <3> SUFFICES ASSUME wpc = "wait", erasing PROVE erasing'
      OBVIOUS
    <3>1. flash # "worker" /\ ForcedStatus(c, r)
      BY <1>2, <1>5
    <3>2. r /\ c = "status"
      BY <3>1 DEF ForcedStatus
    <3>3. answer' = "wip"
      BY <1>1, <3>1, <3>2 DEF Answer
    <3>4. QED
      BY <1>1, <3>3
  <2>5. Politeness'
    BY <1>1, <2>1, <2>4 DEF IInv, Politeness
  <2>6. QED
    BY <2>2, <2>3, <2>5 DEF IInv
<1>6. CASE ~(flash = "worker" \/ ForcedStatus(c, r))
  <2>1. cs' = "high" /\ Execute(c) /\ SetWindow(c, r) /\ wpc = "wait"
    BY <1>2, <1>6 DEF TransceiveOut
  <2>2. /\ wel' \in {0, 1} /\ busy' \in Nat /\ hidden' \in Nat /\ stale' \in Nat
        /\ hidden' <= WipLag /\ stale' <= busy' + StaleLag
        /\ c \notin Erases \cup {"program"} => UNCHANGED <<busy, hidden, stale>>
    BY <1>2, <2>1, ExecuteStep
  <2>3. window' \in Nat \cup {NoWindow}
    BY <1>2, <2>1, Constants DEF SetWindow
  <2>4. Structure'
    BY <1>1, <1>3, <2>1, <2>2, <2>3
    DEF IInv, Structure, TypeOK, Ownership, SignalMatchesOp, ChipSelect,
        WindowGone, Frames
  <2>5. Delays' /\ IdleChip'
    BY <1>1, <2>1, <2>2 DEF Delays, IdleChip
  <2>6. Politeness'
    <3> SUFFICES ASSUME PoliteHost PROVE Politeness'
      BY DEF Politeness
    <3>1. CASE c \in Erases
      <4>1. window' = EraseWindow[c] /\ erasing'
        BY <1>1, <2>1, <3>1 DEF SetWindow
      <4>2. window' \in Nat /\ hidden' <= window'
        BY <1>1, <2>2, <3>1, <4>1, Constants
      <4>3. QED
        BY <1>1, <2>1, <4>1, <4>2 DEF Politeness, NoWindow
    <3>2. CASE c \notin Erases
      <4>1. UNCHANGED <<busy, hidden, stale, window>>
        BY <1>1, <2>1, <2>2, <3>2 DEF SetWindow, Tabled
      <4>2. busy > 0 => erasing'
        <5> SUFFICES ASSUME busy > 0 PROVE erasing'
          OBVIOUS
        <5>1. erasing /\ (hidden <= window \/ hidden = 0) /\ c = "status" /\ r
          BY <1>1, <2>1 DEF IInv, Politeness
        <5>2. hidden = 0
          BY <1>2, <1>6, <5>1 DEF ForcedStatus, NoWindow
        <5>3. answer' = "wip"
          BY <1>1, <1>6, <5>1, <5>2 DEF Answer, Wip
        <5>4. QED
          BY <1>1, <5>1, <5>3
      <4>3. QED
        BY <1>1, <2>1, <4>1, <4>2 DEF IInv, Politeness
    <3>3. QED
      BY <3>1, <3>2
  <2>7. QED
    BY <2>4, <2>5, <2>6 DEF IInv
<1>7. QED
  BY <1>5, <1>6

(* The other requests leave the chip alone.                                *)
LEMMA RequestStep ==
  IInv /\ ((\E level \in {"low", "high"} : SetCs(level)) \/ (\E f \in Frequencies : SetSpiClk(f))
           \/ (\E op \in Operation : Setup(op)) \/ (\E b \in BOOLEAN : Configured(b)))
  => IInv'
<1> SUFFICES ASSUME IInv PROVE
      ((\E level \in {"low", "high"} : SetCs(level)) \/ (\E f \in Frequencies : SetSpiClk(f))
       \/ (\E op \in Operation : Setup(op)) \/ (\E b \in BOOLEAN : Configured(b)))
      => IInv'
  OBVIOUS
<1>1. ASSUME NEW level \in {"low", "high"}, SetCs(level) PROVE IInv'
  <2>1. Structure'
    BY <1>1, Constants
    DEF SetCs, opVars, handlerVars, chipVars, workerVars, IInv, Structure, TypeOK, Ownership, SignalMatchesOp, ChipSelect,
        WindowGone, Frames, Locations
  <2>2. Delays' /\ IdleChip'
    BY <1>1, Constants
    DEF SetCs, opVars, handlerVars, chipVars, workerVars, IInv, Structure, TypeOK, Ownership, Delays,
        IdleChip
  <2>3. Politeness'
    BY <1>1, Constants
    DEF SetCs, opVars, handlerVars, chipVars, workerVars, IInv, Structure, TypeOK, Ownership, Delays,
        IdleChip, Politeness
  <2>4. QED
    BY <2>1, <2>2, <2>3 DEF IInv
<1>2. ASSUME NEW f \in Frequencies, SetSpiClk(f) PROVE IInv'
  <2>1. Structure'
    BY <1>2, Constants
    DEF SetSpiClk, opVars, handlerVars, chipVars, workerVars, IInv, Structure, TypeOK, Ownership, SignalMatchesOp, ChipSelect,
        WindowGone, Frames, Locations
  <2>2. Delays' /\ IdleChip'
    BY <1>2, Constants
    DEF SetSpiClk, opVars, handlerVars, chipVars, workerVars, IInv, Structure, TypeOK, Ownership, Delays,
        IdleChip
  <2>3. Politeness'
    BY <1>2, Constants
    DEF SetSpiClk, opVars, handlerVars, chipVars, workerVars, IInv, Structure, TypeOK, Ownership, Delays,
        IdleChip, Politeness
  <2>4. QED
    BY <2>1, <2>2, <2>3 DEF IInv
<1>3. ASSUME NEW op \in Operation, Setup(op) PROVE IInv'
  <2>1. Structure'
    BY <1>3, Constants
    DEF Setup, opVars, handlerVars, chipVars, workerVars, IInv, Structure, TypeOK, Ownership, SignalMatchesOp, ChipSelect,
        WindowGone, Frames, Locations, Operation, NoOp
  <2>2. Delays' /\ IdleChip'
    BY <1>3, Constants
    DEF Setup, opVars, handlerVars, chipVars, workerVars, IInv, Structure, TypeOK, Ownership, Delays,
        IdleChip
  <2>3. Politeness'
    BY <1>3, Constants
    DEF Setup, opVars, handlerVars, chipVars, workerVars, IInv, Structure, TypeOK, Ownership, Delays,
        IdleChip, Politeness, MaySend
  <2>4. QED
    BY <2>1, <2>2, <2>3 DEF IInv
<1>4. ASSUME NEW b \in BOOLEAN, Configured(b) PROVE IInv'
  <2>1. Structure'
    BY <1>4, Constants
    DEF Configured, opVars, handlerVars, chipVars, workerVars, IInv, Structure, TypeOK, Ownership, SignalMatchesOp, ChipSelect,
        WindowGone, Frames, Locations
  <2>2. Delays' /\ IdleChip'
    BY <1>4, Constants
    DEF Configured, opVars, handlerVars, chipVars, workerVars, IInv, Structure, TypeOK, Ownership, Delays,
        IdleChip
  <2>3. Politeness'
    BY <1>4, Constants
    DEF Configured, opVars, handlerVars, chipVars, workerVars, IInv, Structure, TypeOK, Ownership, Delays,
        IdleChip, Politeness
  <2>4. QED
    BY <2>1, <2>2, <2>3 DEF IInv
<1>5. QED
  BY <1>1, <1>2, <1>3, <1>4

(* The worker waits for the endpoint, the window and the host.             *)
LEMMA AwaitStep ==
  IInv /\ (EndpointEnabled \/ NoWindowLeft \/ WindowPassed \/ PostWindowOver \/ UsbBlock) => IInv'
<1> SUFFICES ASSUME IInv PROVE (EndpointEnabled \/ NoWindowLeft \/ WindowPassed \/ PostWindowOver \/ UsbBlock) => IInv'
  OBVIOUS
<1>1. ASSUME EndpointEnabled PROVE IInv'
  <2>1. Structure'
    BY <1>1, Constants
    DEF EndpointEnabled, opVars, handlerVars, chipVars, workerVars, IInv, Structure, TypeOK, Ownership, SignalMatchesOp, ChipSelect,
        WindowGone, Frames, Locations, NoWindow, Operation
  <2>2. Delays' /\ IdleChip'
    BY <1>1, Constants
    DEF EndpointEnabled, opVars, handlerVars, chipVars, workerVars, IInv, Structure, TypeOK, Ownership, Delays,
        IdleChip, Politeness
  <2>3. Politeness'
    BY <1>1, Constants
    DEF EndpointEnabled, opVars, handlerVars, chipVars, workerVars, IInv, Structure, TypeOK, Ownership, Delays,
        IdleChip, Politeness, NoWindow
  <2>4. QED
    BY <2>1, <2>2, <2>3 DEF IInv
<1>2. ASSUME NoWindowLeft PROVE IInv'
  <2>1. Structure'
    BY <1>2, Constants
    DEF NoWindowLeft, opVars, handlerVars, chipVars, workerVars, IInv, Structure, TypeOK, Ownership, SignalMatchesOp, ChipSelect,
        WindowGone, Frames, Locations, NoWindow, Operation
  <2>2. Delays' /\ IdleChip'
    BY <1>2, Constants
    DEF NoWindowLeft, opVars, handlerVars, chipVars, workerVars, IInv, Structure, TypeOK, Ownership, Delays,
        IdleChip, Wip, Operation
  <2>3. Politeness'
    BY <1>2, Constants
    DEF NoWindowLeft, opVars, handlerVars, chipVars, workerVars, IInv, Structure, TypeOK, Ownership, Delays,
        IdleChip, Politeness, NoWindow
  <2>4. QED
    BY <2>1, <2>2, <2>3 DEF IInv
<1>3. ASSUME WindowPassed PROVE IInv'
  <2>1. Structure'
    BY <1>3, Constants
    DEF WindowPassed, opVars, handlerVars, chipVars, workerVars, IInv, Structure, TypeOK, Ownership, SignalMatchesOp, ChipSelect,
        WindowGone, Frames, Locations, NoWindow, Operation
  <2>2. Delays' /\ IdleChip'
    BY <1>3, Constants
    DEF WindowPassed, opVars, handlerVars, chipVars, workerVars, IInv, Structure, TypeOK, Ownership, Delays,
        IdleChip, Wip, Operation
  <2>3. Politeness'
    BY <1>3, Constants
    DEF WindowPassed, opVars, handlerVars, chipVars, workerVars, IInv, Structure, TypeOK, Ownership, Delays,
        IdleChip, Politeness, NoWindow
  <2>4. QED
    BY <2>1, <2>2, <2>3 DEF IInv
<1>4. ASSUME PostWindowOver PROVE IInv'
  <2>1. Structure'
    BY <1>4, Constants
    DEF PostWindowOver, opVars, handlerVars, chipVars, workerVars, IInv, Structure, TypeOK, Ownership, SignalMatchesOp, ChipSelect,
        WindowGone, Frames, Locations, NoWindow, Operation
  <2>2. Delays' /\ IdleChip'
    BY <1>4, Constants
    DEF PostWindowOver, opVars, handlerVars, chipVars, workerVars, IInv, Structure, TypeOK, Ownership, Delays,
        IdleChip, Wip, Operation
  <2>3. Politeness'
    BY <1>4, Constants
    DEF PostWindowOver, opVars, handlerVars, chipVars, workerVars, IInv, Structure, TypeOK, Ownership, Delays,
        IdleChip, Politeness, NoWindow
  <2>4. QED
    BY <2>1, <2>2, <2>3 DEF IInv
<1>5. ASSUME UsbBlock PROVE IInv'
  <2>1. Structure'
    BY <1>5, Constants
    DEF UsbBlock, opVars, handlerVars, chipVars, workerVars, IInv, Structure, TypeOK, Ownership, SignalMatchesOp, ChipSelect,
        WindowGone, Frames, Locations, NoWindow, Operation
  <2>2. Delays' /\ IdleChip'
    BY <1>5, Constants
    DEF UsbBlock, opVars, handlerVars, chipVars, workerVars, IInv, Structure, TypeOK, Ownership, Delays,
        IdleChip, Wip, Operation
  <2>3. Politeness'
    BY <1>5, Constants
    DEF UsbBlock, opVars, handlerVars, chipVars, workerVars, IInv, Structure, TypeOK, Ownership, Delays,
        IdleChip, Politeness, NoWindow
  <2>4. QED
    BY <2>1, <2>2, <2>3 DEF IInv
<1>6. QED
  BY <1>1, <1>2, <1>3, <1>4, <1>5

(* A bulk read streams.                                                    *)
LEMMA ReadStep ==
  IInv /\ (ReadCmdSent \/ ReadBlock) => IInv'
<1> SUFFICES ASSUME IInv PROVE (ReadCmdSent \/ ReadBlock) => IInv'
  OBVIOUS
<1>1. ASSUME ReadCmdSent PROVE IInv'
  <2>1. Structure'
    BY <1>1, Constants
    DEF ReadCmdSent, opVars, handlerVars, chipVars, workerVars, IInv, Structure, TypeOK, Ownership, SignalMatchesOp, ChipSelect,
        WindowGone, Frames, Locations, NoWindow, Operation
  <2>2. Delays' /\ IdleChip'
    BY <1>1, Constants
    DEF ReadCmdSent, opVars, handlerVars, chipVars, workerVars, IInv, Structure, TypeOK, Ownership, Delays,
        IdleChip, Wip, Operation
  <2>3. Politeness'
    BY <1>1, Constants
    DEF ReadCmdSent, opVars, handlerVars, chipVars, workerVars, IInv, Structure, TypeOK, Ownership, Delays,
        IdleChip, Politeness, NoWindow
  <2>4. QED
    BY <2>1, <2>2, <2>3 DEF IInv
<1>2. ASSUME ReadBlock PROVE IInv'
  <2>1. Structure'
    BY <1>2, Constants
    DEF ReadBlock, opVars, handlerVars, chipVars, workerVars, IInv, Structure, TypeOK, Ownership, SignalMatchesOp, ChipSelect,
        WindowGone, Frames, Locations, NoWindow, Operation
  <2>2. Delays' /\ IdleChip'
    BY <1>2, Constants
    DEF ReadBlock, opVars, handlerVars, chipVars, workerVars, IInv, Structure, TypeOK, Ownership, Delays,
        IdleChip, Wip, Operation
  <2>3. Politeness'
    BY <1>2, Constants
    DEF ReadBlock, opVars, handlerVars, chipVars, workerVars, IInv, Structure, TypeOK, Ownership, Delays,
        IdleChip, Politeness, NoWindow
  <2>4. QED
    BY <2>1, <2>2, <2>3 DEF IInv
<1>3. QED
  BY <1>1, <1>2

(* A page is waited for, and the last one settles.                         *)
LEMMA PageStep ==
  IInv /\ (StartPage \/ StartPoll \/ PollAgain \/ PageDone \/ StartSettle) => IInv'
<1> SUFFICES ASSUME IInv PROVE (StartPage \/ StartPoll \/ PollAgain \/ PageDone \/ StartSettle) => IInv'
  OBVIOUS
<1>1. ASSUME StartPage PROVE IInv'
  <2>1. Structure'
    BY <1>1, Constants
    DEF StartPage, opVars, handlerVars, chipVars, workerVars, IInv, Structure, TypeOK, Ownership, SignalMatchesOp, ChipSelect,
        WindowGone, Frames, Locations, NoWindow, Operation
  <2>2. Delays' /\ IdleChip'
    BY <1>1, Constants
    DEF StartPage, opVars, handlerVars, chipVars, workerVars, IInv, Structure, TypeOK, Ownership, Delays,
        IdleChip, Wip, Operation
  <2>3. Politeness'
    BY <1>1, Constants
    DEF StartPage, opVars, handlerVars, chipVars, workerVars, IInv, Structure, TypeOK, Ownership, Delays,
        IdleChip, Politeness, NoWindow
  <2>4. QED
    BY <2>1, <2>2, <2>3 DEF IInv
<1>2. ASSUME StartPoll PROVE IInv'
  <2>1. Structure'
    BY <1>2, Constants
    DEF StartPoll, opVars, handlerVars, chipVars, workerVars, IInv, Structure, TypeOK, Ownership, SignalMatchesOp, ChipSelect,
        WindowGone, Frames, Locations, NoWindow, Operation
  <2>2. Delays' /\ IdleChip'
    BY <1>2, Constants
    DEF StartPoll, opVars, handlerVars, chipVars, workerVars, IInv, Structure, TypeOK, Ownership, Delays,
        IdleChip, Wip, Operation
  <2>3. Politeness'
    BY <1>2, Constants
    DEF StartPoll, opVars, handlerVars, chipVars, workerVars, IInv, Structure, TypeOK, Ownership, Delays,
        IdleChip, Politeness, NoWindow
  <2>4. QED
    BY <2>1, <2>2, <2>3 DEF IInv
<1>3. ASSUME PollAgain PROVE IInv'
  <2>1. Structure'
    BY <1>3, Constants
    DEF PollAgain, opVars, handlerVars, chipVars, workerVars, IInv, Structure, TypeOK, Ownership, SignalMatchesOp, ChipSelect,
        WindowGone, Frames, Locations, NoWindow, Operation
  <2>2. Delays' /\ IdleChip'
    BY <1>3, Constants
    DEF PollAgain, opVars, handlerVars, chipVars, workerVars, IInv, Structure, TypeOK, Ownership, Delays,
        IdleChip, Wip, Operation
  <2>3. Politeness'
    BY <1>3, Constants
    DEF PollAgain, opVars, handlerVars, chipVars, workerVars, IInv, Structure, TypeOK, Ownership, Delays,
        IdleChip, Politeness, NoWindow
  <2>4. QED
    BY <2>1, <2>2, <2>3 DEF IInv
<1>4. ASSUME PageDone PROVE IInv'
  <2>1. Structure'
    BY <1>4, Constants
    DEF PageDone, opVars, handlerVars, chipVars, workerVars, IInv, Structure, TypeOK, Ownership, SignalMatchesOp, ChipSelect,
        WindowGone, Frames, Locations, NoWindow, Operation
  <2>2. Delays' /\ IdleChip'
    BY <1>4, Constants
    DEF PageDone, opVars, handlerVars, chipVars, workerVars, IInv, Structure, TypeOK, Ownership, Delays,
        IdleChip, Wip, Operation
  <2>3. Politeness'
    BY <1>4, Constants
    DEF PageDone, opVars, handlerVars, chipVars, workerVars, IInv, Structure, TypeOK, Ownership, Delays,
        IdleChip, Politeness, NoWindow
  <2>4. QED
    BY <2>1, <2>2, <2>3 DEF IInv
<1>5. ASSUME StartSettle PROVE IInv'
  <2>1. Structure'
    BY <1>5, Constants
    DEF StartSettle, opVars, handlerVars, chipVars, workerVars, IInv, Structure, TypeOK, Ownership, SignalMatchesOp, ChipSelect,
        WindowGone, Frames, Locations, NoWindow, Operation
  <2>2. Delays' /\ IdleChip'
    BY <1>5, Constants
    DEF StartSettle, opVars, handlerVars, chipVars, workerVars, IInv, Structure, TypeOK, Ownership, Delays,
        IdleChip, Wip, Operation
  <2>3. Politeness'
    BY <1>5, Constants
    DEF StartSettle, opVars, handlerVars, chipVars, workerVars, IInv, Structure, TypeOK, Ownership, Delays,
        IdleChip, Politeness, NoWindow
  <2>4. QED
    BY <2>1, <2>2, <2>3 DEF IInv
<1>6. QED
  BY <1>1, <1>2, <1>3, <1>4, <1>5

(* The two commands of a page reach the chip.                              *)
LEMMA WrenSentStep == IInv /\ WrenSent => IInv'
<1> SUFFICES ASSUME IInv, WrenSent PROVE IInv'
  OBVIOUS
<1>1. /\ UNCHANGED <<flash, bulkOp, signal, cs, window, freq, answer, enabled,
                      erasing, cur, moved, done, timer>>
      /\ wpc = "wren" /\ wpc' = "program" /\ Execute("wren")
  BY DEF WrenSent, opVars, handlerVars, workerVars
<1>2. /\ wel \in {0, 1} /\ busy \in Nat /\ hidden \in Nat /\ stale \in Nat
      /\ hidden <= WipLag /\ stale <= busy + StaleLag
  BY DEF IInv, Structure, TypeOK, Delays
<1>3. /\ wel' \in {0, 1} /\ UNCHANGED <<busy, hidden, stale>>
      /\ busy = 0 => wel' = 1
  BY <1>1, <1>2, ExecuteStep, CommandsAssumption
<1>4. Structure'
  BY <1>1, <1>3
  DEF IInv, Structure, TypeOK, Ownership, SignalMatchesOp, ChipSelect, WindowGone,
      Frames, Locations
<1>5. Delays' /\ IdleChip'
  BY <1>1, <1>2, <1>3 DEF IInv, Delays, IdleChip
<1>6. Politeness'
  BY <1>1, <1>3 DEF IInv, Politeness
<1>7. QED
  BY <1>4, <1>5, <1>6 DEF IInv

LEMMA ProgramSentStep == IInv /\ ProgramSent => IInv'
<1> SUFFICES ASSUME IInv, ProgramSent PROVE IInv'
  OBVIOUS
<1>1. /\ UNCHANGED <<flash, bulkOp, signal, window, freq, answer, enabled,
                      erasing, cur, moved, done>>
      /\ wpc = "program" /\ wpc' = "headstart" /\ cs' = "high" /\ timer' = HeadStart
      /\ Execute("program")
  BY DEF ProgramSent, opVars, handlerVars
<1>2. /\ wel \in {0, 1} /\ busy \in Nat /\ hidden \in Nat /\ stale \in Nat
      /\ hidden <= WipLag /\ stale <= busy + StaleLag
  BY DEF IInv, Structure, TypeOK, Delays
<1>3. /\ wel' \in {0, 1} /\ busy' \in Nat /\ hidden' \in Nat /\ stale' \in Nat
      /\ hidden' <= WipLag /\ stale' <= busy' + StaleLag
  BY <1>1, <1>2, ExecuteStep
<1>4. Structure'
  BY <1>1, <1>3, Constants
  DEF IInv, Structure, TypeOK, Ownership, SignalMatchesOp, ChipSelect, WindowGone,
      Frames, Locations
<1>5. Delays' /\ IdleChip'
  <2>1. hidden' <= timer'
    BY <1>1, <1>3, Constants
  <2>2. QED
    BY <1>1, <1>3, <2>1 DEF Delays, IdleChip
<1>6. Politeness'
  BY <1>1 DEF IInv, Politeness
<1>7. QED
  BY <1>4, <1>5, <1>6 DEF IInv

(* An operation is taken: from the handler, or where the last one ended.   *)
LEMMA DispatchStep ==
  ASSUME IInv, signal, Dispatch(TRUE),
         UNCHANGED <<window, freq, answer, enabled, erasing, timer, wel, busy,
                     hidden, stale>>,
         cs' \in {"low", "high"},
         PoliteHost /\ bulkOp # NoOp => busy = 0 /\ (stale > 0 => window # NoWindow)
  PROVE  IInv'
<1>1. bulkOp # NoOp /\ bulkOp \in Operation
  BY DEF IInv, Structure, SignalMatchesOp, TypeOK
<1>2. /\ wpc' = "enable" /\ flash' = "worker" /\ cur' = bulkOp /\ moved' = 0
      /\ done' = 0 /\ bulkOp' = NoOp /\ signal' = FALSE
  BY <1>1 DEF Dispatch
<1>3. Structure'
  BY <1>1, <1>2
  DEF IInv, Structure, TypeOK, Ownership, SignalMatchesOp, ChipSelect, WindowGone,
      Frames, Locations
<1>4. Delays' /\ IdleChip'
  BY <1>2 DEF IInv, Delays, IdleChip
<1>5. Politeness'
  BY <1>1, <1>2 DEF IInv, Politeness
<1>6. QED
  BY <1>3, <1>4, <1>5 DEF IInv

LEMMA WakeUpStep == IInv /\ WakeUp => IInv'
<1> SUFFICES ASSUME IInv, WakeUp PROVE IInv'
  OBVIOUS
<1>1. signal /\ wpc = "wait" /\ flash = "shared" /\ Dispatch(TRUE)
  BY DEF WakeUp, IInv, Structure, TypeOK, Ownership, Dispatch
<1>2. PoliteHost /\ bulkOp # NoOp => busy = 0 /\ (stale > 0 => window # NoWindow)
  BY <1>1 DEF IInv, Structure, TypeOK, Politeness
<1>3. cs' \in {"low", "high"}
  BY DEF WakeUp, IInv, Structure, TypeOK
<1>4. QED
  BY <1>1, <1>2, <1>3, DispatchStep DEF WakeUp, handlerVars, chipVars

(* The flash goes back after an operation.                                 *)
LEMMA ReturnFlashStep ==
  ASSUME IInv, ReturnFlash, wpc # "wait",
         UNCHANGED <<window, freq, answer, enabled, erasing, timer, wel, busy,
                     hidden, stale>>,
         cs' \in {"low", "high"},
         PoliteHost => busy = 0 /\ stale = 0
  PROVE  IInv'
<1>1. CASE signal
  <2>1. stale \in Nat
    BY DEF IInv, Structure, TypeOK
  <2>2. Dispatch(TRUE)
    BY <1>1 DEF ReturnFlash
  <2>3. QED
    BY <1>1, <2>1, <2>2, DispatchStep
<1>2. CASE ~ signal
  <2>1. /\ wpc' = "wait" /\ flash' = "shared"
        /\ UNCHANGED <<bulkOp, signal, cur, moved, done>>
    BY <1>2 DEF ReturnFlash, opVars
  <2>2. Structure'
    BY <2>1
    DEF IInv, Structure, TypeOK, Ownership, SignalMatchesOp, ChipSelect,
        WindowGone, Frames, Locations
  <2>3. Delays' /\ IdleChip'
    BY <2>1 DEF IInv, Delays, IdleChip
  <2>4. Politeness'
    BY <2>1 DEF IInv, Politeness
  <2>5. QED
    BY <2>2, <2>3, <2>4 DEF IInv
<1>3. QED
  BY <1>1, <1>2

LEMMA EndStep == IInv /\ (EndRead \/ EndWrite) => IInv'
<1> SUFFICES ASSUME IInv PROVE EndRead \/ EndWrite => IInv'
  OBVIOUS
<1>1. ASSUME EndRead PROVE IInv'
  <2>1. PoliteHost => busy = 0 /\ stale = 0
    BY <1>1 DEF EndRead, IInv, Politeness
  <2>2. QED
    BY <1>1, <2>1, ReturnFlashStep DEF EndRead, handlerVars, chipVars
<1>2. ASSUME EndWrite PROVE IInv'
  <2>1. PoliteHost => busy = 0 /\ stale = 0
    BY <1>2 DEF EndWrite, IInv, IdleChip, Politeness, Structure, TypeOK
  <2>2. cs' \in {"low", "high"}
    BY <1>2 DEF EndWrite, IInv, Structure, TypeOK
  <2>3. QED
    BY <1>2, <2>1, <2>2, ReturnFlashStep DEF EndWrite, handlerVars, chipVars
<1>3. QED
  BY <1>1, <1>2

-----------------------------------------------------------------------------
(* Every step keeps the invariant.                                         *)
LEMMA NextIInv == IInv /\ [Next]_vars => IInv'
<1> SUFFICES ASSUME IInv, [Next]_vars PROVE IInv'
  OBVIOUS
<1>1. CASE Handler
  BY <1>1, TransceiveStep, RequestStep DEF Handler
<1>2. CASE Worker
  BY <1>2, WakeUpStep, AwaitStep, ReadStep, EndStep, PageStep, WrenSentStep,
     ProgramSentStep
  DEF Worker
<1>3. CASE UsbBlock \/ Tick
  BY <1>3, AwaitStep, TickStep
<1>4. CASE UNCHANGED vars
  <2>1. Structure'
    BY <1>4
    DEF vars, opVars, handlerVars, workerVars, chipVars, IInv, Structure, TypeOK,
        Ownership, SignalMatchesOp, ChipSelect, WindowGone
  <2>2. Delays' /\ IdleChip' /\ Politeness'
    BY <1>4
    DEF vars, opVars, handlerVars, workerVars, chipVars, IInv, Delays, IdleChip,
        Politeness
  <2>3. QED
    BY <2>1, <2>2 DEF IInv
<1>5. QED
  BY <1>1, <1>2, <1>3, <1>4 DEF Next

(* So it holds throughout.                                                 *)
LEMMA Invariance == Spec => []IInv
  BY InitIInv, NextIInv, PTL DEF Spec

(* The variables of FlashSession keep their types.                         *)
THEOREM TypeCorrect == Spec => []TypeOK
<1>1. IInv => TypeOK
  BY DEF IInv, Structure
<1>2. QED
  BY <1>1, Invariance, PTL

(* Whatever requests come in between the awaits of the worker, the chip    *)
(* stays selected through its frames and the bus floats between them.      *)
THEOREM BusHandedOver == Spec => []ChipSelect
<1>1. IInv => ChipSelect
  BY DEF IInv, Structure
<1>2. QED
  BY <1>1, Invariance, PTL

(* A pending operation always has its signal, and the signal an operation. *)
THEOREM NoLostWakeUp == Spec => []SignalMatchesOp
<1>1. IInv => SignalMatchesOp
  BY DEF IInv, Structure
<1>2. QED
  BY <1>1, Invariance, PTL

(* The worker keeps off the bus until the window of the last erase is over.*)
THEOREM WindowIsHonoured == Spec => []WindowHonoured
<1>1. IInv => WindowHonoured
  BY DEF IInv, Structure, WindowGone, WindowHonoured
<1>2. QED
  BY <1>1, Invariance, PTL

(* Whatever the chip's times, as long as its lags stay below the delays of *)
(* the code: no page after the first of an operation is lost, and none at  *)
(* all if the host is polite.                                              *)
THEOREM PagesLand == Spec => []ProgramsLand
<1>1. IInv => ProgramsLand
  BY DEF IInv, IdleChip, ProgramsLand
<1>2. QED
  BY <1>1, Invariance, PTL

(* A bulk read finds the contents settled, if the host waits for its       *)
(* erases.                                                                 *)
THEOREM FreshReads == Spec => []ReadsAreFresh
<1>1. IInv => ReadsAreFresh
  BY DEF IInv, Politeness, ReadsAreFresh
<1>2. QED
  BY <1>1, Invariance, PTL

(* How far the two ends of the double buffer are: the SPI is ahead of the  *)
(* endpoint in a read and behind it in a write, by two blocks at most; a   *)
(* page that is under way has its block in a slot; the settle timer runs   *)
(* after the last page only.                                               *)
ReadCounts ==
  wpc # "wait" /\ cur.kind = "read" =>
    moved <= done /\ done <= moved + 2 /\ done <= cur.blocks

WriteCounts ==
  wpc # "wait" /\ cur.kind = "write" =>
    done <= moved /\ moved <= done + 2 /\ moved <= cur.blocks

PageUnderWay ==
  wpc \in {"window", "postwindow", "wren", "program", "headstart", "poll"} /\ cur.kind = "write" =>
    done < moved

Counts ==
  /\ ReadCounts /\ WriteCounts /\ PageUnderWay
  /\ wpc = "enable" => moved = 0 /\ done = 0
  /\ wpc = "settle" => done = cur.blocks

LEMMA OperationIsOne ==
  ASSUME NEW op \in Operation
  PROVE  op # NoOp /\ op.kind \in {"read", "write"} /\ op.blocks \in Nat
<1>1. op.kind \in {"read", "write"} /\ op.blocks \in BlockCounts
  BY DEF Operation
<1>2. NoOp.kind = "none"
  BY DEF NoOp
<1> QED BY <1>1, <1>2, BlockCountsAssumption

(* What a taken operation starts with.                                     *)
LEMMA DispatchCounts ==
  ASSUME IInv, Dispatch(TRUE)
  PROVE  Counts'
<1>1. CASE bulkOp # NoOp
  <2>1. cur' = bulkOp /\ wpc' = "enable" /\ moved' = 0 /\ done' = 0 /\ bulkOp \in Operation
    BY <1>1 DEF Dispatch, IInv, Structure, TypeOK
  <2> QED BY <2>1, OperationIsOne DEF Counts, ReadCounts, WriteCounts, PageUnderWay
<1>2. CASE bulkOp = NoOp
  BY <1>2 DEF Dispatch, Counts, ReadCounts, WriteCounts, PageUnderWay
<1> QED BY <1>1, <1>2

LEMMA NextCounts == IInv /\ Counts /\ [Next]_vars => Counts'
<1> SUFFICES ASSUME IInv, Counts, [Next]_vars PROVE Counts'
  OBVIOUS
<1> USE DEF Counts, ReadCounts, WriteCounts, PageUnderWay
<1>0. /\ moved \in Nat /\ done \in Nat
      /\ wpc # "wait" => cur.kind \in {"read", "write"} /\ cur.blocks \in Nat
  BY OperationIsOne DEF IInv, Structure, TypeOK, Ownership
<1>1. CASE UNCHANGED <<wpc, cur, moved, done>>
  BY <1>1
<1>2. CASE Handler \/ UNCHANGED vars \/ Tick
  <2>1. UNCHANGED <<wpc, cur, moved, done>>
    BY <1>2
    DEF Handler, TransceiveOut, SetCs, SetSpiClk, Setup, Configured, workerVars, vars, Tick
  <2> QED BY <1>1, <2>1
<1>3. CASE WakeUp
  <2>1. Dispatch(TRUE)
    BY <1>3 DEF WakeUp, IInv, Structure, TypeOK, Ownership, Dispatch
  <2> QED BY <2>1, DispatchCounts
<1>4. CASE EndRead \/ EndWrite
  <2>1. Dispatch(TRUE) \/ wpc' = "wait"
    BY <1>4 DEF EndRead, EndWrite, ReturnFlash
  <2> QED BY <2>1, DispatchCounts
<1>5. CASE EndpointEnabled
  BY <1>0, <1>5 DEF EndpointEnabled, workerVars
<1>6. CASE NoWindowLeft \/ WindowPassed \/ PostWindowOver
  BY <1>0, <1>6 DEF NoWindowLeft, WindowPassed, PostWindowOver, workerVars
<1>7. CASE ReadCmdSent
  BY <1>0, <1>7 DEF ReadCmdSent, workerVars, IInv, Structure, Ownership
<1>8. CASE ReadBlock
  BY <1>0, <1>8 DEF ReadBlock, IInv, Structure, Ownership
<1>9. CASE StartPage
  BY <1>0, <1>9 DEF StartPage, workerVars
<1>10. CASE WrenSent \/ ProgramSent \/ StartPoll \/ PollAgain
  BY <1>0, <1>10 DEF WrenSent, ProgramSent, StartPoll, PollAgain, workerVars
<1>11. CASE PageDone
  BY <1>0, <1>11 DEF PageDone, IInv, Structure, Ownership
<1>12. CASE StartSettle
  BY <1>0, <1>12 DEF StartSettle
<1>13. CASE UsbBlock
  BY <1>0, <1>13 DEF UsbBlock, IInv, Structure, Ownership
<1> QED BY <1>2, <1>3, <1>4, <1>5, <1>6, <1>7, <1>8, <1>9, <1>10, <1>11, <1>12, <1>13
        DEF Next, Worker

LEMMA CountsInvariance == Spec => []Counts
<1>1. Init => Counts
  BY DEF Init, Counts, ReadCounts, WriteCounts, PageUnderWay
<1> QED BY <1>1, NextCounts, Invariance, PTL DEF Spec

(* An operation that has used the bus hands it back Hi-Z, also if the host *)
(* had left CS low before it.                                              *)
THEOREM BusIsReturned == Spec => BusReturned
<1>1. IInv /\ Counts /\ [Next]_vars =>
        [(wpc \in {"stream", "settle"} /\ wpc' # wpc /\ (cur.kind = "read" \/ cur.blocks > 0))
           => cs' = "high"]_vars
  <2> SUFFICES ASSUME IInv, Counts, Next, wpc \in {"stream", "settle"}, wpc' # wpc,
                      cur.kind = "read" \/ cur.blocks > 0
               PROVE  cs' = "high"
    OBVIOUS
  <2>1. CASE Handler \/ UsbBlock \/ Tick
    BY <2>1
    DEF Handler, TransceiveOut, SetCs, SetSpiClk, Setup, Configured, workerVars,
        UsbBlock, Tick
  <2>2. CASE EndRead
    BY <2>2 DEF EndRead
  <2>3. CASE EndWrite
    <3>1. wpc = "settle" /\ cs' = cs
      BY <2>3 DEF EndWrite
    <3>2. cur.kind = "write" /\ done = cur.blocks
      BY <3>1 DEF IInv, Structure, Ownership, Counts
    <3>3. cs = "high"
      BY <3>1, <3>2 DEF IInv, Structure, ChipSelect
    <3>4. QED
      BY <3>1, <3>3
  <2>4. CASE Worker /\ ~(EndRead \/ EndWrite)
    BY <2>4
    DEF Worker, WakeUp, EndpointEnabled, NoWindowLeft, WindowPassed, PostWindowOver,
        ReadCmdSent, ReadBlock, StartPage, WrenSent, ProgramSent, StartPoll,
        PollAgain, PageDone, StartSettle
  <2>5. QED
    BY <2>1, <2>2, <2>3, <2>4 DEF Next
<1>2. QED
  BY <1>1, Invariance, CountsInvariance, PTL DEF Spec, BusReturned

(* No request changes the clock in the middle of a worker's frame.         *)
THEOREM ClockIsStable == Spec => ClockStable
<1>1. IInv /\ [Next]_vars => [(wpc \in Frames) => freq' = freq]_vars
  <2> SUFFICES ASSUME IInv, Next, wpc \in Frames PROVE freq' = freq
    OBVIOUS
  <2>1. flash = "worker"
    BY DEF IInv, Structure, Ownership, Frames
  <2>2. CASE Handler
    BY <2>1, <2>2
    DEF Handler, TransceiveOut, SetCs, SetSpiClk, Setup, Configured, handlerVars
  <2>3. CASE Worker
    BY <2>3
    DEF Worker, WakeUp, EndpointEnabled, NoWindowLeft, WindowPassed,
        PostWindowOver, ReadCmdSent, ReadBlock, EndRead, StartPage, WrenSent,
        ProgramSent, StartPoll, PollAgain, PageDone, StartSettle, EndWrite,
        handlerVars
  <2>4. CASE UsbBlock \/ Tick
    BY <2>4 DEF UsbBlock, Tick, handlerVars
  <2>5. QED
    BY <2>2, <2>3, <2>4 DEF Next
<1>2. QED
  BY <1>1, Invariance, PTL DEF Spec, ClockStable

(* An operation whose signal is consumed is run.                           *)
THEOREM ConsumedOpsRun == Spec => ConsumedOpRuns
<1>1. IInv /\ [Next]_vars =>
        [signal /\ ~signal' => cur' = bulkOp /\ wpc' = "enable" /\ flash' = "worker"]_vars
  <2> SUFFICES ASSUME IInv, Next, signal, ~signal'
               PROVE  cur' = bulkOp /\ wpc' = "enable" /\ flash' = "worker"
    OBVIOUS
  <2>1. bulkOp # NoOp
    BY DEF IInv, Structure, SignalMatchesOp
  <2>2. ASSUME Dispatch(TRUE)
        PROVE  cur' = bulkOp /\ wpc' = "enable" /\ flash' = "worker"
    BY <2>1, <2>2 DEF Dispatch
  <2>3. CASE Handler
    BY <2>3
    DEF Handler, TransceiveOut, SetCs, SetSpiClk, Setup, Configured, opVars
  <2>4. CASE WakeUp
    <3>1. flash = "shared" /\ Dispatch(TRUE)
      BY <2>4 DEF WakeUp, IInv, Structure, TypeOK, Ownership, Dispatch
    <3>2. QED
      BY <2>2, <3>1
  <2>5. CASE EndRead \/ EndWrite
    BY <2>2, <2>5 DEF EndRead, EndWrite, ReturnFlash
  <2>6. CASE Worker /\ ~(WakeUp \/ EndRead \/ EndWrite)
    BY <2>6
    DEF Worker, EndpointEnabled, NoWindowLeft, WindowPassed, PostWindowOver,
        ReadCmdSent, ReadBlock, StartPage, WrenSent, ProgramSent, StartPoll,
        PollAgain, PageDone, StartSettle, opVars
  <2>7. CASE UsbBlock \/ Tick
    BY <2>7 DEF UsbBlock, Tick, opVars
  <2>8. QED
    BY <2>3, <2>4, <2>5, <2>6, <2>7 DEF Next
<1>2. QED
  BY <1>1, Invariance, PTL DEF Spec, ConsumedOpRuns

-----------------------------------------------------------------------------
(* The queue of operations.  A step that moves neither the operations nor  *)
(* their blocks is a stutter of BulkQueue.                                 *)
LEMMA QueueStutter ==
  ASSUME UNCHANGED <<flash, bulkOp, cur, moved, done>>
  PROVE  UNCHANGED Queue!vars
BY DEF Queue!vars

(* The last operation that was asked for begins.                           *)
LEMMA DispatchIsBegin ==
  ASSUME IInv, signal, Dispatch(TRUE)
  PROVE  Queue!Begin
<1>1. bulkOp # NoOp /\ bulkOp \in Operation
  BY DEF IInv, Structure, SignalMatchesOp, TypeOK
<1>2. /\ flash' = "worker" /\ cur' = bulkOp /\ moved' = 0 /\ done' = 0 /\ bulkOp' = NoOp
  BY <1>1 DEF Dispatch
<1> QED BY <1>1, <1>2 DEF Queue!Begin

(* The flash goes back when every block has passed both ends.              *)
LEMMA ReturnFlashIsFinish ==
  ASSUME IInv, flash = "worker", cur \in Operation, ReturnFlash,
         moved = cur.blocks, done = cur.blocks
  PROVE  Queue!Finish
<1>1. cur # NoOp
  BY OperationIsOne
<1>2. CASE signal
  <2>1. Queue!Begin
    BY <1>2, DispatchIsBegin DEF ReturnFlash
  <2> QED BY <1>1, <2>1 DEF Queue!Finish
<1>3. CASE ~signal
  <2>1. bulkOp = NoOp
    BY <1>3 DEF IInv, Structure, SignalMatchesOp, TypeOK
  <2>2. flash' = "shared" /\ bulkOp' = bulkOp
    BY <1>3 DEF ReturnFlash, opVars
  <2> QED BY <1>1, <2>1, <2>2 DEF Queue!Finish
<1> QED BY <1>2, <1>3

(* Every step of handler, worker and endpoint is one of BulkQueue.         *)
LEMMA QueueStep == IInv /\ Counts /\ [Next]_vars => [Queue!Next]_(Queue!vars)
<1> SUFFICES ASSUME IInv, Counts, [Next]_vars PROVE Queue!Next \/ UNCHANGED Queue!vars
  OBVIOUS
<1>0. /\ moved \in Nat /\ done \in Nat /\ flash \in {"shared", "worker"}
      /\ flash = "worker" <=> wpc # "wait"
      /\ wpc # "wait" => cur \in Operation /\ cur # NoOp /\ cur.blocks \in Nat
                         /\ cur.kind \in {"read", "write"}
  BY OperationIsOne DEF IInv, Structure, TypeOK, Ownership
<1>1. CASE UNCHANGED <<flash, bulkOp, cur, moved, done>>
  BY <1>1, QueueStutter
<1>2. ASSUME NEW op \in Operation, Setup(op) PROVE Queue!Next
  <2>1. bulkOp' = op /\ UNCHANGED <<flash, cur, moved, done>>
    BY <1>2 DEF Setup, workerVars
  <2>2. Queue!Ask(op)
    BY <2>1 DEF Queue!Ask
  <2> QED BY <2>2 DEF Queue!Next
<1>3. CASE Handler /\ ~(\E op \in Operation : Setup(op))
  <2>1. UNCHANGED <<flash, bulkOp, cur, moved, done>>
    BY <1>3 DEF Handler, TransceiveOut, SetCs, SetSpiClk, Configured, opVars, workerVars
  <2> QED BY <1>1, <2>1
<1>4. CASE WakeUp
  <2>1. flash = "shared" /\ signal /\ Dispatch(TRUE)
    BY <1>0, <1>4 DEF WakeUp, Dispatch
  <2>2. Queue!Start
    BY <2>1, DispatchIsBegin DEF Queue!Start
  <2> QED BY <2>2 DEF Queue!Next
<1>5. CASE EndRead
  BY <1>0, <1>5, ReturnFlashIsFinish DEF EndRead, Queue!Next
<1>6. CASE EndWrite
  <2>1. flash = "worker" /\ cur \in Operation /\ cur.kind = "write" /\ ReturnFlash
    BY <1>0, <1>6 DEF EndWrite, IInv, Structure, Ownership
  <2>2. done = cur.blocks /\ moved = cur.blocks
    BY <1>0, <1>6, <2>1 DEF EndWrite, Counts, WriteCounts
  <2> QED BY <2>1, <2>2, ReturnFlashIsFinish DEF Queue!Next
<1>7. CASE ReadBlock
  <2>1. /\ flash = "worker" /\ cur.kind = "read" /\ cur # NoOp
        /\ done < cur.blocks /\ done < moved + 2 /\ done' = done + 1
        /\ UNCHANGED <<flash, bulkOp, cur, moved>>
    BY <1>0, <1>7 DEF ReadBlock, IInv, Structure, Ownership, opVars
  <2>2. Queue!PutBlock
    BY <2>1 DEF Queue!PutBlock
  <2> QED BY <2>2 DEF Queue!Next
<1>8. CASE PageDone
  <2>1. /\ flash = "worker" /\ cur.kind = "write" /\ cur # NoOp
        /\ done' = done + 1 /\ UNCHANGED <<flash, bulkOp, cur, moved>>
    BY <1>0, <1>8 DEF PageDone, IInv, Structure, Ownership, opVars
  <2>2. done < moved
    BY <1>8, <2>1 DEF PageDone, Counts, PageUnderWay
  <2>3. Queue!TakeBlock
    BY <2>1, <2>2 DEF Queue!TakeBlock
  <2> QED BY <2>3 DEF Queue!Next
<1>9. CASE UsbBlock
  <2>1. /\ flash = "worker" /\ cur # NoOp /\ cur.kind \in {"read", "write"}
        /\ IF cur.kind = "read" THEN moved < done ELSE moved < done + 2 /\ moved < cur.blocks
        /\ moved' = moved + 1 /\ UNCHANGED <<flash, bulkOp, cur, done>>
    BY <1>0, <1>9 DEF UsbBlock, opVars
  <2>2. CASE cur.kind = "read"
    BY <2>1, <2>2 DEF Queue!TakeBlock, Queue!Next
  <2>3. CASE cur.kind = "write"
    BY <2>1, <2>3 DEF Queue!PutBlock, Queue!Next
  <2> QED BY <2>1, <2>2, <2>3
<1>10. CASE Tick \/ UNCHANGED vars
  <2>1. UNCHANGED <<flash, bulkOp, cur, moved, done>>
    BY <1>10 DEF Tick, vars, opVars, workerVars
  <2> QED BY <1>1, <2>1
<1>11. CASE Worker /\ ~(WakeUp \/ EndRead \/ EndWrite \/ ReadBlock \/ PageDone)
  <2>1. UNCHANGED <<flash, bulkOp, cur, moved, done>>
    BY <1>11
    DEF Worker, EndpointEnabled, NoWindowLeft, WindowPassed, PostWindowOver, ReadCmdSent,
        StartPage, WrenSent, ProgramSent, StartPoll, PollAgain, StartSettle, opVars, workerVars
  <2> QED BY <1>1, <2>1
<1> QED BY <1>2, <1>3, <1>4, <1>5, <1>6, <1>7, <1>8, <1>9, <1>10, <1>11 DEF Next

(* Handler and worker keep what BulkQueue promises, for any host, any      *)
(* timing and any block counts: operations run one at a time, the last one *)
(* asked for, and the flash goes back when all blocks are through.         *)
THEOREM QueueRefinement == Spec => QueueSpec
<1>1. Init => Queue!Init
  BY DEF Init, Queue!Init
<1> QED BY <1>1, QueueStep, Invariance, CountsInvariance, PTL DEF Spec, QueueSpec, Queue!Spec
=============================================================================
