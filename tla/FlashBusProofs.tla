--------------------------- MODULE FlashBusProofs ----------------------------
(***************************************************************************)
(* The chip select and the pins of the bus, for frames of any length, and  *)
(* for any order of calls, resets and a controller's comings and goings.   *)
(***************************************************************************)
EXTENDS FlashBus, SequenceTheorems, TLAPS

Driven == [pin \in Pins |-> "driven"]
Released == [pin \in Pins |-> IF pin = "cs" THEN "pulled" ELSE "float"]

(* What is left of bus_idle after its first writes, of cs_assert, and of   *)
(* the HAL's constructors.                                                 *)
Idle1 == <<Mode("sck", "float"), Mode("mosi", "float"), Mode("cs", "pulled")>>
Idle2 == <<Mode("mosi", "float"), Mode("cs", "pulled")>>
Idle3 == <<Mode("cs", "pulled")>>
Assert1 == <<Mode("mosi", "driven"), Mode("cs", "driven"), Level("low")>>
Assert2 == <<Mode("cs", "driven"), Level("low")>>
Assert3 == <<Level("low")>>
Boot1 == <<Mode("mosi", "driven"), Level("high"), Mode("cs", "driven"), Level("high"),
           Mode("sck", "float"), Mode("mosi", "float"), Mode("cs", "pulled")>>
Boot2 == <<Level("high"), Mode("cs", "driven"), Level("high"),
           Mode("sck", "float"), Mode("mosi", "float"), Mode("cs", "pulled")>>
Boot3 == <<Mode("cs", "driven"), Level("high"),
           Mode("sck", "float"), Mode("mosi", "float"), Mode("cs", "pulled")>>

(* bus_idle is under way.  It finds the pins driven, or released by an     *)
(* earlier call (SET_CS high twice), and never drives one.                 *)
Releasing ==
  \/ todo = BusIdle /\ (mode = Driven \/ (mode = Released /\ outdr = "high"))
  \/ todo = Idle1 /\ outdr = "high" /\ mode \in {Driven, Released}
  \/ /\ todo = Idle2 /\ outdr = "high" /\ mode["sck"] = "float"
     /\ (mode["mosi"] = "driven" /\ mode["cs"] = "driven") \/ mode = Released
  \/ /\ todo = Idle3 /\ outdr = "high" /\ mode["sck"] = "float" /\ mode["mosi"] = "float"
     /\ mode["cs"] \in {"driven", "pulled"}

(* cs_assert is under way.  CS falls last, when all pins are driven, or    *)
(* was low before.                                                         *)
Asserting ==
  \/ todo = CsAssert /\ ((mode = Driven /\ outdr = "low") \/ (mode = Released /\ outdr = "high"))
  \/ /\ todo = Assert1 /\ mode["sck"] = "driven"
     /\ (mode = Driven /\ outdr = "low") \/ outdr = "high"
  \/ /\ todo = Assert2 /\ mode["sck"] = "driven" /\ mode["mosi"] = "driven"
     /\ (mode = Driven /\ outdr = "low") \/ outdr = "high"
  \/ todo = Assert3 /\ mode = Driven

(* The constructors of the HAL: CS floats until its output level is high.  *)
Booting ==
  \/ todo = Boot /\ mode["cs"] = "float" /\ outdr = "low"
  \/ todo = Boot1 /\ mode["cs"] = "float" /\ mode["sck"] = "driven" /\ outdr = "low"
  \/ /\ todo \in {Boot2, Boot3} /\ mode["cs"] = "float"
     /\ mode["sck"] = "driven" /\ mode["mosi"] = "driven"
     /\ todo = Boot3 => outdr = "high"
  \/ Releasing

(* Which calls a use of the bus has under way, and how it leaves the pins. *)
PinsFollow ==
  \/ use = "boot" /\ Booting
  \/ use = "idle" /\ (Releasing \/ (todo = <<>> /\ mode = Released /\ outdr = "high"))
  \/ use \in {"frame", "held"} /\ (Asserting \/ (todo = <<>> /\ mode = Driven /\ outdr = "low"))

(* The controller owns the bus only while the device is idle or boots.     *)
ControllerWaits == controller # "off" /\ use # "boot" => use = "idle" /\ todo = <<>>

(* A chip that is not selected counts no bytes; one that is held by SET_CS *)
(* has got none; one in a frame those of the frame.                        *)
BytesOfFrame ==
  /\ use # "boot" /\ ~ChipSelected(mode, outdr, controller) => chipBytes = 0
  /\ use = "held" => chipBytes = 0
  /\ use = "frame" => chipBytes = frameBytes
  /\ use = "frame" /\ todo # <<>> => frameBytes = 0

PinsTyped ==
  /\ mode \in [Pins -> {"float", "pulled", "driven"}]
  /\ outdr \in {"low", "high"} /\ controller \in {"off", "low", "high"}

IInv ==
  /\ PinsTyped
  /\ PinsFollow /\ ControllerWaits /\ BytesOfFrame

-----------------------------------------------------------------------------
RegisterWrites ==
  [pin : Pins \cup {"OUTDR"}, to : {"float", "pulled", "driven", "low", "high"}]

(* cs_assert and the constructors as one list of writes each.              *)
LEMMA AssertIsFourWrites ==
  CsAssert = <<Mode("sck", "driven"), Mode("mosi", "driven"), Mode("cs", "driven"), Level("low")>>
<1> DEFINE s == BusActive  t == <<Level("low")>>  w == s \o t
           u == <<Mode("sck", "driven"), Mode("mosi", "driven"), Mode("cs", "driven"), Level("low")>>
<1>1. s \in Seq(RegisterWrites) /\ t \in Seq(RegisterWrites) /\ u \in Seq(RegisterWrites)
  BY DEF BusActive, RegisterWrites, Mode, Level, Pins
<1>2. /\ Len(s) = 3 /\ Len(t) = 1 /\ Len(u) = 4
      /\ s[1] = u[1] /\ s[2] = u[2] /\ s[3] = u[3] /\ t[1] = u[4]
  BY DEF BusActive
<1>3. w = CsAssert
  BY DEF CsAssert
<1> HIDE DEF s, t, u
<1>4. /\ w \in Seq(RegisterWrites) /\ Len(w) = Len(s) + Len(t)
      /\ \A i \in 1 .. Len(s) + Len(t) : w[i] = IF i <= Len(s) THEN s[i] ELSE t[i - Len(s)]
  BY <1>1, ConcatProperties
<1> HIDE DEF w
<1>5. Len(w) = 4
  BY <1>2, <1>4
<1>6. w[1] = u[1] /\ w[2] = u[2] /\ w[3] = u[3]
  BY <1>2, <1>4
<1>7. w[4] = u[4]
  BY <1>2, <1>4
<1>8. \A i \in 1 .. 4 : w[i] = u[i]
  BY <1>6, <1>7
<1>9. w = u
  BY <1>1, <1>2, <1>4, <1>5, <1>8, SeqEqual
<1> QED BY <1>3, <1>9 DEF u

LEMMA BootIsEightWrites ==
  Boot = <<Mode("sck", "driven"), Mode("mosi", "driven"), Level("high"), Mode("cs", "driven"),
           Level("high"), Mode("sck", "float"), Mode("mosi", "float"), Mode("cs", "pulled")>>
<1> DEFINE s == HalNew  t == BusIdle  w == s \o t
           u == <<Mode("sck", "driven"), Mode("mosi", "driven"), Level("high"),
                  Mode("cs", "driven"), Level("high"), Mode("sck", "float"),
                  Mode("mosi", "float"), Mode("cs", "pulled")>>
<1>1. s \in Seq(RegisterWrites) /\ t \in Seq(RegisterWrites) /\ u \in Seq(RegisterWrites)
  BY DEF HalNew, BusIdle, RegisterWrites, Mode, Level, Pins
<1>2. /\ Len(s) = 4 /\ Len(t) = 4 /\ Len(u) = 8
      /\ s[1] = u[1] /\ s[2] = u[2] /\ s[3] = u[3] /\ s[4] = u[4]
      /\ t[1] = u[5] /\ t[2] = u[6] /\ t[3] = u[7] /\ t[4] = u[8]
  BY DEF HalNew, BusIdle
<1>3. w = Boot
  BY DEF Boot
<1> HIDE DEF s, t, u
<1>4. /\ w \in Seq(RegisterWrites) /\ Len(w) = Len(s) + Len(t)
      /\ \A i \in 1 .. Len(s) + Len(t) : w[i] = IF i <= Len(s) THEN s[i] ELSE t[i - Len(s)]
  BY <1>1, ConcatProperties
<1> HIDE DEF w
<1>5. Len(w) = 8
  BY <1>2, <1>4
<1>6. w[1] = u[1] /\ w[2] = u[2] /\ w[3] = u[3] /\ w[4] = u[4]
  BY <1>2, <1>4
<1>7. w[5] = u[5] /\ w[6] = u[6] /\ w[7] = u[7] /\ w[8] = u[8]
  BY <1>2, <1>4
<1>8. \A i \in 1 .. 8 : w[i] = u[i]
  BY <1>6, <1>7
<1>9. w = u
  BY <1>1, <1>2, <1>4, <1>5, <1>8, SeqEqual
<1> QED BY <1>3, <1>9 DEF u

(* The calls write by write.                                               *)
LEMMA AssertWrites ==
  /\ CsAssert # <<>> /\ Head(CsAssert) = Mode("sck", "driven") /\ Tail(CsAssert) = Assert1
  /\ Assert1 # <<>> /\ Head(Assert1) = Mode("mosi", "driven") /\ Tail(Assert1) = Assert2
  /\ Assert2 # <<>> /\ Head(Assert2) = Mode("cs", "driven") /\ Tail(Assert2) = Assert3
  /\ Assert3 # <<>> /\ Head(Assert3) = Level("low") /\ Tail(Assert3) = <<>>
BY AssertIsFourWrites DEF Assert1, Assert2, Assert3

LEMMA IdleWrites ==
  /\ BusIdle # <<>> /\ Head(BusIdle) = Level("high") /\ Tail(BusIdle) = Idle1
  /\ Idle1 # <<>> /\ Head(Idle1) = Mode("sck", "float") /\ Tail(Idle1) = Idle2
  /\ Idle2 # <<>> /\ Head(Idle2) = Mode("mosi", "float") /\ Tail(Idle2) = Idle3
  /\ Idle3 # <<>> /\ Head(Idle3) = Mode("cs", "pulled") /\ Tail(Idle3) = <<>>
BY DEF BusIdle, Idle1, Idle2, Idle3

LEMMA BootWrites ==
  /\ Boot # <<>> /\ Head(Boot) = Mode("sck", "driven") /\ Tail(Boot) = Boot1
  /\ Boot1 # <<>> /\ Head(Boot1) = Mode("mosi", "driven") /\ Tail(Boot1) = Boot2
  /\ Boot2 # <<>> /\ Head(Boot2) = Level("high") /\ Tail(Boot2) = Boot3
  /\ Boot3 # <<>> /\ Head(Boot3) = Mode("cs", "driven") /\ Tail(Boot3) = BusIdle
BY BootIsEightWrites DEF Boot1, Boot2, Boot3, BusIdle

-----------------------------------------------------------------------------
(* One write to a pin, and one to the output level of CS.                  *)
LEMMA WriteMode ==
  ASSUME PinsTyped, Write, NEW pin \in Pins, NEW to \in {"float", "pulled", "driven"},
         Head(todo) = Mode(pin, to)
  PROVE  /\ mode' = [mode EXCEPT ![pin] = to] /\ outdr' = outdr
         /\ mode'[pin] = to /\ \A other \in Pins \ {pin} : mode'[other] = mode[other]
         /\ PinsTyped'
BY DEF Write, Mode, Pins, PinsTyped

LEMMA WriteLevel ==
  ASSUME PinsTyped, Write, NEW to \in {"low", "high"}, Head(todo) = Level(to)
  PROVE  mode' = mode /\ outdr' = to /\ PinsTyped'
BY DEF Write, Level, PinsTyped

(* What three known pins make of mode.                                     *)
LEMMA ModeOf ==
  ASSUME NEW m \in [Pins -> {"float", "pulled", "driven"}]
  PROVE  /\ m = Driven <=> m["cs"] = "driven" /\ m["sck"] = "driven" /\ m["mosi"] = "driven"
         /\ m = Released <=> m["cs"] = "pulled" /\ m["sck"] = "float" /\ m["mosi"] = "float"
BY DEF Driven, Released, Pins

LEMMA ReleaseStep ==
  ASSUME PinsTyped, Releasing, Write
  PROVE  /\ PinsTyped'
         /\ Releasing' \/ (todo' = <<>> /\ mode' = Released /\ outdr' = "high")
<1>1. todo' = Tail(todo)
  BY DEF Write
<1>2. CASE todo = BusIdle /\ (mode = Driven \/ (mode = Released /\ outdr = "high"))
  <2>1. Head(todo) = Level("high") /\ todo' = Idle1
    BY <1>1, <1>2, IdleWrites
  <2>2. mode' = mode /\ outdr' = "high" /\ PinsTyped'
    BY <2>1, WriteLevel
  <2> QED BY <1>2, <2>1, <2>2 DEF Releasing
<1>3. CASE todo = Idle1 /\ outdr = "high" /\ mode \in {Driven, Released}
  <2>1. Head(todo) = Mode("sck", "float") /\ todo' = Idle2
    BY <1>1, <1>3, IdleWrites
  <2>2. /\ mode'["sck"] = "float" /\ mode'["mosi"] = mode["mosi"] /\ mode'["cs"] = mode["cs"]
        /\ outdr' = "high" /\ PinsTyped'
    BY <1>3, <2>1, WriteMode DEF Pins
  <2>3. (mode'["mosi"] = "driven" /\ mode'["cs"] = "driven") \/ mode' = Released
    BY <1>3, <2>2, ModeOf DEF PinsTyped
  <2> QED BY <2>1, <2>2, <2>3 DEF Releasing
<1>4. CASE /\ todo = Idle2 /\ outdr = "high" /\ mode["sck"] = "float"
           /\ (mode["mosi"] = "driven" /\ mode["cs"] = "driven") \/ mode = Released
  <2>1. Head(todo) = Mode("mosi", "float") /\ todo' = Idle3
    BY <1>1, <1>4, IdleWrites
  <2>2. /\ mode'["mosi"] = "float" /\ mode'["sck"] = "float" /\ mode'["cs"] = mode["cs"]
        /\ outdr' = "high" /\ PinsTyped'
    BY <1>4, <2>1, WriteMode DEF Pins
  <2>3. mode["cs"] \in {"driven", "pulled"}
    BY <1>4, ModeOf DEF PinsTyped
  <2> QED BY <2>1, <2>2, <2>3 DEF Releasing
<1>5. CASE /\ todo = Idle3 /\ outdr = "high" /\ mode["sck"] = "float" /\ mode["mosi"] = "float"
           /\ mode["cs"] \in {"driven", "pulled"}
  <2>1. Head(todo) = Mode("cs", "pulled") /\ todo' = <<>>
    BY <1>1, <1>5, IdleWrites
  <2>2. /\ mode'["cs"] = "pulled" /\ mode'["sck"] = "float" /\ mode'["mosi"] = "float"
        /\ outdr' = "high" /\ PinsTyped'
    BY <1>5, <2>1, WriteMode DEF Pins
  <2>3. mode' = Released
    BY <2>2, ModeOf DEF PinsTyped
  <2> QED BY <2>1, <2>2, <2>3
<1> QED BY <1>2, <1>3, <1>4, <1>5 DEF Releasing

LEMMA AssertStep ==
  ASSUME PinsTyped, Asserting, Write
  PROVE  /\ PinsTyped'
         /\ Asserting' \/ (todo' = <<>> /\ mode' = Driven /\ outdr' = "low")
<1>1. todo' = Tail(todo)
  BY DEF Write
<1>2. CASE todo = CsAssert /\ ((mode = Driven /\ outdr = "low") \/ (mode = Released /\ outdr = "high"))
  <2>1. Head(todo) = Mode("sck", "driven") /\ todo' = Assert1
    BY <1>1, <1>2, AssertWrites
  <2>2. /\ mode'["sck"] = "driven" /\ mode'["mosi"] = mode["mosi"] /\ mode'["cs"] = mode["cs"]
        /\ outdr' = outdr /\ PinsTyped'
    BY <2>1, WriteMode DEF Pins
  <2>3. (mode' = Driven /\ outdr' = "low") \/ outdr' = "high"
    BY <1>2, <2>2, ModeOf DEF PinsTyped
  <2> QED BY <2>1, <2>2, <2>3 DEF Asserting
<1>3. CASE /\ todo = Assert1 /\ mode["sck"] = "driven"
           /\ (mode = Driven /\ outdr = "low") \/ outdr = "high"
  <2>1. Head(todo) = Mode("mosi", "driven") /\ todo' = Assert2
    BY <1>1, <1>3, AssertWrites
  <2>2. /\ mode'["mosi"] = "driven" /\ mode'["sck"] = "driven" /\ mode'["cs"] = mode["cs"]
        /\ outdr' = outdr /\ PinsTyped'
    BY <1>3, <2>1, WriteMode DEF Pins
  <2>3. (mode' = Driven /\ outdr' = "low") \/ outdr' = "high"
    BY <1>3, <2>2, ModeOf DEF PinsTyped
  <2> QED BY <2>1, <2>2, <2>3 DEF Asserting
<1>4. CASE /\ todo = Assert2 /\ mode["sck"] = "driven" /\ mode["mosi"] = "driven"
           /\ (mode = Driven /\ outdr = "low") \/ outdr = "high"
  <2>1. Head(todo) = Mode("cs", "driven") /\ todo' = Assert3
    BY <1>1, <1>4, AssertWrites
  <2>2. /\ mode'["cs"] = "driven" /\ mode'["sck"] = "driven" /\ mode'["mosi"] = "driven"
        /\ PinsTyped'
    BY <1>4, <2>1, WriteMode DEF Pins
  <2>3. mode' = Driven
    BY <2>2, ModeOf DEF PinsTyped
  <2> QED BY <2>1, <2>2, <2>3 DEF Asserting
<1>5. CASE todo = Assert3 /\ mode = Driven
  <2>1. Head(todo) = Level("low") /\ todo' = <<>>
    BY <1>1, <1>5, AssertWrites
  <2> QED BY <1>5, <2>1, WriteLevel
<1> QED BY <1>2, <1>3, <1>4, <1>5 DEF Asserting

LEMMA BootStep ==
  ASSUME PinsTyped, Booting, Write
  PROVE  /\ PinsTyped'
         /\ Booting' \/ (todo' = <<>> /\ mode' = Released /\ outdr' = "high")
<1>1. todo' = Tail(todo)
  BY DEF Write
<1>2. CASE todo = Boot /\ mode["cs"] = "float" /\ outdr = "low"
  <2>1. Head(todo) = Mode("sck", "driven") /\ todo' = Boot1
    BY <1>1, <1>2, BootWrites
  <2>2. mode'["sck"] = "driven" /\ mode'["cs"] = "float" /\ outdr' = "low" /\ PinsTyped'
    BY <1>2, <2>1, WriteMode DEF Pins
  <2> QED BY <2>1, <2>2 DEF Booting
<1>3. CASE todo = Boot1 /\ mode["cs"] = "float" /\ mode["sck"] = "driven" /\ outdr = "low"
  <2>1. Head(todo) = Mode("mosi", "driven") /\ todo' = Boot2
    BY <1>1, <1>3, BootWrites
  <2>2. /\ mode'["mosi"] = "driven" /\ mode'["sck"] = "driven" /\ mode'["cs"] = "float"
        /\ PinsTyped'
    BY <1>3, <2>1, WriteMode DEF Pins
  <2>3. Boot2 # Boot3
    <3>1. Head(Boot2).pin # Head(Boot3).pin
      BY BootWrites DEF Level, Mode
    <3> QED BY <3>1
  <2> QED BY <2>1, <2>2, <2>3 DEF Booting
<1>4. CASE /\ todo = Boot2 /\ mode["cs"] = "float"
           /\ mode["sck"] = "driven" /\ mode["mosi"] = "driven"
  <2>1. Head(todo) = Level("high") /\ todo' = Boot3
    BY <1>1, <1>4, BootWrites
  <2>2. mode' = mode /\ outdr' = "high" /\ PinsTyped'
    BY <2>1, WriteLevel
  <2> QED BY <1>4, <2>1, <2>2 DEF Booting
<1>5. CASE /\ todo = Boot3 /\ mode["cs"] = "float" /\ outdr = "high"
           /\ mode["sck"] = "driven" /\ mode["mosi"] = "driven"
  <2>1. Head(todo) = Mode("cs", "driven") /\ todo' = BusIdle
    BY <1>1, <1>5, BootWrites
  <2>2. /\ mode'["cs"] = "driven" /\ mode'["sck"] = "driven" /\ mode'["mosi"] = "driven"
        /\ PinsTyped'
    BY <1>5, <2>1, WriteMode DEF Pins
  <2>3. mode' = Driven
    BY <2>2, ModeOf DEF PinsTyped
  <2> QED BY <2>1, <2>2, <2>3 DEF Booting, Releasing
<1>6. CASE Releasing
  BY <1>6, ReleaseStep DEF Booting
<1> QED BY <1>2, <1>3, <1>4, <1>5, <1>6 DEF Booting

(* A call that is under way has writes left.                               *)
LEMMA UnderWay == Releasing \/ Asserting \/ Booting => todo # <<>>
BY IdleWrites, AssertWrites, BootWrites DEF Releasing, Asserting, Booting

-----------------------------------------------------------------------------
(* One action each.                                                        *)
LEMMA InitIsInv == Init => IInv
BY DEF Init, IInv, PinsTyped, PinsFollow, ControllerWaits, BytesOfFrame, Booting, Floating, Pins

LEMMA ResetKeepsInv == ASSUME IInv, Reset PROVE IInv'
BY DEF Reset, IInv, PinsTyped, PinsFollow, ControllerWaits, BytesOfFrame, Booting, Floating, Pins

LEMMA WriteKeepsInv == ASSUME IInv, Write PROVE IInv'
<1>1. PinsTyped' /\ PinsFollow'
  <2>1. CASE use = "boot"
    <3>1. PinsTyped' /\ (Booting' \/ (todo' = <<>> /\ mode' = Released /\ outdr' = "high"))
      BY <2>1, BootStep DEF IInv, PinsFollow
    <3>2. Booting' => todo' # <<>>
      BY IdleWrites, BootWrites DEF Releasing, Booting
    <3> QED BY <2>1, <3>1, <3>2 DEF Write, PinsFollow
  <2>2. CASE use = "idle"
    <3>1. Releasing
      BY <2>2 DEF IInv, PinsFollow, Write
    <3> QED BY <2>2, <3>1, ReleaseStep DEF IInv, Write, PinsFollow
  <2>3. CASE use \in {"frame", "held"}
    <3>1. Asserting
      BY <2>3 DEF IInv, PinsFollow, Write
    <3> QED BY <2>3, <3>1, AssertStep DEF IInv, Write, PinsFollow
  <2> QED BY <2>1, <2>2, <2>3 DEF IInv, PinsFollow
<1>2. ControllerWaits'
  BY DEF IInv, ControllerWaits, Write
<1>3. BytesOfFrame'
  <2>1. chipBytes' = IF ChipSelected(mode', outdr', controller) THEN chipBytes ELSE 0
    BY DEF Write
  <2>2. ~ChipSelected(mode, outdr, controller)' => chipBytes' = 0
    BY <2>1 DEF Write
  <2>3. use' \in {"held", "frame"} => use' = use
    BY DEF Write
  <2>4. use' \in {"held", "frame"} => chipBytes' = 0
    BY <2>1, <2>3 DEF IInv, BytesOfFrame, Write
  <2>5. use' = "frame" => frameBytes' = 0
    BY <2>3 DEF IInv, BytesOfFrame, Write
  <2> QED BY <2>2, <2>4, <2>5 DEF BytesOfFrame
<1> QED BY <1>1, <1>2, <1>3 DEF IInv

(* Where the device is idle and the controller off, no one selects.        *)
LEMMA IdleDeselects ==
  ASSUME IInv, todo = <<>>, use = "idle"
  PROVE  mode = Released /\ outdr = "high"
BY UnderWay DEF IInv, PinsFollow

LEMMA InUseSelects ==
  ASSUME IInv, todo = <<>>, use \in {"frame", "held"}
  PROVE  mode = Driven /\ outdr = "low" /\ ChipSelected(mode, outdr, controller)
BY UnderWay DEF IInv, PinsFollow, ChipSelected, Driven, Pins

LEMMA NewUseAsserts ==
  ASSUME IInv, todo = <<>>, use \in {"idle", "held"}, controller = "off"
  PROVE  /\ chipBytes = 0
         /\ (mode = Driven /\ outdr = "low") \/ (mode = Released /\ outdr = "high")
<1>1. CASE use = "idle"
  BY <1>1, IdleDeselects DEF IInv, BytesOfFrame, ChipSelected
<1>2. CASE use = "held"
  BY <1>2, InUseSelects DEF IInv, BytesOfFrame
<1> QED BY <1>1, <1>2

LEMMA StartFrameKeepsInv == ASSUME IInv, StartFrame PROVE IInv'
<1>1. chipBytes = 0 /\ Asserting'
  BY NewUseAsserts DEF StartFrame, Asserting
<1> QED
  BY <1>1 DEF StartFrame, IInv, PinsTyped, PinsFollow, ControllerWaits, BytesOfFrame

LEMMA SetCsKeepsInv ==
  ASSUME IInv, NEW level \in {"low", "high"}, SetCs(level)
  PROVE  IInv'
<1>1. /\ chipBytes = 0
      /\ (mode = Driven /\ outdr = "low") \/ (mode = Released /\ outdr = "high")
  BY NewUseAsserts DEF SetCs
<1>2. CASE level = "low"
  <2>1. Asserting'
    BY <1>1, <1>2 DEF SetCs, Asserting
  <2> QED BY <1>1, <1>2, <2>1 DEF SetCs, IInv, PinsTyped, PinsFollow, ControllerWaits, BytesOfFrame
<1>3. CASE level = "high"
  <2>1. Releasing'
    BY <1>1, <1>3 DEF SetCs, Releasing
  <2> QED BY <1>1, <1>3, <2>1 DEF SetCs, IInv, PinsTyped, PinsFollow, ControllerWaits, BytesOfFrame
<1> QED BY <1>2, <1>3

LEMMA ClockByteKeepsInv == ASSUME IInv, ClockByte PROVE IInv'
<1>1. /\ mode = Driven /\ outdr = "low" /\ ChipSelected(mode, outdr, controller)
      /\ mode' = mode /\ outdr' = outdr /\ controller' = controller
  BY InUseSelects DEF ClockByte
<1>2. PinsTyped' /\ PinsFollow' /\ ControllerWaits'
  BY <1>1 DEF ClockByte, IInv, PinsTyped, PinsFollow, ControllerWaits
<1>3. chipBytes' = frameBytes' /\ todo' = <<>> /\ use' = "frame"
  BY <1>1 DEF ClockByte, IInv, BytesOfFrame
<1> QED BY <1>1, <1>2, <1>3 DEF IInv, BytesOfFrame

LEMMA EndFrameKeepsInv == ASSUME IInv, EndFrame PROVE IInv'
<1>1. Releasing'
  BY InUseSelects DEF EndFrame, Releasing
<1>2. controller = "off"
  BY DEF EndFrame, IInv, ControllerWaits
<1> QED
  BY <1>1, <1>2 DEF EndFrame, IInv, PinsTyped, PinsFollow, ControllerWaits, BytesOfFrame

LEMMA ControlKeepsInv ==
  ASSUME IInv, NEW level \in {"off", "low", "high"}, Control(level)
  PROVE  IInv'
<1>1. mode = Released /\ outdr = "high"
  BY IdleDeselects DEF Control
<1>2. PinsTyped' /\ PinsFollow' /\ ControllerWaits'
  BY <1>1 DEF Control, IInv, PinsTyped, PinsFollow, ControllerWaits
<1>3. use' = "idle" /\ (~ChipSelected(mode, outdr, controller)' => chipBytes' = 0)
  BY DEF Control
<1> QED BY <1>2, <1>3 DEF IInv, BytesOfFrame

LEMMA ControllerByteKeepsInv == ASSUME IInv, ControllerByte PROVE IInv'
<1>1. PinsTyped' /\ PinsFollow' /\ ControllerWaits'
  BY DEF ControllerByte, IInv, PinsTyped, PinsFollow, ControllerWaits,
         Releasing, Asserting, Booting
<1>2. CASE use = "boot"
  BY <1>1, <1>2 DEF ControllerByte, IInv, BytesOfFrame
<1>3. CASE use # "boot"
  <2>1. use = "idle" /\ mode = Released
    BY <1>3, IdleDeselects DEF ControllerByte, IInv, ControllerWaits
  <2>2. ChipSelected(mode, outdr, controller)'
    BY <2>1 DEF ControllerByte, ChipSelected, Released, Pins
  <2> QED BY <1>1, <2>1, <2>2 DEF ControllerByte, IInv, BytesOfFrame
<1> QED BY <1>2, <1>3

LEMMA StutterKeepsInv == ASSUME IInv, UNCHANGED vars PROVE IInv'
BY DEF vars, IInv, PinsTyped, PinsFollow, ControllerWaits, BytesOfFrame,
       Releasing, Asserting, Booting

(* The chip select and the pins follow the calls in every execution.       *)
THEOREM BusInvariant == Spec => []IInv
<1>1. IInv /\ [Next]_vars => IInv'
  BY WriteKeepsInv, StartFrameKeepsInv, ClockByteKeepsInv, EndFrameKeepsInv, SetCsKeepsInv,
     ControlKeepsInv, ControllerByteKeepsInv, ResetKeepsInv, StutterKeepsInv DEF Next
<1> QED BY InitIsInv, <1>1, PTL DEF Spec

(* "CS parked high with a pull-up so the flash never sees a spurious       *)
(* select" (spi_flash.rs:90), between any two register writes: the output  *)
(* level is high before CS leaves or enters its driven state.              *)
THEOREM ChipSelectIsNeverSpurious == Spec => []NoSpuriousSelect
<1>1. IInv => NoSpuriousSelect
  <2> SUFFICES ASSUME IInv, DeviceSelects
               PROVE  /\ \A pin \in Pins : mode[pin] = "driven"
                      /\ use \in {"frame", "held"} \/ todo # <<>>
    BY DEF NoSpuriousSelect
  <2>1. mode["cs"] # "float" /\ outdr = "low"
    BY DEF DeviceSelects, ChipSelected
  <2>2. mode = Driven /\ (use \in {"frame", "held"} \/ todo # <<>>)
    <3>1. Releasing => mode = Driven /\ todo # <<>>
      BY <2>1, UnderWay DEF Releasing
    <3>2. Booting => Releasing
      <4>1. ~(todo \in {Boot2, Boot3} /\ mode["cs"] = "float")
        BY <2>1
      <4> QED BY <2>1, <4>1 DEF Booting
    <3>3. Asserting => mode = Driven
      BY <2>1 DEF Asserting
    <3> QED BY <2>1, <3>1, <3>2, <3>3 DEF IInv, PinsFollow
  <2> QED BY <2>2 DEF Driven
<1> QED BY BusInvariant, <1>1, PTL

(* "FramesAreCommands": a frame that is being clocked has reached the chip *)
(* from its first byte, for frames of any length.                          *)
THEOREM EveryFrameIsACommand == Spec => []FramesAreCommands
<1>1. IInv => FramesAreCommands
  BY InUseSelects DEF FramesAreCommands, IInv, BytesOfFrame
<1> QED BY BusInvariant, <1>1, PTL

(* "so an on-board controller can own the flash bus" (README.md:45): the   *)
(* device drives no pin of a bus a controller uses.                        *)
THEOREM BusIsLeftToTheController == Spec => []NeverFights
<1>1. IInv => NeverFights
  BY IdleDeselects DEF NeverFights, IInv, ControllerWaits, Released
<1> QED BY BusInvariant, <1>1, PTL
=============================================================================
