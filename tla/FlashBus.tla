------------------------------ MODULE FlashBus ------------------------------
(***************************************************************************)
(* The pins of the flash bus (spi_flash.rs): CS, SCK and MOSI, written one *)
(* register write after the other, the flash chip and a controller in the  *)
(* system that may own the bus while the device leaves it (external).      *)
(* FlashSession takes each call as one step; here the steps of a call and  *)
(* the order of the writes matter.                                         *)
(***************************************************************************)
EXTENDS Integers, Sequences

CONSTANT
  MaxBytes      \* bound: the bytes of a frame

ASSUME BusAssumption == MaxBytes \in Nat

Pins == {"cs", "sck", "mosi"}
Mode(pin, mode) == [pin |-> pin, to |-> mode]
Level(level) == [pin |-> "OUTDR", to |-> level]

VARIABLES
  mode,        \* of each pin: "float", "pulled" (by OUTDR) or "driven"
  outdr,       \* the output level of CS
  todo,        \* the register writes a call has left
  use,         \* "boot", "idle", "frame" (a transaction) or "held" (SET_CS low)
  frameBytes,  \* bytes clocked in this frame
  chipBytes,   \* bytes the chip has got since it was selected
  controller   \* "off", or the level of CS the controller drives

vars == <<mode, outdr, todo, use, frameBytes, chipBytes, controller>>

(* What the chip sees: the device drives CS, or the controller does, or    *)
(* the pull of the input holds it, which follows OUTDR.                    *)
ChipSelected(m, level, ctl) ==
  IF m["cs"] # "driven" /\ ctl # "off" THEN ctl = "low"
  ELSE m["cs"] # "float" /\ level = "low"

-----------------------------------------------------------------------------
(* The calls.                                                              *)

BusActive == <<Mode("sck", "driven"), Mode("mosi", "driven"), Mode("cs", "driven")>>

(* Mutants: CS is parked after the pins are released; MOSI is forgotten.   *)
BusIdleParkLate ==
  <<Mode("sck", "float"), Mode("mosi", "float"), Mode("cs", "pulled"), Level("high")>>
BusIdleNoMosi == <<Level("high"), Mode("sck", "float"), Mode("cs", "pulled")>>

BusIdle ==
  <<Level("high"), Mode("sck", "float"), Mode("mosi", "float"), Mode("cs", "pulled")>>

CsAssert == BusActive \o <<Level("low")>>

(* Spi::new and Output::new of the HAL (external), then SpiFlash::new.     *)
HalNew == <<Mode("sck", "driven"), Mode("mosi", "driven"), Level("high"), Mode("cs", "driven")>>

Boot == HalNew \o BusIdle

-----------------------------------------------------------------------------
Floating == [pin \in Pins |-> "float"]

(* After a reset the pins float and OUTDR is 0; the controller may be up.  *)
Init ==
  /\ mode = Floating /\ outdr = "low"
  /\ todo = Boot /\ use = "boot"
  /\ frameBytes = 0 /\ chipBytes = 0
  /\ controller \in {"off", "low", "high"}

(* The device is reset, in whatever it does, and boots again.              *)
Reset ==
  /\ mode' = Floating /\ outdr' = "low"
  /\ todo' = Boot /\ use' = "boot" /\ frameBytes' = 0
  /\ chipBytes' = IF ChipSelected(mode', outdr', controller) THEN chipBytes ELSE 0
  /\ UNCHANGED controller

(* One register write; the end of a deselection is the end of the use.     *)
Write ==
  /\ todo # <<>>
  /\ LET w == Head(todo)
     IN  IF w.pin = "OUTDR" THEN outdr' = w.to /\ UNCHANGED mode
         ELSE mode' = [mode EXCEPT ![w.pin] = w.to] /\ UNCHANGED outdr
  /\ todo' = Tail(todo)
  /\ use' = IF use = "boot" /\ todo' = <<>> THEN "idle" ELSE use
  /\ chipBytes' = IF ChipSelected(mode', outdr', controller) THEN chipBytes ELSE 0
  /\ UNCHANGED <<frameBytes, controller>>

(* cs_assert of a transaction, also if SET_CS has selected the chip; the   *)
(* host sees to it that the controller does not own the bus.               *)
StartFrame ==
  /\ todo = <<>> /\ use \in {"idle", "held"} /\ controller = "off"
  /\ todo' = CsAssert /\ use' = "frame" /\ frameBytes' = 0
  /\ UNCHANGED <<mode, outdr, chipBytes, controller>>

ClockByte ==
  /\ todo = <<>> /\ use = "frame" /\ frameBytes < MaxBytes
  /\ frameBytes' = frameBytes + 1
  /\ chipBytes' = IF ChipSelected(mode, outdr, controller) THEN chipBytes + 1 ELSE 0
  /\ UNCHANGED <<mode, outdr, todo, use, controller>>

(* Mutant: CS does not pulse between two frames.                           *)
EndFrameKeepsCs ==
  /\ todo = <<>> /\ use = "frame"
  /\ use' = "idle" /\ frameBytes' = 0
  /\ UNCHANGED <<mode, outdr, todo, chipBytes, controller>>

(* cs_deassert; the next frame may follow at once (WREN and the program).  *)
EndFrame ==
  /\ todo = <<>> /\ use = "frame"
  /\ todo' = BusIdle /\ use' = "idle" /\ frameBytes' = 0
  /\ UNCHANGED <<mode, outdr, chipBytes, controller>>

SetCs(level) ==
  /\ todo = <<>> /\ use \in {"idle", "held"} /\ controller = "off"
  /\ todo' = IF level = "low" THEN CsAssert ELSE BusIdle
  /\ use' = IF level = "low" THEN "held" ELSE "idle"
  /\ UNCHANGED <<mode, outdr, frameBytes, chipBytes, controller>>

(* The controller takes and leaves the bus while the host does not use it. *)
Control(level) ==
  /\ todo = <<>> /\ use = "idle"
  /\ controller' = level
  /\ chipBytes' = IF ChipSelected(mode, outdr, level) THEN chipBytes ELSE 0
  /\ UNCHANGED <<mode, outdr, todo, use, frameBytes>>

ControllerByte ==
  /\ controller = "low" /\ chipBytes < MaxBytes
  /\ chipBytes' = chipBytes + 1
  /\ UNCHANGED <<mode, outdr, todo, use, frameBytes, controller>>

Next ==
  \/ Write \/ StartFrame \/ ClockByte \/ EndFrame
  \/ \E level \in {"low", "high"} : SetCs(level)
  \/ \E level \in {"off", "low", "high"} : Control(level)
  \/ ControllerByte \/ Reset

Spec == Init /\ [][Next]_vars

-----------------------------------------------------------------------------
(* The device, by itself, would select the chip. *)
DeviceSelects == ChipSelected(mode, outdr, "off")

(* "CS parked high with a pull-up so the flash never sees a spurious       *)
(* select" (spi_flash.rs:90): the device selects the chip, by driving or   *)
(* by pulling CS, only when clock and data are driven too and in use.      *)
NoSpuriousSelect ==
  DeviceSelects =>
    /\ \A pin \in Pins : mode[pin] = "driven"
    /\ use \in {"frame", "held"} \/ todo # <<>>

(* Every frame is a command of its own: the chip counts its bytes from the *)
(* first of the frame, whether it was deselected for the previous frame,   *)
(* held by SET_CS or used by the controller in between.                    *)
FramesAreCommands ==
  use = "frame" /\ todo = <<>> =>
    ChipSelected(mode, outdr, controller) /\ chipBytes = frameBytes

(* "so an on-board controller can own the flash bus" (README.md:45): once  *)
(* it is up, the device drives none of the pins the controller drives.     *)
NeverFights ==
  controller # "off" /\ use # "boot" => \A pin \in Pins : mode[pin] # "driven"
=============================================================================
