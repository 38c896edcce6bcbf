----------------------------- MODULE BoardGpio ------------------------------
(***************************************************************************)
(* BoardGpio (aux.rs): the reset and power switch pins of the board, their *)
(* configuration by the host and the pulses that hold them low for a time. *)
(* A u8 of pin bits is the set of the bits that are 1.                     *)
(*                                                                         *)
(* A call is one step.  A request that finds a pulse running finishes it   *)
(* first, which drives the pins as they were before the pulse until the    *)
(* same call drives them anew, some instructions later: that level is left *)
(* out, since no other code runs meanwhile and no variable keeps it.       *)
(***************************************************************************)
EXTENDS Integers

CONSTANTS
  OtherBits,    \* the bits of a mask besides GPIO_RESET and GPIO_POWER
  Durations     \* the pulse durations of a request, in ticks

SwitchPins == {"GPIO_RESET", "GPIO_POWER"}
Bits == SwitchPins \cup OtherBits

ASSUME DurationsAssumption == Durations \subseteq Nat

VARIABLES
  outputs,      \* the levels, a pulse included
  directions,   \* the bits that are outputs, a pulse included
  pulse,        \* the pulse and what it replaces, or NoPulse
  low           \* the pins whose driver is set low

gpioVars == <<outputs, directions, pulse, low>>

NoPulse == [pins |-> {}, oldDirections |-> {}, oldOutputs |-> {}, left |-> -1]
Pulsing == pulse.left # -1

GpioInit ==
  /\ outputs = SwitchPins
  /\ directions = {}
  /\ pulse = NoPulse
  /\ low = {}

(* apply_outputs: an open drain pin is driven if it is an output at 0.     *)
ApplyOutputs == low' = {pin \in SwitchPins : pin \in directions' /\ pin \notin outputs'}

(* The masked bits of old replaced by those of new.                        *)
Masked(old, mask, new) == (old \ mask) \cup (new \cap mask)

(* Mutant: only the levels are restored.                                   *)
KeepPulsedDirections == directions

(* finish_pulse: the pulsed pins get their old settings back.              *)
RestoredDirections ==
  IF Pulsing THEN Masked(directions, pulse.pins, pulse.oldDirections) ELSE directions

RestoredOutputs ==
  IF Pulsing THEN Masked(outputs, pulse.pins, pulse.oldOutputs) ELSE outputs

SetDirection(mask, bits) ==
  /\ directions' = Masked(RestoredDirections, mask, bits)
  /\ outputs' = RestoredOutputs
  /\ pulse' = NoPulse
  /\ ApplyOutputs

SetOutput(mask, bits) ==
  /\ outputs' = Masked(RestoredOutputs, mask, bits)
  /\ directions' = RestoredDirections
  /\ pulse' = NoPulse
  /\ ApplyOutputs

PulsedPins(mask) == mask \cap SwitchPins

StartPulseLow(mask, duration) ==
  LET pins == PulsedPins(mask)
  IN  /\ pulse' = [pins |-> pins, left |-> duration,
                   oldDirections |-> RestoredDirections, oldOutputs |-> RestoredOutputs]
      /\ directions' = RestoredDirections \cup pins
      /\ outputs' = RestoredOutputs \ pins
      /\ ApplyOutputs

Due == pulse.left = 0

FinishPulseIfDue ==
  /\ Due
  /\ directions' = RestoredDirections
  /\ outputs' = RestoredOutputs
  /\ pulse' = NoPulse
  /\ ApplyOutputs

(* Time passes; the task may be late to look at a pulse that is due.       *)
GpioTick ==
  /\ pulse.left > 0
  /\ pulse' = [pulse EXCEPT !.left = @ - 1]
  /\ UNCHANGED <<outputs, directions, low>>

GpioNext ==
  \/ \E mask, bits \in SUBSET Bits : SetDirection(mask, bits) \/ SetOutput(mask, bits)
  \/ \E mask \in SUBSET Bits, duration \in Durations : StartPulseLow(mask, duration)
  \/ FinishPulseIfDue
  \/ GpioTick

GpioSpec == GpioInit /\ [][GpioNext]_gpioVars

-----------------------------------------------------------------------------
Pulses ==
  [pins : SUBSET SwitchPins, oldDirections : SUBSET Bits, oldOutputs : SUBSET Bits,
   left : Nat]

(* The type invariant: only switch pins are pulsed (the mask of            *)
(* start_pulse_low) and driven.                                            *)
GpioTypeOK ==
  /\ outputs \in SUBSET Bits
  /\ directions \in SUBSET Bits
  /\ pulse \in Pulses \cup {NoPulse}
  /\ low \in SUBSET SwitchPins

(* A pulse is an overlay: however pulses and requests follow each other,   *)
(* when it is over the pins are as the host configured them, the pulse     *)
(* never having been (finish_pulse against set_direction, set_output and   *)
(* a second start_pulse_low).                                              *)
Overlay == INSTANCE PinOverlay WITH
  configDirections <- RestoredDirections,
  configOutputs <- RestoredOutputs,
  overlay <- pulse.pins

(* The behaviours PinOverlay allows, under this mapping.                   *)
OverlaySpec == Overlay!Spec
=============================================================================
