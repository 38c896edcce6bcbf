----------------------------- MODULE PinOverlay -----------------------------
(***************************************************************************)
(* What the auxiliary interface promises about the two switch pins: the    *)
(* host configures directions and outputs, a pulse lies over them without  *)
(* changing them, and a pin is low exactly if the pulse covers it or its   *)
(* configuration drives it low.                                            *)
(***************************************************************************)
CONSTANTS
  SwitchPins,   \* reset and power
  OtherBits     \* the other bits of a mask

Bits == SwitchPins \cup OtherBits

VARIABLES
  configDirections,   \* the bits the host has made outputs
  configOutputs,      \* the bits the host has set
  overlay,            \* the pins a pulse holds low
  low                 \* the pins that are driven low

vars == <<configDirections, configOutputs, overlay, low>>

(* The masked bits of old replaced by those of new.                        *)
Masked(old, mask, new) == (old \ mask) \cup (new \cap mask)

Init ==
  /\ configDirections = {}
  /\ configOutputs = SwitchPins
  /\ overlay = {}
  /\ low = {}

Show == low' = overlay' \cup ((configDirections' \ configOutputs') \cap SwitchPins)

(* A new configuration ends a pulse. *)
Configure(mask, bits) ==
  /\ \/ /\ configDirections' = Masked(configDirections, mask, bits)
        /\ UNCHANGED configOutputs
     \/ /\ configOutputs' = Masked(configOutputs, mask, bits)
        /\ UNCHANGED configDirections
  /\ overlay' = {}
  /\ Show

(* A pulse starts, in the place of one that lasts. *)
Pulse(mask) ==
  /\ overlay' = mask \cap SwitchPins
  /\ UNCHANGED <<configDirections, configOutputs>>
  /\ Show

(* A pulse ends. *)
Expire ==
  /\ overlay' = {}
  /\ UNCHANGED <<configDirections, configOutputs>>
  /\ Show

Next ==
  \/ \E mask, bits \in SUBSET Bits : Configure(mask, bits)
  \/ \E mask \in SUBSET Bits : Pulse(mask)
  \/ Expire

Spec == Init /\ [][Next]_vars
=============================================================================
