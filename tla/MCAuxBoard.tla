----------------------------- MODULE MCAuxBoard ------------------------------
(* Bounds for AuxBoard: the two switch pins, masks of none, one or both, a *)
(* pulse that is due at once or later, and a host that sends the next      *)
(* request while it waits for an answer.                                   *)
EXTENDS AuxBoard

MCOtherBits == {}
MCMasks == {{}, {"GPIO_RESET"}, {"GPIO_RESET", "GPIO_POWER"}}
MCDurations == 0 .. 1
=============================================================================
