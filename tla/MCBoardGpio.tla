----------------------------- MODULE MCBoardGpio -----------------------------
(* Bounds for BoardGpio.  One bit that is no switch pin stands for all of  *)
(* them; a pulse may be due at once, soon, or later than the next request. *)
EXTENDS BoardGpio

MCOtherBits == {"GPIO_AUX"}
MCDurations == 0 .. 2
=============================================================================
