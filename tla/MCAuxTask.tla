----------------------------- MODULE MCAuxTask ------------------------------
(* Bounds for AuxTask: queues and batches of two bytes, so that both fill  *)
(* up; a pulse that is due at once and one that is due after a batch.      *)
EXTENDS AuxTask

MCDurations == {0, 2}

(* Below the range of the clamp, and above it. *)
MCBauds == {0, 4000000}

(* Of the two ends of the clamp set_config takes one: the divider of the   *)
(* USART may be too narrow for the lowest rate.                            *)
MCSettable == {115200, 3000000}

(* No byte, and as many as the queue holds: the second of two writes finds *)
(* it full, partly drained or empty.                                       *)
MCWriteLens == {0, 2}
=============================================================================
