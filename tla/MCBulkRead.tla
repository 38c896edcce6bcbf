---------------------------- MODULE MCBulkRead -----------------------------
(* Model values and bounds for BulkRead.                                   *)
EXTENDS BulkRead

(* No block, fewer blocks than slots, as many, and more: the ring wraps    *)
(* more than twice.                                                        *)
MCBlockCounts == 0 .. 6
=============================================================================
