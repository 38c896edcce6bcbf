---------------------------- MODULE MCBulkWrite ----------------------------
(* Model values and bounds for BulkWrite.                                  *)
EXTENDS BulkWrite

(* No block, fewer blocks than slots, as many, and more.                   *)
MCBlockCounts == 0 .. 4

(* An address space of four pages: the second start address wraps.         *)
MCStartAddresses == {0, 5}

(* Half blocks and whole blocks.                                           *)
MCPacketSizes == {1, 2}
=============================================================================
