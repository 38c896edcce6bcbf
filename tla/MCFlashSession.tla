--------------------------- MODULE MCFlashSession ---------------------------
(* Model values and bounds for FlashSession: a tick is about the head      *)
(* start.                                                                  *)
EXTENDS FlashSession

(* No block, one, and two so that one page follows another.                *)
MCBlockCounts == 0 .. 2

(* A short and a long erase, and one that erase_busy_duration does not     *)
(* know.                                                                   *)
MCErases == {"sector", "chip", "page_erase"}
MCEraseWindow == [sector |-> 1, chip |-> 3, page_erase |-> NoWindow]

MCFrequencies == {"12 MHz", "24 MHz"}

(* None and two, for a host that may do anything.                          *)
MCTwoBlocks == {0, 2}

(* Operations with data, for the request that comes when it has moved.     *)
MCDataBlocks == {2}
=============================================================================
