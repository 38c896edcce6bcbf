--------------------------- MODULE MCSetupPackets ---------------------------
(* Bounds for SetupPackets: bytes of three values, so that carries go      *)
(* through every byte of an address.                                       *)
EXTENDS SetupPackets

(* None, one, a count below a byte, and one that needs its second byte.    *)
MCBlockCounts == {0, 1, 2, 4}

(* No dummy byte, one, and as many as the command buffer is said to hold.  *)
MCCycles == {0, 8, 40}

(* One more than that.                                                     *)
MCTooManyCycles == {48}
MCOneBlock == {1}
=============================================================================
