-------------------------- MODULE MCControlEndpoint --------------------------
(* Bounds for ControlEndpoint: empty, shortest, longest and too long data, *)
(* replies that cut the buffer, take all of it or ask for more; three      *)
(* transactions, so that one can be done, one lost and one come after.     *)
EXTENDS ControlEndpoint

MCDataLens == {0, 1, 16, 17}
MCReplyLens == {0, 3, 16, 64}
=============================================================================
