--------------------------- MODULE BlockTransfer ---------------------------
(***************************************************************************)
(* What one bulk operation promises the host, whatever its direction: the  *)
(* blocks of the operation move one by one, in order and without gaps,     *)
(* until all have moved or the USB side fails; after a failure nothing     *)
(* more moves.  Blocks are named by their number: block b of the operation *)
(* is the value b.  BulkRead and BulkWrite implement this specification.   *)
(***************************************************************************)
EXTENDS Naturals, Sequences

VARIABLES
  total,    \* the number of blocks the operation asks for
  moved,    \* the blocks that reached the other side, in order of arrival
  failed,   \* the USB transfer has returned an error
  ended     \* the operation is over

vars == <<total, moved, failed, ended>>

Init ==
  /\ total \in Nat
  /\ moved = <<>>
  /\ failed = FALSE
  /\ ended = FALSE

(* The next block arrives. *)
MoveBlock ==
  /\ ~failed
  /\ Len(moved) < total
  /\ moved' = Append(moved, Len(moved))

Move ==
  /\ MoveBlock
  /\ UNCHANGED <<total, failed, ended>>

(* The USB transfer fails; the last block may have arrived all the same.   *)
Fail ==
  /\ ~failed
  /\ ~ended
  /\ failed' = TRUE
  /\ MoveBlock \/ UNCHANGED moved
  /\ UNCHANGED <<total, ended>>

(* The operation ends; without a failure, every block has moved.           *)
End ==
  /\ ~ended
  /\ failed \/ Len(moved) = total
  /\ ended' = TRUE
  /\ UNCHANGED <<total, moved, failed>>

Next == Move \/ Fail \/ End

Spec == Init /\ [][Next]_vars
=============================================================================
