----------------------------- MODULE BulkQueue ------------------------------
(***************************************************************************)
(* What handler and worker promise for the bulk operations of a host: one  *)
(* operation runs at a time, and it is the last one the host has asked     *)
(* for; its blocks go through a double buffer, in at one side and out at   *)
(* the other, and it ends when all of them are out.  An operation that     *)
(* waits is lost to a newer one only.  FlashSession implements this        *)
(* specification, and so do, for the operation that runs, BulkRead and     *)
(* BulkWrite.                                                              *)
(***************************************************************************)
EXTENDS Naturals

CONSTANTS
  Operations,   \* the operations a host may ask for
  NoOp,         \* none of them
  Slots         \* the blocks the buffer holds

VARIABLES
  pending,      \* the operation that waits
  running,      \* the operation that runs
  put,          \* its blocks that went into the buffer
  taken         \* and those that left it

vars == <<pending, running, put, taken>>

Init == pending = NoOp /\ running = NoOp /\ put = 0 /\ taken = 0

(* The host asks; what waited is forgotten.                                *)
Ask(op) ==
  /\ pending' = op
  /\ UNCHANGED <<running, put, taken>>

Begin ==
  /\ pending # NoOp
  /\ running' = pending /\ pending' = NoOp
  /\ put' = 0 /\ taken' = 0

Start == running = NoOp /\ Begin

PutBlock ==
  /\ running # NoOp
  /\ put < running.blocks /\ put < taken + Slots
  /\ put' = put + 1
  /\ UNCHANGED <<pending, running, taken>>

TakeBlock ==
  /\ running # NoOp
  /\ taken < put
  /\ taken' = taken + 1
  /\ UNCHANGED <<pending, running, put>>

(* The operation is over; one that waits begins at once.                   *)
Finish ==
  /\ running # NoOp
  /\ put = running.blocks /\ taken = running.blocks
  /\ \/ Begin
     \/ /\ pending = NoOp
        /\ running' = NoOp /\ put' = 0 /\ taken' = 0
        /\ UNCHANGED pending

Next ==
  \/ \E op \in Operations : Ask(op)
  \/ Start \/ PutBlock \/ TakeBlock \/ Finish

Spec == Init /\ [][Next]_vars
=============================================================================
