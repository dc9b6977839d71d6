---------------------------- MODULE AspawnLease ----------------------------
(* Aspawn implements StackLease.                                           *)
EXTENDS Aspawn

(* How far the spawn of c is, seen from outside the library.               *)
UseOf(c) ==
  IF pc[c] = "idle" THEN "new"
  ELSE IF cpc[c] = "none" THEN "lent"
  ELSE IF InVm(c) THEN "running"
  ELSE "over"

Lease == INSTANCE StackLease WITH use <- [c \in Call |-> UseOf(c)]

(* aspawn, its children and clients that wait for POLLHUP (or for an       *)
(* error) before they reuse a stack never do anything that StackLease does *)
(* not allow: no stack is taken back while a child runs on it, and no      *)
(* child is started on a stack that is not lent to its call.               *)
ImplementsStackLease == Lease!Spec
=============================================================================
